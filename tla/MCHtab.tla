------------------------------- MODULE MCHtab -------------------------------
(* Htab for TLC.                                                           *)
EXTENDS Htab

MCHtabPages == <<4, 6>>
MCImagePages == <<9, 10>>
MCAilPages == <<1, 3>>
Map(virt, phys, size, cut) == [virt |-> virt, phys |-> phys, size |-> size, cut |-> cut]
MCClientMaps == {Map(11, 0, 1, {}), Map(9, 1, 2, {}), Map(15, 2, 1, {}), Map(3, 3, 1, {}), Map(1, 9, 1, {"phys"})}
MCMixedMaps == {<<12, 0>>}
MCUnmaps == {<<"vm", 3>>, <<"vm", 12>>, <<"hv", 8>>}
=============================================================================
