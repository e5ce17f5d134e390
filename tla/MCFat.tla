-------------------------------- MODULE MCFat --------------------------------
(* A volume of 4 clusters of 2 sectors of 2 slots, and a table with        *)
(* entries for 2 more.                                                     *)
EXTENDS FatLib

MCParts == [n \in {"a", "b", "d"} |-> IF n = "b" THEN 2 ELSE 1]
MCBase == [n \in {"a", "b", "d"} |-> IF n = "d" THEN "D" ELSE "A"]
MCFilePaths == {<<"a">>, <<"b">>, <<"d", "a">>}
MCDirPaths == {<<"d">>}
MCWrites == {<<2>>, <<1, 1, 2, 1, 1>>}
MCSeeks == {<<-4, "cur">>, <<1, "set">>, <<0, "end">>}
MCMaxCalls == [t \in {16, 32} |-> IF t = 16 THEN 4 ELSE 5]
==============================================================================
