----------------------------- MODULE MCGuestMmu -----------------------------
(* GuestMmu for TLC: a few segments, and firmware that may have left a     *)
(* guest-looking segment and a hypervisor-looking one anywhere in the SLB. *)
EXTENDS GuestMmu

MCStale == {SlbEntry(0, "256M", 0, "4K"), SlbEntry(HV_ASPACE, "1T", 0, "4K")}
=============================================================================
