----------------------------- MODULE RangeList ------------------------------
(***************************************************************************)
(* A range list under an arbitrary sequence of legal calls, shown to be    *)
(* the set of addresses that RangeSet promises.                            *)
(***************************************************************************)
EXTENDS Ranges

CONSTANTS
    Top,        \* addresses are 0 .. Top - 1
    Grain       \* callers' intervals begin and end at multiples of Grain

(* range_add refuses a range of one address, so a split must never leave   *)
(* one: callers work in pages (rom.c) or in words and pages (mem.c).       *)
ASSUME GrainAssumption == Grain \in Nat /\ Grain >= 2
ASSUME TopAssumption == Top \in Nat /\ Top % Grain = 0

Intervals ==
    {<<b * Grain, e * Grain - 1>> : b \in 0 .. Top \div Grain - 1, e \in 1 .. Top \div Grain}

VARIABLES list, bug
vars == <<list, bug>>

Init == list = <<>> /\ bug = FALSE

(* Callers add only what is not there: the memory nodes of the device tree *)
(* do not overlap, and rom_init adds one range.                            *)
AddRange(base, limit) ==
    /\ base < limit
    /\ (base .. limit) \cap Covered(list) = {}
    /\ bug' = (bug \/ AddBug(list, base, limit))
    /\ list' = range_add(list, base, limit)

RemoveRange(base, limit) ==
    /\ base < limit
    /\ LET r == range_remove(list, base, limit)
       IN  list' = r.rs /\ bug' = (bug \/ r.bug)

Next == \E i \in Intervals : AddRange(i[1], i[2]) \/ RemoveRange(i[1], i[2])
Spec == Init /\ [][Next]_vars

(* The set a list stands for. One that is out of order or overlaps, or     *)
(* that a BUG of range_add or range_remove has cut short, stands for none. *)
Meaning == IF Ordered(list) /\ ~bug THEN Covered(list) ELSE {-1}
Set == INSTANCE RangeSet WITH free <- Meaning

(* Every legal sequence of calls keeps the list sorted and disjoint, meets *)
(* no BUG, and each call has exactly the effect of the set operation it    *)
(* stands for: ranges that a removal only touches in part lose that part.  *)
ImplementsSet == Set!Spec
=============================================================================
