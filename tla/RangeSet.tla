------------------------------ MODULE RangeSet ------------------------------
(***************************************************************************)
(* What lib/ranges.c promises its callers: a set of addresses to which     *)
(* intervals are added and from which intervals are removed. Lists, nodes  *)
(* and allocation are not part of the promise.                             *)
(***************************************************************************)
EXTENDS Integers

CONSTANT Intervals      \* the <<base, limit>> pairs callers pass, limit included
VARIABLE free

Span(i) == i[1] .. i[2]

Init == free = {}

(* An interval is added once; a second range_add of it is a caller's bug.  *)
Add(i) == Span(i) \cap free = {} /\ free' = free \cup Span(i)
Remove(i) == free' = free \ Span(i)

Next == \E i \in Intervals : Add(i) \/ Remove(i)
Spec == Init /\ [][Next]_free
=============================================================================
