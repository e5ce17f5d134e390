------------------------------- MODULE MCMem --------------------------------
(* Mem for TLC: two memory nodes with a hole between them, and one more    *)
(* reservation anywhere, aligned to pages or not.                          *)
EXTENDS Mem

MCNodes == <<<<0, 13>>, <<16, 31>>>>
MCImage == <<6, 7>>
MCVectors == <<0, 1>>
MCFdt == [base |-> 18, size_dt_struct |-> 2, totalsize |-> 4]
MCEdges == {2 * x : x \in 0 .. 16}
MCReservations == {<<<<b, e - 1>>>> : <<b, e>> \in {i \in MCEdges \X MCEdges : i[1] < i[2] /\ i[2] - i[1] <= 12}}
=============================================================================
