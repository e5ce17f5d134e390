------------------------------- MODULE Ranges -------------------------------
(***************************************************************************)
(* lib/ranges.c: a list of disjoint address ranges, ordered by base, used  *)
(* for the hypervisor's free memory (mem.c) and for the guest's available  *)
(* memory (rom.c). A range is [base, limit], limit included.               *)
(***************************************************************************)
EXTENDS Integers, Sequences, SequencesExt

Rng(base, limit) == [base |-> base, limit |-> limit]
RngSpan(r) == r.base .. r.limit
Covered(rs) == UNION {RngSpan(rs[i]) : i \in DOMAIN rs}

(* Position of the first range that starts beyond limit: a new range goes  *)
(* before it, or to the tail if there is none.                             *)
AddPosition(rs, limit) ==
    LET later == {i \in DOMAIN rs : rs[i].base > limit}
    IN  IF later = {} THEN Len(rs) + 1 ELSE CHOOSE i \in later : \A j \in later : i <= j

(* The BUG_ONs of range_add: an empty interval, or one inside a range that *)
(* the walk passes.                                                        *)
AddBug(rs, base, limit) ==
    \/ base >= limit
    \/ \E i \in DOMAIN rs : /\ i <= AddPosition(rs, limit)
                            /\ base >= rs[i].base /\ limit <= rs[i].limit

range_add(rs, base, limit) == InsertAt(rs, AddPosition(rs, limit), Rng(base, limit))

(* Which of its branches range_remove takes for range r.                   *)
Cut(r, base, limit) ==
    CASE r.base > limit \/ r.limit < base -> "skip"
      [] ~(r.base > limit \/ r.limit < base) /\ r.base >= base /\ r.limit <= limit -> "delete"
      [] r.base <= limit /\ r.base >= base /\ r.limit > limit -> "trim_base"
      [] r.limit >= base /\ r.base < base /\ r.limit <= limit -> "trim_limit"
      [] OTHER -> "split"

(* Bug: the freed interval is taken to end before limit.                   *)
CutRight_Exclusive(r, limit) == [r EXCEPT !.base = limit]

CutRight(r, limit) == [r EXCEPT !.base = limit + 1]

(* Bug: the part that stays loses its last address.                        *)
CutLeft_Short(r, base) == [r EXCEPT !.limit = base - 2]

CutLeft(r, base) == [r EXCEPT !.limit = base - 1]

(* A split shortens the range first and adds its left part afterwards.     *)
SplitAt(rs, pos, base, limit) ==
    range_add(ReplaceAt(rs, pos, CutRight(rs[pos], limit)), rs[pos].base, base - 1)

SplitBug(rs, pos, base, limit) ==
    AddBug(ReplaceAt(rs, pos, CutRight(rs[pos], limit)), rs[pos].base, base - 1)

(* One round of range_remove's loop: the list, the position of the next    *)
(* range to look at, and whether a BUG fired.                              *)
RemoveRound(st, base, limit) ==
    LET rs == st.rs
        pos == st.pos
        cut == Cut(rs[pos], base, limit)
    IN  CASE cut = "skip" -> [st EXCEPT !.pos = pos + 1]
          [] cut = "delete" -> [st EXCEPT !.rs = RemoveAt(rs, pos)]
          [] cut = "trim_base" ->
                [st EXCEPT !.rs = ReplaceAt(rs, pos, CutRight(rs[pos], limit)), !.pos = pos + 1]
          [] cut = "trim_limit" ->
                [st EXCEPT !.rs = ReplaceAt(rs, pos, CutLeft(rs[pos], base)), !.pos = pos + 1]
          [] OTHER ->
                [rs |-> SplitAt(rs, pos, base, limit), pos |-> pos + 2,
                 bug |-> st.bug \/ SplitBug(rs, pos, base, limit)]

(* The loop visits every range that was in the list when it started.       *)
range_remove(rs, base, limit) ==
    LET after[k \in 0 .. Len(rs)] ==
            IF k = 0 THEN [rs |-> rs, pos |-> 1, bug |-> base >= limit]
            ELSE RemoveRound(after[k - 1], base, limit)
    IN  after[Len(rs)]

Ordered(rs) ==
    /\ \A i \in DOMAIN rs : rs[i].base <= rs[i].limit
    /\ \A i, j \in DOMAIN rs : i < j => rs[i].limit < rs[j].base
=============================================================================
