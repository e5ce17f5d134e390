-------------------------- MODULE RangeListProofs ---------------------------
(***************************************************************************)
(* That a range list is the set of addresses its callers take it for, for  *)
(* every address space and every grain of at least two addresses.          *)
(***************************************************************************)
EXTENDS RangeList, ListLemmas

Edges == Multiples(Grain)

(* The list is in order, made of callers' edges, and no BUG has fired.     *)
IInv == list \in Seq(Rs(Edges)) /\ Ordered(list) /\ bug = FALSE

-----------------------------------------------------------------------------
(* Multiples of the grain are never adjacent.                              *)
LEMMA EdgesSparse == Sparse(Edges)
BY GrainAssumption, MultiplesSparse DEF Edges

(* The edges of the intervals are multiples of the grain.                  *)
LEMMA IntervalEdges ==
    ASSUME NEW i \in Intervals
    PROVE  i[1] \in Edges /\ i[1] \in Int /\ i[2] \in Int /\ i[2] + 1 \in Edges
<1>1. Top \div Grain \in Int /\ Grain \in Nat
  BY GrainAssumption, TopAssumption
<1>2. PICK b \in 0 .. Top \div Grain - 1, e \in 1 .. Top \div Grain : i = <<b * Grain, e * Grain - 1>>
  BY DEF Intervals
<1>3. b \in Int /\ e \in Int /\ b * Grain \in Int /\ e * Grain \in Int
  BY <1>1, <1>2
<1>4. i[1] = b * Grain /\ i[2] = e * Grain - 1
  BY <1>2
<1>5. i[2] + 1 = e * Grain
  BY <1>3, <1>4
<1> QED
  BY <1>3, <1>4, <1>5 DEF Edges, Multiples

(* In such a state the list stands for the set of the addresses it holds.  *)
LEMMA Means == ASSUME IInv PROVE Meaning = {x \in Int : Has(list, x)}
BY CoveredHas, RsBounded DEF IInv, Meaning

(* range_add refines adding the addresses to the set.                      *)
LEMMA AddStep ==
    ASSUME IInv, NEW i \in Intervals, AddRange(i[1], i[2])
    PROVE  IInv' /\ Set!Add(i)
<1> DEFINE base == i[1]
           limit == i[2]
           e == [base |-> base, limit |-> limit]
<1>1. base \in Edges /\ base \in Int /\ limit \in Int /\ limit + 1 \in Edges
  BY IntervalEdges
<1>2. /\ base < limit /\ (base .. limit) \cap Covered(list) = {}
      /\ bug' = (bug \/ AddBug(list, base, limit)) /\ list' = range_add(list, base, limit)
  BY DEF AddRange
<1> HIDE DEF base, limit
<1>3. list \in Seq(Rs(Edges)) /\ Ordered(list) /\ Bounded(Rs(Edges)) /\ bug = FALSE
  BY RsBounded DEF IInv
<1>4. e \in Rs(Edges) /\ e.base = base /\ e.limit = limit
  BY <1>1 DEF Rs
<1>5. list' = InsertAt(list, AddPosition(list, limit), e)
  BY <1>2 DEF range_add, Rng
<1> HIDE DEF e
<1>6. Covered(list) = {x \in Int : Has(list, x)}
  BY <1>3, CoveredHas
<1>7. ASSUME NEW j \in 1 .. Len(list) PROVE list[j].limit < base \/ limit < list[j].base
  <2>1. list[j].base \in Int /\ list[j].limit \in Int /\ list[j].base <= list[j].limit
    BY <1>3, OrderedFacts DEF Bounded
  <2>2. ASSUME NEW x \in Int, list[j].base <= x, x <= list[j].limit, base <= x, x <= limit PROVE FALSE
    <3>1. Has(list, x)
      BY <2>2 DEF Has
    <3>2. x \in Covered(list) /\ x \in base .. limit
      BY <3>1, <2>2, <1>1, <1>6
    <3> QED
      BY <3>2, <1>2
  <2>3. CASE list[j].base >= base
    BY <2>1, <2>2, <2>3, <1>1
  <2>4. CASE list[j].base < base
    BY <2>1, <2>2, <2>4, <1>1, <1>2
  <2> QED
    BY <2>1, <2>3, <2>4, <1>1
<1>8. base <= limit
  BY <1>1, <1>2
<1>9. /\ list' \in Seq(Rs(Edges)) /\ Ordered(list')
      /\ \A x \in Int : Has(list', x) <=> Has(list, x) \/ (base <= x /\ x <= limit)
      /\ ~AddBug(list, base, limit)
  BY <1>1, <1>2, <1>3, <1>4, <1>5, <1>7, <1>8, AddsRange
<1>10. bug' = FALSE
  BY <1>2, <1>3, <1>9, Zenon
<1>11. IInv'
  BY <1>9, <1>10 DEF IInv
<1>12. Meaning = {x \in Int : Has(list, x)} /\ Meaning' = {x \in Int : Has(list', x)}
  <2>1. Meaning' = Covered(list')
    BY <1>11 DEF IInv, Meaning
  <2>2. Covered(list') = {x \in Int : Has(list', x)}
    BY <1>3, <1>9, CoveredHas
  <2> QED
    BY <2>1, <2>2, Means
<1>13. Meaning' = Meaning \cup (base .. limit)
  BY <1>1, <1>9, <1>12
<1>14. (base .. limit) \cap Meaning = {}
  BY <1>2, <1>6, <1>12
<1>15. Set!Span(i) = base .. limit
  BY DEF Set!Span, base, limit
<1> QED
  BY <1>11, <1>13, <1>14, <1>15 DEF Set!Add

(* range_remove refines removing them.                                     *)
LEMMA RemoveStep ==
    ASSUME IInv, NEW i \in Intervals, RemoveRange(i[1], i[2])
    PROVE  IInv' /\ Set!Remove(i)
<1> DEFINE base == i[1]
           limit == i[2]
           r == range_remove(list, base, limit)
<1>1. base \in Edges /\ base \in Int /\ limit \in Int /\ limit + 1 \in Edges
  BY IntervalEdges
<1>2. base < limit /\ list' = r.rs /\ bug' = (bug \/ r.bug)
  BY DEF RemoveRange
<1> HIDE DEF base, limit
<1>3. list \in Seq(Rs(Edges)) /\ Ordered(list) /\ Bounded(Rs(Edges)) /\ bug = FALSE
  BY RsBounded DEF IInv
<1>4. /\ r.rs \in Seq(Rs(Edges)) /\ Ordered(r.rs) /\ r.bug = FALSE
      /\ \A x \in Int : Has(r.rs, x) <=> Has(list, x) /\ ~(base <= x /\ x <= limit)
  BY <1>1, <1>2, <1>3, EdgesSparse, RemovesRange
<1> HIDE DEF r
<1>5. bug' = FALSE
  BY <1>2, <1>3, <1>4, Zenon
<1>6. IInv'
  BY <1>2, <1>4, <1>5 DEF IInv
<1>7. Meaning = {x \in Int : Has(list, x)} /\ Meaning' = {x \in Int : Has(list', x)}
  <2>1. Meaning' = Covered(list')
    BY <1>6 DEF IInv, Meaning
  <2>2. Covered(list') = {x \in Int : Has(list', x)}
    BY <1>2, <1>3, <1>4, CoveredHas
  <2> QED
    BY <2>1, <2>2, Means
<1>8. Meaning' = Meaning \ (base .. limit)
  BY <1>1, <1>2, <1>4, <1>7
<1>9. Set!Span(i) = base .. limit
  BY DEF Set!Span, base, limit
<1> QED
  BY <1>6, <1>8, <1>9 DEF Set!Remove

(* Under any sequence of legal calls the list of lib/ranges.c behaves like *)
(* a set: range_add and range_remove keep it sorted and disjoint, meet no  *)
(* BUG, and each changes the addresses it covers as its set operation      *)
(* says, in every branch of range_remove's loop.                           *)
THEOREM Refinement == Spec => ImplementsSet
<1>1. Init => IInv /\ Set!Init
  <2> SUFFICES ASSUME Init PROVE IInv /\ Set!Init
    OBVIOUS
  <2>1. list = <<>> /\ bug = FALSE /\ list \in Seq(Rs(Edges)) /\ Len(list) = 0
    BY DEF Init
  <2>2. Ordered(list)
    <3>1. DOMAIN list = {}
      BY <2>1
    <3> QED
      BY <3>1, Zenon DEF Ordered
  <2>3. IInv
    BY <2>1, <2>2 DEF IInv
  <2>4. Meaning = {}
    BY <2>1, <2>3, Means DEF Has
  <2> QED
    BY <2>3, <2>4 DEF Set!Init
<1>2. IInv /\ [Next]_vars => IInv' /\ [Set!Next]_Meaning
  <2> SUFFICES ASSUME IInv, [Next]_vars PROVE IInv' /\ [Set!Next]_Meaning
    OBVIOUS
  <2>1. CASE UNCHANGED vars
    BY <2>1 DEF vars, IInv, Meaning
  <2>2. CASE Next
    <3>1. PICK i \in Intervals : AddRange(i[1], i[2]) \/ RemoveRange(i[1], i[2])
      BY <2>2 DEF Next
    <3>2. IInv' /\ (Set!Add(i) \/ Set!Remove(i))
      BY <3>1, AddStep, RemoveStep
    <3> QED
      BY <3>2 DEF Set!Next
  <2> QED
    BY <2>1, <2>2
<1> QED
  BY <1>1, <1>2, PTL DEF Spec, ImplementsSet, Set!Spec
=============================================================================
