----------------------------- MODULE MemProofs ------------------------------
(***************************************************************************)
(* That the page allocator survives its own re-entrancy, for every memory  *)
(* map, page size and sequence of allocations: the list of free ranges     *)
(* stays in order, no loop over it is left with a deleted node, no page is *)
(* handed out twice and none is lost.                                      *)
(***************************************************************************)
EXTENDS Mem, ListLemmas, FiniteSetTheorems

(* The ranges of the list. E is where a range can begin; an interval that  *)
(* is clear of E leaves two addresses at least to the left of it.          *)
Entries(E) == {r \in [id : Ids, base : Int, limit : Int] : r.base \in E}
Clear(b, E) == \A a \in E : a + 1 # b

In(x, c) == c[1] <= x /\ x <= c[2]
InAny(x, s) == \E i \in 1 .. Len(s) : In(x, s[i])

(* x is in what frame f removes; in the part of a split that it still has  *)
(* to link.                                                                *)
Spot(x, f) == f.base <= x /\ x <= f.limit
Side(x, f) == f.node # "none" /\ In(x, f.left)

(* id is the p-th of list l, the head coming last.                         *)
IsAt(l, p, id) == IF p = Len(l) + 1 THEN id = ListHead ELSE l[p].id = id

AllApart(l, base, limit) == \A i \in 1 .. Len(l) : Apart(l[i], base, limit)

(* The interval is out of all ranges before id.                            *)
Passed(l, id, base, limit) ==
    \E p \in 1 .. Len(l) + 1 :
        IsAt(l, p, id) /\ \A i \in 1 .. Len(l) : i < p => Apart(l[i], base, limit)

-----------------------------------------------------------------------------
(***************************************************************************)
(* The inductive invariant.                                                *)
(***************************************************************************)
ListOK(l, E) ==
    /\ l \in Seq(Entries(E)) /\ Ordered(l)
    /\ \A i, j \in 1 .. Len(l) : i # j => l[i].id # l[j].id

FrameSet ==
    [base : Int, limit : Int, kind : Kinds, left : {<<>>} \cup (Int \X Int),
     node : {"none", "wanted", "granted"}, cur : Nat, n : Nat]

(* A call that looks at its next range, and one that waits for a node.     *)
Searches(f, l) == Passed(l, f.cur, f.base, f.limit) /\ f.n = NextOf(l, f.cur)

Waits(f, l, E) ==
    /\ InList(l, f.cur) /\ Passed(l, f.n, f.base, f.limit)
    /\ f.left \in Int \X Int /\ f.left[1] \in E
    /\ f.left[1] < f.left[2] /\ f.left[2] = f.base - 1
    /\ \A x \in Int : In(x, f.left) => ~Has(l, x)

FrameOK(f, l, E) ==
    /\ f \in FrameSet /\ Clear(f.base, E) /\ f.limit + 1 \in E /\ f.base < f.limit
    /\ IF f.node = "none" THEN Searches(f, l) ELSE Waits(f, l, E)

(* A call of mem_get_pages removes pages that are in one range and do not  *)
(* reach its limit: it never deletes a node, and once it has split or      *)
(* trimmed that range it has nothing more to remove.                       *)
Whole(l, base, limit) == \E t \in 1 .. Len(l) : l[t].base <= base /\ limit < l[t].limit

PagesOK(f, l) ==
    /\ f.kind # "reserve" /\ f.base % Page = 0
    /\ AllApart(l, f.base, f.limit) \/ (f.node = "none" /\ Whole(l, f.base, f.limit))

(* Only the innermost call runs; mem_init's calls do not nest.             *)
StackOK(s, l, early, E) ==
    /\ s \in Seq(FrameSet)
    /\ \A i \in 1 .. Len(s) : FrameOK(s[i], l, E)
    /\ \A i \in 1 .. Len(s) : i < Len(s) => s[i].node # "none"
    /\ early => Len(s) <= 1 /\ \A i \in 1 .. Len(s) : s[i].kind = "reserve"
    /\ ~early => \A i \in 1 .. Len(s) : PagesOK(s[i], l)

(* What the calls remove and what they still have to link are apart.       *)
FramesApart(s, early) ==
    /\ \A i, j \in 1 .. Len(s), x \in Int : i # j /\ Side(x, s[i]) => ~Side(x, s[j])
    /\ ~early => \A i, j \in 1 .. Len(s), x \in Int : i # j /\ Spot(x, s[i]) => ~Side(x, s[j]) /\ ~Spot(x, s[j])

(* Free memory: in the list, or on its way into it.                        *)
Free(x, l, s) == Has(l, x) \/ \E i \in 1 .. Len(s) : Side(x, s[i])
InRAM(x) == InAny(x, Nodes)

Exclusive(l, s, early, tk, rv) ==
    /\ \A x \in Int : Free(x, l, s) => InRAM(x) /\ ~InAny(x, tk) /\ ~InAny(x, rv)
    /\ ~early => \A i \in 1 .. Len(s), x \in Int : Spot(x, s[i]) => InRAM(x) /\ ~InAny(x, tk) /\ ~InAny(x, rv)

TakenOK(tk, rv, early) ==
    /\ tk \in Seq(Int \X Int) /\ rv \in Seq(Int \X Int)
    /\ early => tk = <<>>
    /\ \A i \in 1 .. Len(tk) : tk[i][1] % Page = 0
    /\ \A i \in 1 .. Len(tk), x \in Int : In(x, tk[i]) =>
          /\ InRAM(x) /\ ~InAny(x, rv)
          /\ \A j \in 1 .. Len(tk) : j # i => ~In(x, tk[j])

(* The first k memory nodes, which are in the list or were, are accounted  *)
(* for.                                                                    *)
Kept(k, l, s, tk, rv) ==
    \A x \in Int : (\E i \in 1 .. k : In(x, Nodes[i])) =>
        Free(x, l, s) \/ InAny(x, tk) \/ InAny(x, rv) \/ \E i \in 1 .. Len(s) : Spot(x, s[i])

Added == Len(Nodes) - Len(nodes)

(* Intervals that mem_init may remove.                                     *)
Pieces(E) == {c \in Nat \X Nat : c[1] < c[2] /\ Clear(c[1], E) /\ c[2] + 1 \in E}

BootOK(E) ==
    /\ mem_early \in BOOLEAN /\ nodes \in Seq(Nat \X Nat) /\ Len(nodes) <= Len(Nodes)
    /\ \A j \in 1 .. Len(nodes) : nodes[j] = Nodes[Added + j]
    /\ nodes # <<>> =>
        /\ stack = <<>> /\ mem_early /\ reserved = <<>>
        /\ \A x \in Int : Has(list, x) => \E i \in 1 .. Added : In(x, Nodes[i])
    /\ resv \in Seq(Pieces(E))
    /\ sbrk \in 0 .. EarlyChunks \/ (sbrk = EarlyChunks + 1 /\ halt = "early")

HaltOK == halt \in {"no", "null", "early"}

Core(l, s, early, tk, rv, k, E) ==
    /\ ListOK(l, E) /\ StackOK(s, l, early, E) /\ FramesApart(s, early)
    /\ Exclusive(l, s, early, tk, rv) /\ TakenOK(tk, rv, early) /\ Kept(k, l, s, tk, rv)

Inv(E) == Core(list, stack, mem_early, taken, reserved, Added, E) /\ BootOK(E) /\ HaltOK

(* Where a range can begin: after a reservation, and once mem_init is done *)
(* after the pages of an allocation.                                       *)
Edges(others, early) == IF early THEN FreeStarts(others) ELSE FreeStarts(others) \cup Multiples(Page)

IInv == \E others \in Reservations : Inv(Edges(others, mem_early))

-----------------------------------------------------------------------------
(* Positions in the list.                                                  *)
LEMMA EntriesBounded == ASSUME NEW E PROVE Bounded(Entries(E))
BY DEF Bounded, Entries

(* What ListOK says, spelled out.                                          *)
LEMMA ListFacts ==
    ASSUME NEW E, NEW l, ListOK(l, E)
    PROVE  /\ l \in Seq(Entries(E)) /\ Len(l) \in Nat /\ DOMAIN l = 1 .. Len(l)
           /\ \A i \in 1 .. Len(l) : /\ l[i] \in Entries(E) /\ l[i].base \in Int /\ l[i].limit \in Int
                                     /\ l[i].id \in Nat /\ l[i].id # ListHead
                                     /\ l[i].base \in E
                                     /\ l[i].base <= l[i].limit
           /\ \A i, j \in 1 .. Len(l) : i < j => l[i].limit < l[j].base
           /\ \A i, j \in 1 .. Len(l) : i # j => l[i].id # l[j].id
<1>1. l \in Seq(Entries(E)) /\ Ordered(l)
  BY DEF ListOK
<1>2. Len(l) \in Nat /\ DOMAIN l = 1 .. Len(l) /\ \A i \in 1 .. Len(l) : l[i] \in Entries(E)
  BY <1>1
<1>3. \A i \in 1 .. Len(l) : /\ l[i].base \in Int /\ l[i].limit \in Int /\ l[i].id \in Nat /\ l[i].id # ListHead
                             /\ l[i].base \in E
  BY <1>2 DEF Entries, Ids, ListHead
<1>4. /\ \A i \in 1 .. Len(l) : l[i].base <= l[i].limit
      /\ \A i, j \in 1 .. Len(l) : i < j => l[i].limit < l[j].base
  BY <1>1, OrderedFacts
<1>5. \A i, j \in 1 .. Len(l) : i # j => l[i].id # l[j].id
  BY DEF ListOK
<1> QED
  BY <1>1, <1>2, <1>3, <1>4, <1>5

(* The position that At and NextOf choose.                                 *)
LEMMA ChosenAt ==
    ASSUME NEW E, NEW l, ListOK(l, E), NEW p \in 1 .. Len(l)
    PROVE  (CHOOSE i \in DOMAIN l : l[i].id = l[p].id) = p
BY ListFacts

(* The node after the p-th is the (p + 1)-th.                              *)
LEMMA NextFacts ==
    ASSUME NEW E, NEW l, ListOK(l, E), NEW p \in 1 .. Len(l), NEW m, m = NextOf(l, l[p].id)
    PROVE  IsAt(l, p + 1, m)
<1> DEFINE id == l[p].id
           q == IF id = ListHead THEN 0 ELSE CHOOSE i \in DOMAIN l : l[i].id = id
<1>1. q = p /\ Len(l) \in Nat
  BY ListFacts, ChosenAt
<1>2. m = IF q < Len(l) THEN l[q + 1].id ELSE ListHead
  BY DEF NextOf
<1> HIDE DEF q
<1> QED
  BY <1>1, <1>2 DEF IsAt

(* The node after the head is the first.                                   *)
LEMMA FirstFacts ==
    ASSUME NEW E, NEW l, ListOK(l, E), NEW m, m = NextOf(l, ListHead)
    PROVE  IsAt(l, 1, m)
<1>1. Len(l) \in Nat
  BY ListFacts
<1>2. m = IF 0 < Len(l) THEN l[0 + 1].id ELSE ListHead
  BY DEF NextOf
<1> QED
  BY <1>1, <1>2 DEF IsAt

(* A node with a place is in the list.                                     *)
LEMMA IsAtLive ==
    ASSUME NEW E, NEW l, ListOK(l, E), NEW p \in 1 .. Len(l) + 1, NEW m, IsAt(l, p, m)
    PROVE  InList(l, m) /\ m \in Nat
<1>1. CASE p = Len(l) + 1
  BY <1>1 DEF IsAt, InList, ListHead
<1>2. CASE p # Len(l) + 1
  <2>1. p \in 1 .. Len(l) /\ l[p].id = m
    BY <1>2, ListFacts DEF IsAt
  <2> QED
    BY <2>1, ListFacts DEF InList
<1> QED
  BY <1>1, <1>2

(* A node in the list has a place.                                         *)
LEMMA LiveIsAt ==
    ASSUME NEW E, NEW l, ListOK(l, E), NEW m, InList(l, m)
    PROVE  \E p \in 1 .. Len(l) + 1 : IsAt(l, p, m)
<1>1. Len(l) \in Nat /\ DOMAIN l = 1 .. Len(l)
  BY ListFacts
<1>2. CASE m = ListHead
  <2>1. IsAt(l, Len(l) + 1, m) /\ Len(l) + 1 \in 1 .. Len(l) + 1
    BY <1>1, <1>2 DEF IsAt
  <2> QED
    BY <2>1
<1>3. CASE m # ListHead
  <2>1. PICK p \in 1 .. Len(l) : l[p].id = m
    BY <1>1, <1>3 DEF InList
  <2>2. IsAt(l, p, m) /\ p \in 1 .. Len(l) + 1
    BY <1>1, <2>1 DEF IsAt
  <2> QED
    BY <2>2
<1> QED
  BY <1>2, <1>3

(* The node after one in the list is in the list.                          *)
LEMMA NextLive ==
    ASSUME NEW E, NEW l, ListOK(l, E), NEW id, InList(l, id), NEW m, m = NextOf(l, id)
    PROVE  InList(l, m) /\ m \in Nat
<1>1. Len(l) \in Nat /\ DOMAIN l = 1 .. Len(l)
  BY ListFacts
<1>2. CASE id = ListHead
  <2>1. IsAt(l, 1, m) /\ 1 \in 1 .. Len(l) + 1
    BY <1>1, <1>2, FirstFacts
  <2> QED
    BY <2>1, IsAtLive
<1>3. CASE id # ListHead
  <2>1. PICK p \in 1 .. Len(l) : l[p].id = id
    BY <1>1, <1>3 DEF InList
  <2>2. IsAt(l, p + 1, m) /\ p + 1 \in 1 .. Len(l) + 1
    BY <1>1, <2>1, NextFacts
  <2> QED
    BY <2>2, IsAtLive
<1> QED
  BY <1>2, <1>3

(* A loop that has passed ranges stands at a node of the list.             *)
LEMMA PassedLive ==
    ASSUME NEW E, NEW l, ListOK(l, E), NEW m, NEW b, NEW e, Passed(l, m, b, e)
    PROVE  InList(l, m) /\ m \in Nat
<1>1. PICK p \in 1 .. Len(l) + 1 : IsAt(l, p, m)
  BY DEF Passed
<1> QED
  BY <1>1, IsAtLive

(* At the head the interval is out of the whole list.                      *)
LEMMA PassedAll ==
    ASSUME NEW E, NEW l, ListOK(l, E), NEW b, NEW e, Passed(l, ListHead, b, e)
    PROVE  AllApart(l, b, e)
<1>1. PICK p \in 1 .. Len(l) + 1 :
        IsAt(l, p, ListHead) /\ \A i \in 1 .. Len(l) : i < p => Apart(l[i], b, e)
  BY DEF Passed
<1>2. Len(l) \in Nat /\ p = Len(l) + 1
  BY <1>1, ListFacts DEF IsAt
<1>3. \A i \in 1 .. Len(l) : i < p
  BY <1>2
<1> QED
  BY <1>1, <1>3 DEF AllApart

(* An interval that is out of every range is not in the list.              *)
LEMMA ApartHas ==
    ASSUME NEW E, NEW l, ListOK(l, E), NEW b \in Int, NEW e \in Int, AllApart(l, b, e), NEW x \in Int, b <= x, x <= e
    PROVE  ~Has(l, x)
<1>1. \A i \in 1 .. Len(l) : l[i].base \in Int /\ l[i].limit \in Int /\ Apart(l[i], b, e)
  BY ListFacts DEF AllApart
<1> QED
  BY <1>1 DEF Has, Apart

-----------------------------------------------------------------------------
(* Trimming a range: the ids and their places stay.                        *)
Shrunk(l2, l) ==
    /\ Len(l2) = Len(l)
    /\ \A i \in 1 .. Len(l) : l2[i].id = l[i].id /\ l[i].base <= l2[i].base /\ l2[i].limit <= l[i].limit

Replaced(l2, l, p, e) == l2[p] = e /\ \A i \in 1 .. Len(l) : i # p => l2[i] = l[i]

(* Replacing a range by a part of it.                                      *)
LEMMA Trims ==
    ASSUME NEW E, NEW l, ListOK(l, E), NEW p \in 1 .. Len(l), NEW e \in Entries(E), e.id = l[p].id,
           l[p].base <= e.base, e.base <= e.limit, e.limit <= l[p].limit, NEW l2, l2 = ReplaceAt(l, p, e)
    PROVE  ListOK(l2, E) /\ Shrunk(l2, l) /\ Replaced(l2, l, p, e)
<1>1. l \in Seq(Entries(E)) /\ Ordered(l) /\ Bounded(Entries(E))
  BY EntriesBounded DEF ListOK
<1>2. /\ l2 \in Seq(Entries(E)) /\ Len(l2) = Len(l) /\ Ordered(l2)
      /\ \A i \in 1 .. Len(l) : l2[i] = IF i = p THEN e ELSE l[i]
  BY <1>1, Shrink
<1>3. \A i \in 1 .. Len(l) : l[i].base \in Int /\ l[i].limit \in Int
  BY ListFacts
<1>4. \A i \in 1 .. Len(l) : l2[i].id = l[i].id /\ l[i].base <= l2[i].base /\ l2[i].limit <= l[i].limit
  BY <1>2, <1>3
<1>5. \A i, j \in 1 .. Len(l2) : i # j => l2[i].id # l2[j].id
  BY <1>2, <1>4, ListFacts
<1>6. Replaced(l2, l, p, e)
  BY <1>2 DEF Replaced
<1> QED
  BY <1>2, <1>4, <1>5, <1>6 DEF ListOK, Shrunk

(* Trimming keeps the places.                                              *)
LEMMA ShrunkAt ==
    ASSUME NEW l, NEW l2, Shrunk(l2, l), Len(l) \in Nat, NEW p \in 1 .. Len(l) + 1, NEW m
    PROVE  IsAt(l2, p, m) <=> IsAt(l, p, m)
BY DEF Shrunk, IsAt

(* Trimming keeps the nodes.                                               *)
LEMMA ShrunkLive ==
    ASSUME NEW E, NEW l, ListOK(l, E), NEW l2, ListOK(l2, E), Shrunk(l2, l), NEW m, InList(l, m)
    PROVE  InList(l2, m)
<1>1. Len(l) \in Nat /\ Len(l2) = Len(l)
  BY ListFacts DEF Shrunk
<1>2. PICK p \in 1 .. Len(l) + 1 : IsAt(l, p, m)
  BY LiveIsAt
<1>3. IsAt(l2, p, m)
  BY <1>1, <1>2, ShrunkAt
<1> QED
  BY <1>1, <1>3, IsAtLive

(* A trimmed range is out of what it was out of.                           *)
LEMMA ShrunkApart ==
    ASSUME NEW E, NEW l, ListOK(l, E), NEW l2, ListOK(l2, E), Shrunk(l2, l), NEW b \in Int, NEW e \in Int,
           NEW i \in 1 .. Len(l), Apart(l[i], b, e)
    PROVE  Apart(l2[i], b, e)
<1>1. l[i].base \in Int /\ l[i].limit \in Int
  BY ListFacts
<1>2. l2[i].base \in Int /\ l2[i].limit \in Int /\ l[i].base <= l2[i].base /\ l2[i].limit <= l[i].limit
  BY ListFacts DEF Shrunk
<1> QED
  BY <1>1, <1>2 DEF Apart

(* A loop has still passed what it had passed.                             *)
LEMMA ShrunkPassed ==
    ASSUME NEW E, NEW l, ListOK(l, E), NEW l2, ListOK(l2, E), Shrunk(l2, l), NEW b \in Int, NEW e \in Int,
           NEW m, Passed(l, m, b, e)
    PROVE  Passed(l2, m, b, e)
<1>1. PICK p \in 1 .. Len(l) + 1 : IsAt(l, p, m) /\ \A i \in 1 .. Len(l) : i < p => Apart(l[i], b, e)
  BY DEF Passed
<1>2. Len(l) \in Nat /\ Len(l2) = Len(l)
  BY ListFacts DEF Shrunk
<1>3. IsAt(l2, p, m)
  BY <1>1, <1>2, ShrunkAt
<1>4. \A i \in 1 .. Len(l) : i < p => Apart(l2[i], b, e)
  BY <1>1, ShrunkApart
<1> QED
  BY <1>2, <1>3, <1>4 DEF Passed

(* The same for the whole list.                                            *)
LEMMA ShrunkAllApart ==
    ASSUME NEW E, NEW l, ListOK(l, E), NEW l2, ListOK(l2, E), Shrunk(l2, l), NEW b \in Int, NEW e \in Int,
           AllApart(l, b, e)
    PROVE  AllApart(l2, b, e)
<1>1. Len(l2) = Len(l)
  BY DEF Shrunk
<1> QED
  BY <1>1, ShrunkApart DEF AllApart

(* Trimming adds no address.                                               *)
LEMMA ShrunkHas ==
    ASSUME NEW E, NEW l, ListOK(l, E), NEW l2, ListOK(l2, E), Shrunk(l2, l), NEW x \in Int, Has(l2, x)
    PROVE  Has(l, x)
<1>1. PICK i \in 1 .. Len(l) : l2[i].base <= x /\ x <= l2[i].limit
  BY DEF Has, Shrunk
<1>2. l[i].base \in Int /\ l[i].limit \in Int
  BY ListFacts
<1>3. l2[i].base \in Int /\ l2[i].limit \in Int /\ l[i].base <= l2[i].base /\ l2[i].limit <= l[i].limit
  BY ListFacts DEF Shrunk
<1> QED
  BY <1>1, <1>2, <1>3, SMTT(30) DEF Has

-----------------------------------------------------------------------------
(* Linking a range: a structure that is not in the list is free.           *)
LEMMA FreshFacts ==
    ASSUME NEW E, ListOK(list, E)
    PROVE  FreshId \in Ids /\ \A i \in 1 .. Len(list) : list[i].id # FreshId
<1> DEFINE n == Len(list)
           unused == 1 .. Len(list) + 1 \ Live
<1>1. n \in Nat /\ DOMAIN list = 1 .. n
  BY ListFacts
<1>2. unused # {}
  <2> SUFFICES ASSUME unused = {} PROVE FALSE
    OBVIOUS
  <2>1. \A id \in 1 .. n + 1 : \E i \in 1 .. n : list[i].id = id
    BY <1>1 DEF Live
  <2> DEFINE S == 1 .. n + 1
             T == 1 .. n
             f == [id \in S |-> CHOOSE i \in T : list[i].id = id]
  <2>2. f \in [S -> T] /\ \A id \in S : list[f[id]].id = id
    BY <2>1
  <2>3. IsFiniteSet(S) /\ Cardinality(S) = n + 1
    BY <1>1, FS_Interval
  <2>4. IsFiniteSet(T) /\ Cardinality(T) = n
    <3>1. 1 \in Int /\ n \in Int
      BY <1>1
    <3>2. IsFiniteSet(1 .. n) /\ Cardinality(1 .. n) = IF 1 > n THEN 0 ELSE n - 1 + 1
      <4> HIDE DEF n
      <4> QED
        BY <3>1, FS_Interval
    <3> HIDE DEF n
    <3> QED
      BY <1>1, <3>2
  <2> HIDE DEF f, S, T, n
  <2>5. PICK x, y \in S : x # y /\ f[x] = f[y]
    BY <1>1, <2>2, <2>3, <2>4, FS_PigeonHole
  <2> QED
    BY <2>2, <2>5
<1>3. unused \subseteq Nat
  OBVIOUS
<1>4. FreshId = CHOOSE id \in unused : \A j \in unused : id <= j
  BY DEF FreshId
<1>5. FreshId \in unused
  <2> HIDE DEF unused
  <2>1. \E id \in unused : \A j \in unused : id <= j
    BY <1>2, <1>3, NatMin
  <2> QED
    BY <1>4, <2>1
<1> QED
  BY <1>1, <1>5 DEF Ids, Live

(* Neither the addresses nor the structure of e are in the list.           *)
Vacant(l, e) ==
    /\ \A x \in Int : e.base <= x /\ x <= e.limit => ~Has(l, x)
    /\ \A i \in 1 .. Len(l) : l[i].id # e.id

(* range_add of a vacant range fires no BUG and keeps the list in order.   *)
LEMMA Links ==
    ASSUME NEW E, NEW l, ListOK(l, E), NEW e \in Entries(E), e.base < e.limit, Vacant(l, e),
           NEW p, p = AddPosition(l, e.limit), NEW l2, l2 = InsertAt(l, p, e)
    PROVE  /\ ListOK(l2, E) /\ Inserted(l2, l, p, e) /\ p \in 1 .. Len(l) + 1
           /\ ~AddBug(l, e.base, e.limit)
<1>1. l \in Seq(Entries(E)) /\ Ordered(l) /\ Bounded(Entries(E))
  BY EntriesBounded DEF ListOK
<1> DEFINE b == e.base
           k == e.limit
<1>2. b \in Int /\ k \in Int /\ b < k
  BY DEF Entries
<1>3. /\ \A x \in Int : b <= x /\ x <= k => ~Has(l, x)
      /\ \A i \in 1 .. Len(l) : l[i].id # e.id
  BY DEF Vacant
<1>4. p = AddPosition(l, k) /\ l2 = InsertAt(l, AddPosition(l, k), e)
  OBVIOUS
<1> HIDE DEF b, k
<1>5. ASSUME NEW i \in 1 .. Len(l) PROVE l[i].limit < b \/ k < l[i].base
  <2>1. l[i].base \in Int /\ l[i].limit \in Int /\ l[i].base <= l[i].limit
    BY ListFacts
  <2>2. \A x \in Int : l[i].base <= x /\ x <= l[i].limit => Has(l, x)
    BY DEF Has
  <2>3. CASE b <= l[i].base
    <3>1. ~(l[i].base <= k)
      BY <1>3, <2>1, <2>2, <2>3
    <3> QED
      BY <1>2, <2>1, <3>1
  <2>4. CASE l[i].base < b
    <3>1. ~(b <= l[i].limit)
      BY <1>2, <1>3, <2>1, <2>2, <2>4
    <3> QED
      BY <1>2, <2>1, <3>1
  <2> QED
    BY <1>2, <2>1, <2>3, <2>4
<1>6. p \in 1 .. Len(l) + 1
  BY <1>1, <1>2, <1>4, AddPositionFacts
<1>7. l2 \in Seq(Entries(E)) /\ Ordered(l2) /\ ~AddBug(l, b, k)
  <2>1. e.base = b /\ e.limit = k /\ b <= k
    BY <1>2 DEF b, k
  <2> QED
    BY <1>1, <1>2, <1>4, <1>5, <2>1, AddsRange
<1>8. Inserted(l2, l, p, e)
  BY <1>1, <1>6, Inserts
<1>9. ASSUME NEW i \in 1 .. Len(l2), NEW j \in 1 .. Len(l2), i # j PROVE l2[i].id # l2[j].id
  <2>0. Len(l) \in Nat /\ Len(l2) = Len(l) + 1
    BY <1>1, <1>8 DEF Inserted
  <2>1. ASSUME NEW q \in 1 .. Len(l2), q # p
        PROVE  (IF q < p THEN q ELSE q - 1) \in 1 .. Len(l) /\ l2[q] = l[IF q < p THEN q ELSE q - 1]
    <3>1. CASE q < p
      BY <2>0, <2>1, <3>1, <1>6, <1>8 DEF Inserted
    <3>2. CASE q > p
      BY <2>0, <2>1, <3>2, <1>6, <1>8 DEF Inserted
    <3> QED
      BY <2>1, <3>1, <3>2, <1>6
  <2>2. \A q \in 1 .. Len(l2) : q = p => l2[q] = e
    BY <2>0, <1>6, <1>8 DEF Inserted
  <2>3. CASE i = p
    BY <1>3, <1>9, <2>1, <2>2, <2>3
  <2>4. CASE j = p
    BY <1>3, <1>9, <2>1, <2>2, <2>4, SMTT(30)
  <2>5. CASE i # p /\ j # p
    <3>1. PICK a \in 1 .. Len(l) : a = (IF i < p THEN i ELSE i - 1) /\ l2[i] = l[a]
      BY <2>1, <2>5
    <3>2. PICK c \in 1 .. Len(l) : c = (IF j < p THEN j ELSE j - 1) /\ l2[j] = l[c]
      BY <2>1, <2>5
    <3>3. a # c
      BY <3>1, <3>2, <2>5, <1>6, <1>9
    <3>4. \A u, w \in 1 .. Len(l) : u # w => l[u].id # l[w].id
      BY ListFacts
    <3> QED
      BY <3>1, <3>2, <3>3, <3>4
  <2> QED
    BY <2>3, <2>4, <2>5
<1> QED
  BY <1>6, <1>7, <1>8, <1>9 DEF ListOK, b, k

(* Where the ranges go.                                                    *)
LEMMA InsertedPlaces ==
    ASSUME NEW l, Len(l) \in Nat, NEW p \in 1 .. Len(l) + 1, NEW e, NEW l2, Inserted(l2, l, p, e)
    PROVE  /\ Len(l2) = Len(l) + 1 /\ l2[p] = e
           /\ \A i \in 1 .. Len(l) : i < p => l2[i] = l[i]
           /\ \A i \in 1 .. Len(l) : i >= p => l2[i + 1] = l[i]
<1>1. Len(l2) = Len(l) + 1
  BY DEF Inserted
<1>2. \A j \in 1 .. Len(l) + 1 : l2[j] = IF j < p THEN l[j] ELSE IF j = p THEN e ELSE l[j - 1]
  BY DEF Inserted
<1>3. l2[p] = e /\ \A i \in 1 .. Len(l) : i < p => l2[i] = l[i]
  BY <1>2
<1>4. ASSUME NEW i \in 1 .. Len(l), i >= p PROVE l2[i + 1] = l[i]
  <2>1. i + 1 \in 1 .. Len(l) + 1 /\ ~(i + 1 < p) /\ i + 1 # p /\ i + 1 - 1 = i
    BY <1>4
  <2> QED
    BY <2>1, <1>2
<1> QED
  BY <1>1, <1>3, <1>4

(* Nodes behind the new range move up by one place.                        *)
LEMMA InsertedAt ==
    ASSUME NEW l, Len(l) \in Nat, NEW p \in 1 .. Len(l) + 1, NEW e, NEW l2, Inserted(l2, l, p, e),
           NEW q \in 1 .. Len(l) + 1, NEW m, IsAt(l, q, m)
    PROVE  IsAt(l2, IF q < p THEN q ELSE q + 1, m)
<1>1. Len(l2) = Len(l) + 1
  BY InsertedPlaces
<1>2. CASE q < p
  <2>1. q \in 1 .. Len(l) /\ l2[q] = l[q] /\ q # Len(l2) + 1
    BY <1>1, <1>2, InsertedPlaces
  <2> QED
    BY <1>2, <2>1 DEF IsAt
<1>3. CASE q >= p /\ q # Len(l) + 1
  <2>1. q \in 1 .. Len(l) /\ l2[q + 1] = l[q] /\ q + 1 # Len(l2) + 1
    BY <1>1, <1>3, InsertedPlaces
  <2> QED
    BY <1>3, <2>1 DEF IsAt
<1>4. CASE q = Len(l) + 1
  BY <1>1, <1>4 DEF IsAt
<1> QED
  BY <1>2, <1>3, <1>4

(* Linking keeps the nodes.                                                *)
LEMMA InsertedLive ==
    ASSUME NEW E, NEW l, ListOK(l, E), NEW p \in 1 .. Len(l) + 1, NEW e, NEW l2, ListOK(l2, E),
           Inserted(l2, l, p, e), NEW m, InList(l, m)
    PROVE  InList(l2, m)
<1>1. Len(l) \in Nat /\ Len(l2) = Len(l) + 1
  BY ListFacts DEF Inserted
<1>2. PICK q \in 1 .. Len(l) + 1 : IsAt(l, q, m)
  BY LiveIsAt
<1>3. PICK r : r = IF q < p THEN q ELSE q + 1
  OBVIOUS
<1>4. IsAt(l2, r, m)
  BY <1>1, <1>2, <1>3, InsertedAt
<1>5. r \in 1 .. Len(l2) + 1
  BY <1>1, <1>3
<1> QED
  BY <1>4, <1>5, IsAtLive

(* A loop has still passed what it had passed.                             *)
LEMMA InsertedPassed ==
    ASSUME NEW E, NEW l, ListOK(l, E), NEW p \in 1 .. Len(l) + 1, NEW e, NEW l2,
           Inserted(l2, l, p, e), NEW b, NEW k, Apart(e, b, k), NEW m, Passed(l, m, b, k)
    PROVE  Passed(l2, m, b, k)
<1>1. Len(l) \in Nat /\ Len(l2) = Len(l) + 1
  BY ListFacts DEF Inserted
<1>2. l2[p] = e
  BY <1>1, InsertedPlaces
<1>3. PICK q \in 1 .. Len(l) + 1 : IsAt(l, q, m) /\ \A i \in 1 .. Len(l) : i < q => Apart(l[i], b, k)
  BY DEF Passed
<1>4. PICK r : r = IF q < p THEN q ELSE q + 1
  OBVIOUS
<1>5. IsAt(l2, r, m)
  BY <1>1, <1>3, <1>4, InsertedAt
<1>6. r \in 1 .. Len(l2) + 1
  BY <1>1, <1>4
<1>7. ASSUME NEW i \in 1 .. Len(l2), i < r PROVE Apart(l2[i], b, k)
  <2>1. CASE i < p
    <3>1. i \in 1 .. Len(l) /\ l2[i] = l[i] /\ i < q
      BY <1>1, <1>4, <1>7, <2>1, InsertedPlaces
    <3> QED
      BY <1>3, <3>1
  <2>2. CASE i = p
    BY <1>2, <2>2
  <2>3. CASE i > p
    <3>1. i - 1 \in 1 .. Len(l) /\ i - 1 >= p /\ i - 1 + 1 = i /\ i - 1 < q
      BY <1>1, <1>4, <1>7, <2>3
    <3>2. l2[i - 1 + 1] = l[i - 1]
      BY <1>1, <3>1, InsertedPlaces, SMTT(30)
    <3> QED
      BY <1>3, <3>1, <3>2
  <2> QED
    BY <2>1, <2>2, <2>3
<1> QED
  BY <1>5, <1>6, <1>7 DEF Passed

(* What holds of the new range and of all old ones holds of all.           *)
LEMMA InsertedEach ==
    ASSUME NEW l, Len(l) \in Nat, NEW p \in 1 .. Len(l) + 1, NEW e, NEW l2, Inserted(l2, l, p, e),
           NEW j \in 1 .. Len(l2)
    PROVE  l2[j] = e \/ \E i \in 1 .. Len(l) : l2[j] = l[i]
<1>1. Len(l2) = Len(l) + 1
  BY DEF Inserted
<1>2. CASE j < p
  BY <1>1, <1>2, InsertedPlaces
<1>3. CASE j = p
  BY <1>3, InsertedPlaces
<1>4. CASE j > p
  <2>1. j - 1 \in 1 .. Len(l) /\ j - 1 >= p /\ j - 1 + 1 = j
    BY <1>1, <1>4
  <2>2. l2[j - 1 + 1] = l[j - 1]
    BY <2>1, InsertedPlaces
  <2> QED
    BY <2>1, <2>2
<1> QED
  BY <1>2, <1>3, <1>4

(* The same for the whole list.                                            *)
LEMMA InsertedAllApart ==
    ASSUME NEW E, NEW l, ListOK(l, E), NEW p \in 1 .. Len(l) + 1, NEW e, NEW l2, Inserted(l2, l, p, e),
           NEW b, NEW k, Apart(e, b, k), AllApart(l, b, k)
    PROVE  AllApart(l2, b, k)
<1>1. Len(l) \in Nat
  BY ListFacts
<1>2. ASSUME NEW j \in 1 .. Len(l2) PROVE Apart(l2[j], b, k)
  <2>1. l2[j] = e \/ \E i \in 1 .. Len(l) : l2[j] = l[i]
    BY <1>1, InsertedEach
  <2> QED
    BY <2>1 DEF AllApart
<1> QED
  BY <1>2 DEF AllApart

(* Linking adds the addresses of the new range.                            *)
LEMMA InsertedHas ==
    ASSUME NEW E, NEW l, ListOK(l, E), NEW p \in 1 .. Len(l) + 1, NEW e, NEW l2, Inserted(l2, l, p, e),
           NEW x \in Int
    PROVE  Has(l2, x) <=> Has(l, x) \/ (e.base <= x /\ x <= e.limit)
<1>1. Len(l) \in Nat /\ Len(l2) = Len(l) + 1
  BY ListFacts DEF Inserted
<1>2. ASSUME Has(l2, x) PROVE Has(l, x) \/ (e.base <= x /\ x <= e.limit)
  <2>1. PICK j \in 1 .. Len(l2) : l2[j].base <= x /\ x <= l2[j].limit
    BY <1>2 DEF Has
  <2>2. l2[j] = e \/ \E i \in 1 .. Len(l) : l2[j] = l[i]
    BY <1>1, InsertedEach
  <2> QED
    BY <2>1, <2>2 DEF Has
<1>3. ASSUME e.base <= x, x <= e.limit PROVE Has(l2, x)
  <2>1. l2[p] = e /\ p \in 1 .. Len(l2)
    BY <1>1, InsertedPlaces
  <2> QED
    BY <1>3, <2>1 DEF Has
<1>4. ASSUME Has(l, x) PROVE Has(l2, x)
  <2>1. PICK i \in 1 .. Len(l) : l[i].base <= x /\ x <= l[i].limit
    BY <1>4 DEF Has
  <2>2. CASE i < p
    <3>1. l2[i] = l[i] /\ i \in 1 .. Len(l2)
      BY <1>1, <2>2, InsertedPlaces
    <3> QED
      BY <2>1, <3>1 DEF Has
  <2>3. CASE i >= p
    <3>1. l2[i + 1] = l[i] /\ i + 1 \in 1 .. Len(l2)
      BY <1>1, <2>3, InsertedPlaces
    <3> QED
      BY <2>1, <3>1 DEF Has
  <2> QED
    BY <2>2, <2>3, <1>1
<1> QED
  BY <1>2, <1>3, <1>4

-----------------------------------------------------------------------------
(* Frames.                                                                 *)
SameCall(g, f) == g.base = f.base /\ g.limit = f.limit /\ g.kind = f.kind

(* The end of a round: pos = n, n = n->next.                               *)
LEMMA Advances ==
    ASSUME NEW E, NEW l, ListOK(l, E), NEW f \in FrameSet,
           Clear(f.base, E), f.limit + 1 \in E, f.base < f.limit,
           Passed(l, f.n, f.base, f.limit), NEW g, g = Advance(l, f)
    PROVE  InList(l, f.n) /\ FrameOK(g, l, E) /\ SameCall(g, f) /\ g.node = "none"
<1>1. InList(l, f.n) /\ f.n \in Nat
  BY PassedLive
<1>2. PICK m : m = NextOf(l, f.n)
  OBVIOUS
<1>3. m \in Nat
  BY <1>1, <1>2, NextLive
<1>4. g = [f EXCEPT !.cur = f.n, !.n = m, !.left = <<>>, !.node = "none"]
  BY <1>2 DEF Advance
<1>5. /\ g \in FrameSet /\ SameCall(g, f)
      /\ g.node = "none" /\ g.cur = f.n /\ g.n = m
  BY <1>1, <1>3, <1>4 DEF FrameSet, SameCall
<1>6. Searches(g, l)
  BY <1>2, <1>5 DEF Searches, SameCall
<1> QED
  BY <1>1, <1>5, <1>6 DEF FrameOK, SameCall

(* A call that waits goes on waiting when a nested call trims.             *)
LEMMA WaitsShrunk ==
    ASSUME NEW E, NEW l, ListOK(l, E), NEW l2, ListOK(l2, E), Shrunk(l2, l),
           NEW f, f.node # "none", FrameOK(f, l, E)
    PROVE  FrameOK(f, l2, E) /\ (PagesOK(f, l) => PagesOK(f, l2))
<1>1. f \in FrameSet /\ f.base \in Int /\ f.limit \in Int /\ Waits(f, l, E)
  BY DEF FrameOK, FrameSet
<1>2. InList(l, f.cur) /\ Passed(l, f.n, f.base, f.limit)
  BY <1>1 DEF Waits
<1>3. InList(l2, f.cur) /\ Passed(l2, f.n, f.base, f.limit)
  BY <1>1, <1>2, ShrunkLive, ShrunkPassed
<1>4. \A x \in Int : In(x, f.left) => ~Has(l2, x)
  BY <1>1, ShrunkHas DEF Waits
<1>5. Waits(f, l2, E)
  BY <1>1, <1>3, <1>4 DEF Waits
<1>6. AllApart(l, f.base, f.limit) => AllApart(l2, f.base, f.limit)
  BY <1>1, ShrunkAllApart
<1> QED
  BY <1>5, <1>6 DEF FrameOK, PagesOK

(* Nothing of e belongs to f.                                              *)
Off(e, f) == \A x \in Int : e.base <= x /\ x <= e.limit => ~Side(x, f) /\ ~Spot(x, f)

(* A range that has nothing of a call is out of what the call removes.     *)
LEMMA OffApart ==
    ASSUME NEW e, NEW f, e.base \in Int, e.limit \in Int, e.base <= e.limit,
           f.base \in Int, f.limit \in Int, f.base <= f.limit, Off(e, f)
    PROVE  Apart(e, f.base, f.limit)
<1>1. \A x \in Int : e.base <= x /\ x <= e.limit => ~(f.base <= x /\ x <= f.limit)
  BY DEF Off, Spot
<1>2. CASE f.base <= e.base
  <2>1. ~(e.base <= f.limit)
    BY <1>1, <1>2
  <2> QED
    BY <2>1 DEF Apart
<1>3. CASE e.base < f.base
  <2>1. ~(f.base <= e.limit)
    BY <1>1, <1>3
  <2> QED
    BY <2>1 DEF Apart
<1> QED
  BY <1>2, <1>3

(* A call that waits goes on waiting when a nested call links a range.     *)
LEMMA WaitsInserted ==
    ASSUME NEW E, NEW l, ListOK(l, E), NEW p \in 1 .. Len(l) + 1, NEW e \in Entries(E), e.base <= e.limit,
           NEW l2, ListOK(l2, E), Inserted(l2, l, p, e),
           NEW f, f.node # "none", FrameOK(f, l, E), Off(e, f)
    PROVE  FrameOK(f, l2, E) /\ (PagesOK(f, l) => PagesOK(f, l2))
<1>1. f \in FrameSet /\ f.base \in Int /\ f.limit \in Int /\ f.base < f.limit /\ Waits(f, l, E)
  BY DEF FrameOK, FrameSet
<1>2. InList(l, f.cur) /\ Passed(l, f.n, f.base, f.limit)
  BY <1>1 DEF Waits
<1>3. e.base \in Int /\ e.limit \in Int
  BY DEF Entries
<1>4. Apart(e, f.base, f.limit)
  BY <1>1, <1>3, OffApart
<1>5. InList(l2, f.cur) /\ Passed(l2, f.n, f.base, f.limit)
  BY <1>1, <1>2, <1>4, InsertedLive, InsertedPassed
<1>6. ASSUME NEW x \in Int, In(x, f.left) PROVE ~Has(l2, x)
  <2>1. ~Has(l, x)
    BY <1>1, <1>6 DEF Waits
  <2>2. ~(e.base <= x /\ x <= e.limit)
    BY <1>6 DEF Off, Side
  <2> QED
    BY <2>1, <2>2, InsertedHas
<1>7. Waits(f, l2, E)
  BY <1>1, <1>5, <1>6 DEF Waits
<1>8. AllApart(l, f.base, f.limit) => AllApart(l2, f.base, f.limit)
  BY <1>4, InsertedAllApart
<1> QED
  BY <1>7, <1>8 DEF FrameOK, PagesOK

-----------------------------------------------------------------------------
(***************************************************************************)
(* A step of the innermost call: frame f becomes g, list l becomes l2.     *)
(* Free memory moves between the list and the part that waits to be        *)
(* linked; only what the call removes leaves it.                           *)
(***************************************************************************)
LowerOK(s, l2, early, E) ==
    \A i \in 1 .. Len(s) : i < Len(s) => FrameOK(s[i], l2, E) /\ (~early => PagesOK(s[i], l2))

SideNew(s, l, g, early) ==
    \A x \in Int : Side(x, g) =>
        /\ Free(x, l, s)
        /\ \A i \in 1 .. Len(s) : i < Len(s) => ~Side(x, s[i]) /\ (~early => ~Spot(x, s[i]))

Flow(s, l, f, l2, g) ==
    /\ \A x \in Int : Has(l2, x) => Free(x, l, s)
    /\ \A x \in Int : Has(l, x) \/ Side(x, f) => Has(l2, x) \/ Side(x, g) \/ Spot(x, f)

(* The stack is a sequence of frames.                                      *)
LEMMA StackFacts ==
    ASSUME NEW E, NEW l, NEW s, NEW early, StackOK(s, l, early, E)
    PROVE  s \in Seq(FrameSet) /\ Len(s) \in Nat /\ \A i \in 1 .. Len(s) : s[i] \in FrameSet
<1>1. s \in Seq(FrameSet)
  BY DEF StackOK
<1> QED
  BY <1>1

(* The invariant after a step of the innermost call.                       *)
LEMMA Moved ==
    ASSUME NEW E, NEW l, NEW s, NEW early \in BOOLEAN, NEW tk, NEW rv, NEW k, Core(l, s, early, tk, rv, k, E),
           s # <<>>, NEW f, f = s[Len(s)], NEW l2, ListOK(l2, E),
           NEW g, FrameOK(g, l2, E), SameCall(g, f), ~early => PagesOK(g, l2),
           LowerOK(s, l2, early, E), SideNew(s, l, g, early), Flow(s, l, f, l2, g),
           NEW s2, s2 = ReplaceAt(s, Len(s), g)
    PROVE  Core(l2, s2, early, tk, rv, k, E)
<1> DEFINE n == Len(s)
<1>1. StackOK(s, l, early, E)
  BY DEF Core
<1>2. s \in Seq(FrameSet) /\ n \in Nat /\ n > 0 /\ g \in FrameSet
  BY <1>1, StackFacts DEF FrameOK
<1>3. s2 \in Seq(FrameSet) /\ Len(s2) = n /\ \A i \in 1 .. n : s2[i] = IF i = n THEN g ELSE s[i]
  BY <1>2 DEF ReplaceAt
<1>4. s2[n] = g /\ n \in 1 .. n
  BY <1>2, <1>3
<1>5. \A i \in 1 .. n : i # n => s2[i] = s[i] /\ i < n
  BY <1>2, <1>3
<1>6. f = s[n]
  OBVIOUS
<1> HIDE DEF n
<1>7. ASSUME NEW i \in 1 .. n, NEW x \in Int PROVE Spot(x, s2[i]) <=> Spot(x, s[i])
  <2>1. CASE i = n
    BY <2>1, <1>4, <1>6 DEF Spot, SameCall
  <2>2. CASE i # n
    BY <2>2, <1>5
  <2> QED
    BY <2>1, <2>2
<1>8. StackOK(s2, l2, early, E)
  <2>1. ASSUME NEW i \in 1 .. n PROVE FrameOK(s2[i], l2, E) /\ (~early => PagesOK(s2[i], l2))
    <3>1. CASE i = n
      BY <3>1, <1>4
    <3>2. CASE i # n
      <4>1. FrameOK(s[i], l2, E) /\ (~early => PagesOK(s[i], l2))
        BY <3>2, <1>5 DEF LowerOK, n
      <4> QED
        BY <3>2, <4>1, <1>5
    <3> QED
      BY <3>1, <3>2
  <2>2. \A i \in 1 .. n : i < n => s2[i].node # "none"
    <3>1. \A i \in 1 .. n : i < n => s[i].node # "none"
      BY <1>1 DEF StackOK, n
    <3>2. \A i \in 1 .. n : i < n => i # n
      BY <1>2
    <3> QED
      BY <3>1, <3>2, <1>5
  <2>3. early => n <= 1 /\ \A i \in 1 .. n : s2[i].kind = "reserve"
    <3>1. early => n <= 1 /\ \A i \in 1 .. n : s[i].kind = "reserve"
      BY <1>1 DEF StackOK, n
    <3>2. \A i \in 1 .. n : s2[i].kind = s[i].kind
      BY <1>4, <1>5, <1>6 DEF SameCall
    <3> QED
      BY <3>1, <3>2
  <2> QED
    BY <1>3, <2>1, <2>2, <2>3 DEF StackOK
<1>9. FramesApart(s2, early)
  <2>0. FramesApart(s, early)
    BY DEF Core
  <2>1. ASSUME NEW i \in 1 .. n, NEW j \in 1 .. n, NEW x \in Int, i # j, Side(x, s2[i]) PROVE ~Side(x, s2[j])
    <3>1. CASE i = n
      <4>1. Side(x, g) /\ j < n /\ s2[j] = s[j]
        BY <2>1, <3>1, <1>4, <1>5
      <4> QED
        BY <4>1 DEF SideNew, n
    <3>2. CASE j = n
      <4>1. Side(x, s[i]) /\ i < n /\ s2[j] = g
        BY <2>1, <3>2, <1>4, <1>5
      <4> QED
        BY <4>1 DEF SideNew, n
    <3>3. CASE i # n /\ j # n
      <4>1. Side(x, s[i]) /\ s2[j] = s[j]
        BY <2>1, <3>3, <1>5
      <4> QED
        BY <2>0, <2>1, <4>1 DEF FramesApart, n
    <3> QED
      BY <3>1, <3>2, <3>3
  <2>2. ASSUME ~early, NEW i \in 1 .. n, NEW j \in 1 .. n, NEW x \in Int, i # j, Spot(x, s2[i])
        PROVE  ~Side(x, s2[j]) /\ ~Spot(x, s2[j])
    <3>1. Spot(x, s[i])
      BY <2>2, <1>7
    <3>2. ~Side(x, s[j]) /\ ~Spot(x, s[j])
      BY <2>0, <2>2, <3>1 DEF FramesApart, n
    <3>3. ~Spot(x, s2[j])
      BY <3>2, <1>7
    <3>4. CASE j = n
      <4>1. i < n /\ s2[j] = g
        BY <2>2, <3>4, <1>4, <1>5
      <4> QED
        BY <2>2, <3>1, <3>3, <4>1 DEF SideNew, n
    <3>5. CASE j # n
      BY <3>2, <3>3, <3>5, <1>5
    <3> QED
      BY <3>4, <3>5
  <2> QED
    BY <1>3, <2>1, <2>2 DEF FramesApart
<1>10. ASSUME NEW x \in Int, Free(x, l2, s2) PROVE Free(x, l, s)
  <2>1. CASE Has(l2, x)
    BY <2>1 DEF Flow
  <2>2. CASE \E i \in 1 .. n : Side(x, s2[i])
    <3>1. PICK i \in 1 .. n : Side(x, s2[i])
      BY <2>2
    <3>2. CASE i = n
      BY <3>1, <3>2, <1>4 DEF SideNew
    <3>3. CASE i # n
      BY <3>1, <3>3, <1>5 DEF Free, n
    <3> QED
      BY <3>2, <3>3
  <2> QED
    BY <2>1, <2>2, <1>3, <1>10 DEF Free
<1>11. ASSUME NEW x \in Int, Free(x, l, s) PROVE Free(x, l2, s2) \/ Spot(x, s2[n])
  <2>1. CASE Has(l, x) \/ Side(x, f)
    <3>1. Has(l2, x) \/ Side(x, g) \/ Spot(x, f)
      BY <2>1 DEF Flow
    <3> QED
      BY <3>1, <1>3, <1>4, <1>6, <1>7 DEF Free
  <2>2. CASE \E i \in 1 .. n : i # n /\ Side(x, s[i])
    BY <2>2, <1>3, <1>5 DEF Free
  <2> QED
    BY <2>1, <2>2, <1>6, <1>11 DEF Free, n
<1>12. Exclusive(l2, s2, early, tk, rv)
  <2>1. Exclusive(l, s, early, tk, rv)
    BY DEF Core
  <2>2. \A x \in Int : Free(x, l2, s2) => InRAM(x) /\ ~InAny(x, tk) /\ ~InAny(x, rv)
    BY <1>10, <2>1 DEF Exclusive
  <2>3. ASSUME ~early, NEW i \in 1 .. n, NEW x \in Int, Spot(x, s2[i])
        PROVE  InRAM(x) /\ ~InAny(x, tk) /\ ~InAny(x, rv)
    <3>1. Spot(x, s[i])
      BY <2>3, <1>7
    <3> QED
      BY <2>1, <2>3, <3>1 DEF Exclusive, n
  <2> QED
    BY <1>3, <2>2, <2>3 DEF Exclusive
<1>13. Kept(k, l2, s2, tk, rv)
  <2>1. Kept(k, l, s, tk, rv)
    BY DEF Core
  <2>2. ASSUME NEW x \in Int, \E i \in 1 .. k : In(x, Nodes[i])
        PROVE  Free(x, l2, s2) \/ InAny(x, tk) \/ InAny(x, rv) \/ \E i \in 1 .. Len(s2) : Spot(x, s2[i])
    <3>1. Free(x, l, s) \/ InAny(x, tk) \/ InAny(x, rv) \/ \E i \in 1 .. n : Spot(x, s[i])
      BY <2>1, <2>2 DEF Kept, n
    <3>2. CASE Free(x, l, s)
      BY <3>2, <1>3, <1>4, <1>11
    <3>3. CASE \E i \in 1 .. n : Spot(x, s[i])
      BY <3>3, <1>3, <1>7
    <3> QED
      BY <3>1, <3>2, <3>3
  <2> QED
    BY <2>2 DEF Kept
<1> QED
  BY <1>8, <1>9, <1>12, <1>13 DEF Core

-----------------------------------------------------------------------------
(* Calls and returns.                                                      *)
LEMMA FrontFacts ==
    ASSUME NEW S, NEW s \in Seq(S), s # <<>>
    PROVE  /\ Front(s) \in Seq(S) /\ Len(Front(s)) = Len(s) - 1
           /\ \A i \in 1 .. Len(s) - 1 : Front(s)[i] = s[i]
<1>1. Len(s) \in Nat /\ Len(s) > 0
  OBVIOUS
<1>2. \A j \in 1 .. Len(s) - 1 : s[j] \in S
  OBVIOUS
<1>3. PICK t : t = SubSeq(s, 1, Len(s) - 1)
  OBVIOUS
<1>4. /\ t \in Seq(S) /\ Len(t) = IF 1 <= Len(s) - 1 THEN Len(s) - 1 - 1 + 1 ELSE 0
      /\ \A j \in 1 .. Len(s) - 1 - 1 + 1 : t[j] = s[1 + j - 1]
  BY <1>1, <1>2, <1>3, SubSeqProperties
<1>5. Len(t) = Len(s) - 1
  <2>1. CASE 1 <= Len(s) - 1
    BY <1>1, <1>4, <2>1
  <2>2. CASE ~(1 <= Len(s) - 1)
    <3>1. Len(t) = 0
      BY <1>4, <2>2, Zenon
    <3>2. Len(s) - 1 = 0
      <4> DEFINE n == Len(s)
      <4>1. n \in Nat /\ n > 0 /\ ~(1 <= n - 1)
        BY <1>1, <2>2
      <4> HIDE DEF n
      <4>2. n - 1 = 0
        BY <4>1
      <4> QED
        BY <4>2 DEF n
    <3> QED
      BY <3>1, <3>2, Zenon
  <2> QED
    BY <2>1, <2>2
<1>6. ASSUME NEW i \in 1 .. Len(s) - 1 PROVE t[i] = s[i]
  <2>1. i \in 1 .. Len(s) - 1 - 1 + 1 /\ 1 + i - 1 = i
    BY <1>1
  <2> QED
    BY <1>4, <2>1
<1>7. Front(s) = t
  BY <1>3 DEF Front
<1> QED
  BY <1>4, <1>5, <1>6, <1>7

Extends(t2, t, c) == \A x \in Int : InAny(x, t2) <=> InAny(x, t) \/ In(x, c)

(* The addresses of a list of intervals that grows by one.                 *)
LEMMA AppendAny ==
    ASSUME NEW S, NEW t \in Seq(S), NEW c \in S, NEW t2, t2 = Append(t, c)
    PROVE  Extends(t2, t, c)
<1>1. /\ Len(t) \in Nat /\ Len(t2) = Len(t) + 1 /\ t2[Len(t) + 1] = c
      /\ \A i \in 1 .. Len(t) : t2[i] = t[i]
  OBVIOUS
<1>2. \A i \in 1 .. Len(t2) : i = Len(t) + 1 \/ i \in 1 .. Len(t)
  BY <1>1
<1>3. Len(t) + 1 \in 1 .. Len(t2) /\ \A i \in 1 .. Len(t) : i \in 1 .. Len(t2)
  BY <1>1
<1> QED
  BY <1>1, <1>2, <1>3 DEF InAny, Extends

Entered(f, l, b, e, kind) ==
    f = [base |-> b, limit |-> e, kind |-> kind, left |-> <<>>, node |-> "none",
         cur |-> NextOf(l, ListHead), n |-> NextOf(l, NextOf(l, ListHead))]

(* A new call looks at the first range.                                    *)
LEMMA Enters ==
    ASSUME NEW E, NEW l, ListOK(l, E), NEW b \in Int, NEW e \in Int, Clear(b, E), e + 1 \in E, b < e,
           NEW kind \in Kinds, NEW f, Entered(f, l, b, e, kind)
    PROVE  FrameOK(f, l, E) /\ f.base = b /\ f.limit = e /\ f.kind = kind /\ f.node = "none"
<1>1. PICK c : c = NextOf(l, ListHead)
  OBVIOUS
<1>2. PICK m : m = NextOf(l, c)
  OBVIOUS
<1>3. f = [base |-> b, limit |-> e, kind |-> kind, left |-> <<>>, node |-> "none", cur |-> c, n |-> m]
  BY <1>1, <1>2 DEF Entered
<1>4. IsAt(l, 1, c) /\ Len(l) \in Nat /\ 1 \in 1 .. Len(l) + 1
  BY <1>1, FirstFacts, ListFacts
<1>5. InList(l, c) /\ c \in Nat
  BY <1>4, IsAtLive
<1>6. m \in Nat
  BY <1>2, <1>5, NextLive
<1>7. /\ f \in FrameSet /\ f.base = b /\ f.limit = e /\ f.kind = kind /\ f.node = "none"
      /\ f.cur = c /\ f.n = m
  BY <1>3, <1>5, <1>6 DEF FrameSet
<1>8. \A i \in 1 .. Len(l) : ~(i < 1)
  BY <1>4
<1>9. Passed(l, c, b, e)
  BY <1>4, <1>8 DEF Passed
<1> QED
  BY <1>2, <1>7, <1>9 DEF FrameOK, Searches

AllWait(s) == \A i \in 1 .. Len(s) : s[i].node # "none"

(* A free address belongs to no call that waits.                           *)
LEMMA WaitingOff ==
    ASSUME NEW E, NEW l, ListOK(l, E), NEW f, FrameOK(f, l, E), f.node # "none", NEW x \in Int, Has(l, x)
    PROVE  ~Side(x, f) /\ (PagesOK(f, l) => ~Spot(x, f))
<1>1. f.base \in Int /\ f.limit \in Int /\ Waits(f, l, E)
  BY DEF FrameOK, FrameSet
<1>2. ~Side(x, f)
  BY <1>1 DEF Waits, Side
<1>3. ASSUME PagesOK(f, l) PROVE ~Spot(x, f)
  <2>1. AllApart(l, f.base, f.limit)
    BY <1>3 DEF PagesOK
  <2> QED
    BY <1>1, <2>1, ApartHas DEF Spot
<1> QED
  BY <1>2, <1>3

(* Pages that lie in one range are free.                                   *)
LEMMA WholeHas ==
    ASSUME NEW E, NEW l, ListOK(l, E), NEW b \in Int, NEW e \in Int, Whole(l, b, e), NEW x \in Int, b <= x, x <= e
    PROVE  Has(l, x)
<1>1. PICK t \in 1 .. Len(l) : l[t].base <= b /\ e < l[t].limit
  BY DEF Whole
<1>2. l[t].base \in Int /\ l[t].limit \in Int
  BY ListFacts
<1>3. l[t].base <= x /\ x <= l[t].limit
  BY <1>1, <1>2
<1> QED
  BY <1>3 DEF Has

(* mem_init's calls start on an empty stack, those of mem_get_pages take   *)
(* pages inside one range of the list.                                     *)
Callable(s, l, early, b, e, kind) ==
    IF early THEN s = <<>> /\ kind = "reserve"
    ELSE kind # "reserve" /\ b % Page = 0 /\ Whole(l, b, e) /\ AllWait(s)

(* The invariant after a call of range_remove.                             *)
LEMMA Called ==
    ASSUME NEW E, NEW l, NEW s, NEW early \in BOOLEAN, NEW tk, NEW rv, NEW k, Core(l, s, early, tk, rv, k, E),
           NEW b \in Int, NEW e \in Int, Clear(b, E), e + 1 \in E, b < e, NEW kind \in Kinds,
           Callable(s, l, early, b, e, kind), NEW f, Entered(f, l, b, e, kind), NEW s2, s2 = Append(s, f)
    PROVE  Core(l, s2, early, tk, rv, k, E)
<1> DEFINE n == Len(s)
<1>1. ListOK(l, E) /\ StackOK(s, l, early, E) /\ FramesApart(s, early) /\ Exclusive(l, s, early, tk, rv)
  BY DEF Core
<1>2. FrameOK(f, l, E) /\ f.base = b /\ f.limit = e /\ f.kind = kind /\ f.node = "none"
  BY <1>1, Enters
<1>3. s \in Seq(FrameSet) /\ n \in Nat /\ f \in FrameSet
  BY <1>1, <1>2, StackFacts DEF FrameOK
<1>4. /\ s2 \in Seq(FrameSet) /\ Len(s2) = n + 1 /\ s2[n + 1] = f
      /\ \A i \in 1 .. n : s2[i] = s[i]
  BY <1>3
<1>5. early => n = 0
  BY DEF Callable
<1> HIDE DEF n
<1>6. \A i \in 1 .. n + 1 : i = n + 1 \/ i \in 1 .. n
  BY <1>3
<1>7. \A i \in 1 .. n : i \in 1 .. n + 1
  BY <1>3
<1>8. \A i \in 1 .. n : i < n + 1 /\ FrameOK(s[i], l, E) /\ (~early => PagesOK(s[i], l))
  BY <1>1, <1>3 DEF StackOK, n
<1>9. ~early => \A i \in 1 .. n : s[i].node # "none"
  BY DEF Callable, AllWait, n
<1>10. \A x \in Int : ~Side(x, f)
  BY <1>2 DEF Side
<1>11. ASSUME ~early, NEW x \in Int, Spot(x, f) PROVE Has(l, x)
  <2>1. Whole(l, b, e) /\ b <= x /\ x <= e
    BY <1>2, <1>11 DEF Callable, Spot
  <2> QED
    BY <1>1, <2>1, WholeHas
<1>12. ASSUME ~early, NEW x \in Int, Spot(x, f), NEW i \in 1 .. n PROVE ~Side(x, s[i]) /\ ~Spot(x, s[i])
  <2>1. Has(l, x)
    BY <1>11, <1>12
  <2>2. FrameOK(s[i], l, E) /\ PagesOK(s[i], l) /\ s[i].node # "none"
    BY <1>8, <1>9, <1>12
  <2> QED
    BY <1>1, <2>1, <2>2, WaitingOff
<1>13. StackOK(s2, l, early, E)
  <2>1. PagesOK(f, l) \/ early
    BY <1>2 DEF PagesOK, Callable
  <2>2. \A i \in 1 .. n + 1 : FrameOK(s2[i], l, E) /\ (~early => PagesOK(s2[i], l))
    BY <1>2, <1>4, <1>6, <1>8, <2>1
  <2>3. ASSUME NEW i \in 1 .. n + 1, i < n + 1 PROVE s2[i].node # "none"
    <3>1. i \in 1 .. n /\ n # 0
      BY <1>3, <2>3
    <3> QED
      BY <3>1, <1>4, <1>5, <1>9
  <2>4. early => n + 1 <= 1 /\ \A i \in 1 .. n + 1 : s2[i].kind = "reserve"
    <3> SUFFICES ASSUME early PROVE n + 1 <= 1 /\ \A i \in 1 .. n + 1 : s2[i].kind = "reserve"
      OBVIOUS
    <3>1. n = 0 /\ f.kind = "reserve"
      BY <1>2, <1>5 DEF Callable
    <3>2. \A i \in 1 .. n + 1 : i = n + 1
      BY <3>1
    <3> QED
      BY <3>1, <3>2, <1>4
  <2> QED
    BY <1>4, <2>2, <2>3, <2>4 DEF StackOK
<1>14. FramesApart(s2, early)
  <2>1. ASSUME NEW i \in 1 .. n + 1, NEW j \in 1 .. n + 1, NEW x \in Int, i # j, Side(x, s2[i])
        PROVE  ~Side(x, s2[j])
    <3>1. i \in 1 .. n /\ Side(x, s[i])
      BY <2>1, <1>4, <1>6, <1>10
    <3>2. CASE j = n + 1
      BY <3>2, <1>4, <1>10
    <3>3. CASE j \in 1 .. n
      BY <2>1, <3>1, <3>3, <1>1, <1>4 DEF FramesApart, n
    <3> QED
      BY <3>2, <3>3, <1>6
  <2>2. ASSUME ~early, NEW i \in 1 .. n + 1, NEW j \in 1 .. n + 1, NEW x \in Int, i # j, Spot(x, s2[i])
        PROVE  ~Side(x, s2[j]) /\ ~Spot(x, s2[j])
    <3>1. CASE i = n + 1
      <4>1. j \in 1 .. n /\ Spot(x, f) /\ s2[j] = s[j]
        BY <2>2, <3>1, <1>4, <1>6
      <4> QED
        BY <2>2, <4>1, <1>12
    <3>2. CASE i \in 1 .. n /\ j = n + 1
      <4>1. Spot(x, s[i]) /\ s2[j] = f
        BY <2>2, <3>2, <1>4
      <4> QED
        BY <2>2, <3>2, <4>1, <1>10, <1>12
    <3>3. CASE i \in 1 .. n /\ j \in 1 .. n
      <4>1. Spot(x, s[i]) /\ s2[j] = s[j]
        BY <2>2, <3>3, <1>4
      <4> QED
        BY <2>2, <3>3, <4>1, <1>1 DEF FramesApart, n
    <3> QED
      BY <3>1, <3>2, <3>3, <1>6
  <2> QED
    BY <1>4, <2>1, <2>2, SMTT(30) DEF FramesApart
<1>15. ASSUME NEW x \in Int PROVE Free(x, l, s2) <=> Free(x, l, s)
  BY <1>4, <1>6, <1>7, <1>10 DEF Free, n
<1>16. Exclusive(l, s2, early, tk, rv)
  <2>1. \A x \in Int : Free(x, l, s2) => InRAM(x) /\ ~InAny(x, tk) /\ ~InAny(x, rv)
    BY <1>1, <1>15 DEF Exclusive
  <2>2. ASSUME ~early, NEW i \in 1 .. n + 1, NEW x \in Int, Spot(x, s2[i])
        PROVE  InRAM(x) /\ ~InAny(x, tk) /\ ~InAny(x, rv)
    <3>1. CASE i = n + 1
      <4>1. Free(x, l, s)
        BY <2>2, <3>1, <1>4, <1>11 DEF Free
      <4> QED
        BY <4>1, <1>1 DEF Exclusive
    <3>2. CASE i \in 1 .. n
      BY <2>2, <3>2, <1>1, <1>4 DEF Exclusive, n
    <3> QED
      BY <3>1, <3>2, <1>6
  <2> QED
    BY <1>4, <2>1, <2>2 DEF Exclusive
<1>17. Kept(k, l, s2, tk, rv)
  <2>1. Kept(k, l, s, tk, rv)
    BY DEF Core
  <2>2. \A x \in Int : (\E i \in 1 .. n : Spot(x, s[i])) => \E i \in 1 .. Len(s2) : Spot(x, s2[i])
    BY <1>4, <1>7
  <2> QED
    BY <2>1, <2>2, <1>15 DEF Kept, n
<1> QED
  BY <1>1, <1>13, <1>14, <1>16, <1>17 DEF Core

(* The end of a call: what it removed becomes reserved or taken.           *)
LEMMA Returned ==
    ASSUME NEW E, NEW l, NEW s, NEW early \in BOOLEAN, NEW tk, NEW rv, NEW k, Core(l, s, early, tk, rv, k, E),
           s # <<>>, NEW f, f = s[Len(s)], f.node = "none", f.cur = ListHead,
           NEW c, c = <<f.base, f.limit>>, NEW s2, s2 = Front(s),
           NEW tk2, tk2 = IF early THEN tk ELSE Append(tk, c),
           NEW rv2, rv2 = IF early THEN Append(rv, c) ELSE rv
    PROVE  Core(l, s2, early, tk2, rv2, k, E)
<1> DEFINE n == Len(s)
<1>1. /\ ListOK(l, E) /\ StackOK(s, l, early, E) /\ FramesApart(s, early) /\ Exclusive(l, s, early, tk, rv)
      /\ TakenOK(tk, rv, early) /\ Kept(k, l, s, tk, rv)
  BY DEF Core
<1>2. s \in Seq(FrameSet) /\ n \in Nat /\ n > 0
  BY <1>1, StackFacts
<1>3. s2 \in Seq(FrameSet) /\ Len(s2) = n - 1 /\ \A i \in 1 .. n - 1 : s2[i] = s[i]
  BY <1>2, FrontFacts
<1>4. FrameOK(f, l, E) /\ (~early => PagesOK(f, l)) /\ (early => n <= 1)
  BY <1>1, <1>2 DEF StackOK
<1>5. f.base \in Int /\ f.limit \in Int /\ Passed(l, ListHead, f.base, f.limit)
  BY <1>4 DEF FrameOK, FrameSet, Searches
<1>6. \A x \in Int : Has(l, x) => ~Spot(x, f)
  <2>1. AllApart(l, f.base, f.limit)
    BY <1>1, <1>5, PassedAll
  <2> QED
    BY <1>1, <1>5, <2>1, ApartHas DEF Spot
<1>7. f = s[n]
  OBVIOUS
<1>8. c \in Int \X Int /\ \A x \in Int : In(x, c) <=> Spot(x, f)
  BY <1>5 DEF In, Spot
<1> HIDE DEF n
<1>9. \A i \in 1 .. n - 1 : i \in 1 .. n /\ i # n /\ i < n
  BY <1>2
<1>10. \A i \in 1 .. n : i = n \/ i \in 1 .. n - 1
  BY <1>2
<1>11. n \in 1 .. n
  BY <1>2
<1>12. StackOK(s2, l, early, E)
  <2>1. \A i \in 1 .. n - 1 : FrameOK(s2[i], l, E) /\ (~early => PagesOK(s2[i], l)) /\ s2[i].node # "none"
    BY <1>1, <1>3, <1>9 DEF StackOK, n
  <2>2. early => n - 1 <= 1 /\ \A i \in 1 .. n - 1 : s2[i].kind = "reserve"
    BY <1>1, <1>2, <1>3, <1>4, <1>9 DEF StackOK, n
  <2> QED
    BY <1>3, <2>1, <2>2 DEF StackOK
<1>13. FramesApart(s2, early)
  <2>1. ASSUME NEW i \in 1 .. n - 1, NEW j \in 1 .. n - 1, NEW x \in Int, i # j, Side(x, s2[i])
        PROVE  ~Side(x, s2[j])
    <3>1. s2[i] = s[i] /\ s2[j] = s[j] /\ i \in 1 .. n /\ j \in 1 .. n
      BY <1>3, <1>9
    <3> QED
      BY <1>1, <2>1, <3>1 DEF FramesApart, n
  <2>2. ASSUME ~early, NEW i \in 1 .. n - 1, NEW j \in 1 .. n - 1, NEW x \in Int, i # j, Spot(x, s2[i])
        PROVE  ~Side(x, s2[j]) /\ ~Spot(x, s2[j])
    <3>1. s2[i] = s[i] /\ s2[j] = s[j] /\ i \in 1 .. n /\ j \in 1 .. n
      BY <1>3, <1>9
    <3> QED
      BY <1>1, <2>2, <3>1 DEF FramesApart, n
  <2> QED
    BY <1>3, <2>1, <2>2 DEF FramesApart
<1>14. ASSUME NEW i \in 1 .. n - 1, NEW x \in Int, Spot(x, f)
       PROVE  ~Side(x, s[i]) /\ ~Spot(x, s[i])
  <2>1. ~early
    BY <1>2, <1>4
  <2>2. i \in 1 .. n /\ i # n /\ Spot(x, s[n])
    BY <1>7, <1>9, <1>14
  <2> QED
    BY <1>1, <1>11, <2>1, <2>2 DEF FramesApart, n
<1>15. ASSUME NEW x \in Int PROVE Free(x, l, s2) <=> Free(x, l, s)
  <2>1. ~Side(x, s[n])
    BY <1>7 DEF Side
  <2>2. (\E i \in 1 .. n - 1 : Side(x, s2[i])) <=> (\E i \in 1 .. n : Side(x, s[i]))
    BY <1>3, <1>9, <1>10, <2>1
  <2> QED
    BY <1>3, <2>2 DEF Free, n
<1>16. ASSUME NEW x \in Int, Free(x, l, s) PROVE ~Spot(x, f)
  <2>1. CASE Has(l, x)
    BY <2>1, <1>6
  <2>2. CASE \E i \in 1 .. n : Side(x, s[i])
    <3>1. ~Side(x, s[n])
      BY <1>7 DEF Side
    <3>2. PICK i \in 1 .. n - 1 : Side(x, s[i])
      BY <2>2, <3>1, <1>10
    <3> QED
      BY <3>2, <1>14
  <2> QED
    BY <2>1, <2>2, <1>16 DEF Free, n
<1>17. tk \in Seq(Int \X Int) /\ rv \in Seq(Int \X Int) /\ (early => tk = <<>>)
  BY <1>1 DEF TakenOK
<1>18. \A x \in Int : InAny(x, tk2) <=> InAny(x, tk) \/ (~early /\ Spot(x, f))
  <2>1. CASE early
    BY <2>1
  <2>2. CASE ~early
    <3>1. tk2 = Append(tk, c)
      BY <2>2
    <3>2. Extends(tk2, tk, c)
      BY <3>1, <1>8, <1>17, AppendAny
    <3> QED
      BY <2>2, <3>2, <1>8 DEF Extends
  <2> QED
    BY <2>1, <2>2
<1>19. \A x \in Int : InAny(x, rv2) <=> InAny(x, rv) \/ (early /\ Spot(x, f))
  <2>1. CASE ~early
    BY <2>1
  <2>2. CASE early
    <3>1. rv2 = Append(rv, c)
      BY <2>2
    <3>2. Extends(rv2, rv, c)
      BY <3>1, <1>8, <1>17, AppendAny
    <3> QED
      BY <2>2, <3>2, <1>8 DEF Extends
  <2> QED
    BY <2>1, <2>2
<1>20. Exclusive(l, s2, early, tk2, rv2)
  <2>1. ASSUME NEW x \in Int, Free(x, l, s2) PROVE InRAM(x) /\ ~InAny(x, tk2) /\ ~InAny(x, rv2)
    <3>1. Free(x, l, s) /\ ~Spot(x, f)
      BY <2>1, <1>15, <1>16
    <3>2. InRAM(x) /\ ~InAny(x, tk) /\ ~InAny(x, rv)
      BY <3>1, <1>1 DEF Exclusive
    <3> QED
      BY <3>1, <3>2, <1>18, <1>19
  <2>2. ASSUME ~early, NEW i \in 1 .. n - 1, NEW x \in Int, Spot(x, s2[i])
        PROVE  InRAM(x) /\ ~InAny(x, tk2) /\ ~InAny(x, rv2)
    <3>1. Spot(x, s[i]) /\ i \in 1 .. n
      BY <2>2, <1>3, <1>9
    <3>2. InRAM(x) /\ ~InAny(x, tk) /\ ~InAny(x, rv)
      BY <2>2, <3>1, <1>1 DEF Exclusive, n
    <3>3. ~Spot(x, f)
      BY <2>2, <3>1, <1>14
    <3> QED
      BY <3>2, <3>3, <1>18, <1>19
  <2> QED
    BY <1>3, <2>1, <2>2 DEF Exclusive
<1>21. TakenOK(tk2, rv2, early)
  <2>1. CASE early
    <3>1. tk2 = <<>> /\ Len(tk2) = 0 /\ rv2 \in Seq(Int \X Int) /\ tk2 \in Seq(Int \X Int)
      BY <2>1, <1>8, <1>17
    <3>2. \A i \in 1 .. Len(tk2) : FALSE
      BY <3>1
    <3> QED
      BY <3>1, <3>2 DEF TakenOK
  <2>2. CASE ~early
    <3>1. tk2 = Append(tk, c) /\ rv2 = rv
      BY <2>2
    <3>2. /\ tk2 \in Seq(Int \X Int) /\ Len(tk) \in Nat /\ Len(tk2) = Len(tk) + 1 /\ tk2[Len(tk) + 1] = c
          /\ \A i \in 1 .. Len(tk) : tk2[i] = tk[i]
      BY <3>1, <1>8, <1>17
    <3>3. \A i \in 1 .. Len(tk2) : i = Len(tk) + 1 \/ i \in 1 .. Len(tk)
      BY <3>2
    <3>4. c[1] % Page = 0
      BY <2>2, <1>4 DEF PagesOK
    <3>5. \A x \in Int : Spot(x, f) => InRAM(x) /\ ~InAny(x, tk) /\ ~InAny(x, rv)
      BY <2>2, <1>1, <1>7, <1>11 DEF Exclusive, n
    <3>6. \A i \in 1 .. Len(tk2) : tk2[i][1] % Page = 0
      BY <3>2, <3>3, <3>4, <1>1 DEF TakenOK
    <3>7. ASSUME NEW i \in 1 .. Len(tk2), NEW x \in Int, In(x, tk2[i]), NEW j \in 1 .. Len(tk2), j # i
          PROVE  ~In(x, tk2[j])
      <4>1. CASE i = Len(tk) + 1
        <5>1. Spot(x, f) /\ j \in 1 .. Len(tk) /\ tk2[j] = tk[j]
          BY <3>2, <3>3, <3>7, <4>1, <1>8
        <5> QED
          BY <5>1, <3>5 DEF InAny
      <4>2. CASE i \in 1 .. Len(tk) /\ j = Len(tk) + 1
        <5>1. In(x, tk[i]) /\ tk2[j] = c
          BY <3>2, <3>7, <4>2
        <5>2. ~Spot(x, f)
          BY <5>1, <4>2, <3>5 DEF InAny
        <5> QED
          BY <5>1, <5>2, <1>8
      <4>3. CASE i \in 1 .. Len(tk) /\ j \in 1 .. Len(tk)
        <5>1. In(x, tk[i]) /\ tk2[j] = tk[j]
          BY <3>2, <3>7, <4>3
        <5> QED
          BY <5>1, <3>7, <4>3, <1>1 DEF TakenOK
      <4> QED
        BY <4>1, <4>2, <4>3, <3>3
    <3>8. ASSUME NEW i \in 1 .. Len(tk2), NEW x \in Int, In(x, tk2[i]) PROVE InRAM(x) /\ ~InAny(x, rv2)
      <4>1. CASE i = Len(tk) + 1
        BY <3>1, <3>2, <3>5, <3>8, <4>1, <1>8
      <4>2. CASE i \in 1 .. Len(tk)
        <5>1. In(x, tk[i])
          BY <3>2, <3>8, <4>2
        <5> QED
          BY <5>1, <3>1, <4>2, <1>1 DEF TakenOK
      <4> QED
        BY <4>1, <4>2, <3>3
    <3> QED
      BY <2>2, <3>1, <3>2, <3>6, <3>7, <3>8, <1>17 DEF TakenOK
  <2> QED
    BY <2>1, <2>2
<1>22. Kept(k, l, s2, tk2, rv2)
  <2>1. ASSUME NEW x \in Int, \E i \in 1 .. k : In(x, Nodes[i])
        PROVE  Free(x, l, s2) \/ InAny(x, tk2) \/ InAny(x, rv2) \/ \E i \in 1 .. Len(s2) : Spot(x, s2[i])
    <3>1. Free(x, l, s) \/ InAny(x, tk) \/ InAny(x, rv) \/ \E i \in 1 .. n : Spot(x, s[i])
      BY <2>1, <1>1 DEF Kept, n
    <3>2. CASE \E i \in 1 .. n : Spot(x, s[i])
      <4>1. Spot(x, f) \/ \E i \in 1 .. n - 1 : Spot(x, s[i])
        BY <3>2, <1>7, <1>10
      <4> QED
        BY <4>1, <1>3, <1>18, <1>19
    <3> QED
      BY <3>1, <3>2, <1>15, <1>18, <1>19
  <2> QED
    BY <2>1 DEF Kept
<1> QED
  BY <1>1, <1>12, <1>13, <1>20, <1>21, <1>22 DEF Core

-----------------------------------------------------------------------------
(***************************************************************************)
(* A round of range_remove, at the p-th range of list l.                   *)
(***************************************************************************)
Before(l, p, b, k) == \A i \in 1 .. Len(l) : i < p => Apart(l[i], b, k)

(* Trimming the base, to the right part.                                   *)
LEMMA RightStays ==
    ASSUME NEW E, NEW l, ListOK(l, E), NEW p \in 1 .. Len(l), NEW k \in Int, k + 1 \in E,
           l[p].base <= k, k < l[p].limit, NEW l2, l2 = ReplaceAt(l, p, CutRight(l[p], k))
    PROVE  /\ ListOK(l2, E) /\ Shrunk(l2, l) /\ Replaced(l2, l, p, CutRight(l[p], k))
           /\ CutRight(l[p], k).base = k + 1 /\ CutRight(l[p], k).limit = l[p].limit
<1> SUFFICES ASSUME NEW e, e = CutRight(l[p], k)
             PROVE  /\ ListOK(l2, E) /\ Shrunk(l2, l) /\ Replaced(l2, l, p, e)
                    /\ e.base = k + 1 /\ e.limit = l[p].limit
  OBVIOUS
<1>1. l[p] \in Entries(E) /\ l[p].base \in Int /\ l[p].limit \in Int
  BY ListFacts
<1>2. e \in Entries(E) /\ e.id = l[p].id /\ e.base = k + 1 /\ e.limit = l[p].limit
  <2>1. PICK r : r = l[p]
    OBVIOUS
  <2>2. e = [r EXCEPT !.base = k + 1]
    BY <2>1 DEF CutRight
  <2>3. r \in [id : Ids, base : Int, limit : Int]
    BY <1>1, <2>1 DEF Entries
  <2>4. k + 1 \in Int
    OBVIOUS
  <2>5. /\ e \in [id : Ids, base : Int, limit : Int]
        /\ e.id = r.id /\ e.base = k + 1 /\ e.limit = r.limit
    BY <2>2, <2>3, <2>4
  <2> QED
    BY <2>1, <2>3, <2>5 DEF Entries
<1>3. l[p].base <= e.base /\ e.base <= e.limit /\ e.limit <= l[p].limit
  BY <1>1, <1>2
<1> QED
  BY <1>2, <1>3, Trims

(* Trimming the limit, to the left part.                                   *)
LEMMA LeftStays ==
    ASSUME NEW E, NEW l, ListOK(l, E), NEW p \in 1 .. Len(l), NEW b \in Int,
           l[p].base < b, b <= l[p].limit, NEW l2, l2 = ReplaceAt(l, p, CutLeft(l[p], b))
    PROVE  /\ ListOK(l2, E) /\ Shrunk(l2, l) /\ Replaced(l2, l, p, CutLeft(l[p], b))
           /\ CutLeft(l[p], b).base = l[p].base /\ CutLeft(l[p], b).limit = b - 1
<1> SUFFICES ASSUME NEW e, e = CutLeft(l[p], b)
             PROVE  /\ ListOK(l2, E) /\ Shrunk(l2, l) /\ Replaced(l2, l, p, e)
                    /\ e.base = l[p].base /\ e.limit = b - 1
  OBVIOUS
<1>1. l[p] \in Entries(E) /\ l[p].base \in Int /\ l[p].limit \in Int
  BY ListFacts
<1>2. e = [l[p] EXCEPT !.limit = b - 1] /\ b - 1 + 1 = b
  BY DEF CutLeft
<1>3. e \in Entries(E) /\ e.id = l[p].id /\ e.base = l[p].base /\ e.limit = b - 1
  BY <1>1, <1>2 DEF Entries
<1>4. l[p].base <= e.base /\ e.base <= e.limit /\ e.limit <= l[p].limit
  BY <1>1, <1>3
<1> QED
  BY <1>3, <1>4, Trims

(* The interval is out of the p-th range, too.                             *)
LEMMA PassOn ==
    ASSUME NEW E, NEW l, ListOK(l, E), NEW p \in 1 .. Len(l), NEW b \in Int, NEW k \in Int, Before(l, p, b, k),
           NEW l2, ListOK(l2, E), Shrunk(l2, l), Apart(l2[p], b, k), NEW m, IsAt(l, p + 1, m)
    PROVE  Passed(l2, m, b, k)
<1>1. Len(l) \in Nat /\ Len(l2) = Len(l) /\ p + 1 \in 1 .. Len(l) + 1
  BY ListFacts DEF Shrunk
<1>2. IsAt(l2, p + 1, m)
  BY <1>1, ShrunkAt
<1>3. ASSUME NEW i \in 1 .. Len(l), i < p + 1 PROVE Apart(l2[i], b, k)
  <2>1. CASE i = p
    BY <2>1
  <2>2. CASE i < p
    <3>1. Apart(l[i], b, k)
      BY <2>2 DEF Before
    <3> QED
      BY <3>1, ShrunkApart
  <2> QED
    BY <1>3, <2>1, <2>2
<1> QED
  BY <1>1, <1>2, <1>3 DEF Passed

(* Ranges do not share addresses.                                          *)
LEMMA Others ==
    ASSUME NEW E, NEW l, ListOK(l, E), NEW p \in 1 .. Len(l), NEW q \in 1 .. Len(l), p # q,
           NEW b \in Int, NEW k \in Int, l[p].base <= b, k <= l[p].limit
    PROVE  Apart(l[q], b, k)
<1>1. /\ l[p].base \in Int /\ l[p].limit \in Int /\ l[q].base \in Int /\ l[q].limit \in Int
      /\ l[p].base <= l[p].limit /\ l[q].base <= l[q].limit
  BY ListFacts
<1>2. CASE p < q
  <2>1. l[p].limit < l[q].base
    BY <1>2, ListFacts
  <2> QED
    BY <1>1, <2>1 DEF Apart
<1>3. CASE q < p
  <2>1. l[q].limit < l[p].base
    BY <1>3, ListFacts
  <2> QED
    BY <1>1, <2>1 DEF Apart
<1> QED
  BY <1>2, <1>3

(* The range that the pages meet is the one that holds them.               *)
LEMMA WholeHere ==
    ASSUME NEW E, NEW l, ListOK(l, E), NEW p \in 1 .. Len(l), NEW b \in Int, NEW k \in Int,
           Whole(l, b, k), ~Apart(l[p], b, k)
    PROVE  l[p].base <= b /\ k < l[p].limit
<1>1. PICK t \in 1 .. Len(l) : l[t].base <= b /\ k < l[t].limit
  BY DEF Whole
<1>2. l[t].base \in Int /\ l[t].limit \in Int
  BY ListFacts
<1>3. CASE t # p
  <2>1. k <= l[t].limit
    BY <1>1, <1>2
  <2>2. Apart(l[p], b, k)
    BY <1>1, <1>3, <2>1, Others
  <2> QED
    BY <2>2
<1> QED
  BY <1>1, <1>3

(* Once that range is trimmed the pages are out of the list.               *)
LEMMA ReplacedApart ==
    ASSUME NEW E, NEW l, ListOK(l, E), NEW p \in 1 .. Len(l), NEW b \in Int, NEW k \in Int,
           l[p].base <= b, k <= l[p].limit, NEW e, NEW l2, Shrunk(l2, l), Replaced(l2, l, p, e), Apart(e, b, k)
    PROVE  AllApart(l2, b, k)
<1>1. ASSUME NEW i \in 1 .. Len(l) PROVE Apart(l2[i], b, k)
  <2>1. CASE i = p
    BY <2>1 DEF Replaced
  <2>2. CASE i # p
    <3>1. l2[i] = l[i]
      BY <2>2 DEF Replaced
    <3>2. Apart(l[i], b, k)
      BY <2>2, Others
    <3> QED
      BY <3>1, <3>2
  <2> QED
    BY <2>1, <2>2
<1> QED
  BY <1>1 DEF AllApart, Shrunk

(* What leaves the list is what was trimmed.                               *)
LEMMA ReplacedHas ==
    ASSUME NEW l, NEW p \in 1 .. Len(l), NEW e, NEW l2, Shrunk(l2, l), Replaced(l2, l, p, e),
           NEW x \in Int, Has(l, x)
    PROVE  Has(l2, x) \/ (l[p].base <= x /\ x <= l[p].limit /\ ~(e.base <= x /\ x <= e.limit))
<1>1. PICK i \in 1 .. Len(l) : l[i].base <= x /\ x <= l[i].limit
  BY DEF Has
<1>2. CASE i # p
  <2>1. l2[i] = l[i] /\ i \in 1 .. Len(l2)
    BY <1>2 DEF Replaced, Shrunk
  <2> QED
    BY <1>1, <2>1 DEF Has
<1>3. CASE i = p
  <2>1. l2[p] = e /\ p \in 1 .. Len(l2)
    BY DEF Replaced, Shrunk
  <2> QED
    BY <1>1, <1>3, <2>1 DEF Has
<1> QED
  BY <1>2, <1>3

(* list_del.                                                               *)
LEMMA Deletes ==
    ASSUME NEW E, NEW l, ListOK(l, E), NEW p \in 1 .. Len(l), NEW b \in Int, NEW k \in Int, Before(l, p, b, k),
           NEW l2, l2 = RemoveAt(l, p), NEW m, IsAt(l, p + 1, m)
    PROVE  /\ ListOK(l2, E) /\ Passed(l2, m, b, k)
           /\ \A x \in Int : Has(l2, x) => Has(l, x)
           /\ \A x \in Int : Has(l, x) => Has(l2, x) \/ (l[p].base <= x /\ x <= l[p].limit)
<1> DEFINE n == Len(l)
<1>1. l \in Seq(Entries(E)) /\ Ordered(l) /\ Bounded(Entries(E)) /\ n \in Nat
  BY EntriesBounded, ListFacts DEF ListOK
<1>2. /\ l2 \in Seq(Entries(E)) /\ Len(l2) = n - 1 /\ Ordered(l2)
      /\ \A i \in 1 .. n - 1 : l2[i] = IF i < p THEN l[i] ELSE l[i + 1]
  BY <1>1, Delete, ZenonT(30)
<1>3. p \in 1 .. n /\ \A u, w \in 1 .. n : u # w => l[u].id # l[w].id
  BY ListFacts
<1>4. IsAt(l, p + 1, m) /\ Before(l, p, b, k)
  OBVIOUS
<1> HIDE DEF n
<1>5. ASSUME NEW i \in 1 .. n - 1, NEW j \in 1 .. n - 1, i # j PROVE l2[i].id # l2[j].id
  <2>1. PICK u \in 1 .. n : u = (IF i < p THEN i ELSE i + 1) /\ l2[i] = l[u]
    BY <1>1, <1>2, <1>3
  <2>2. PICK w \in 1 .. n : w = (IF j < p THEN j ELSE j + 1) /\ l2[j] = l[w]
    BY <1>1, <1>2, <1>3
  <2>3. u # w
    BY <1>3, <1>5, <2>1, <2>2
  <2> QED
    BY <1>3, <2>1, <2>2, <2>3
<1>6. ListOK(l2, E)
  BY <1>2, <1>5 DEF ListOK
<1>7. IsAt(l2, p, m)
  <2>1. CASE p = n
    <3>1. m = ListHead
      BY <1>1, <1>4, <2>1 DEF IsAt, n
    <3> QED
      BY <1>1, <1>2, <2>1, <3>1 DEF IsAt
  <2>2. CASE p # n
    <3>1. p \in 1 .. n - 1 /\ ~(p < p) /\ p # n - 1 + 1
      BY <1>1, <1>3, <2>2
    <3>2. l2[p] = l[p + 1]
      BY <1>2, <3>1
    <3>3. l[p + 1].id = m
      BY <1>1, <1>3, <1>4, <2>2 DEF IsAt, n
    <3> QED
      BY <1>2, <3>1, <3>2, <3>3 DEF IsAt
  <2> QED
    BY <2>1, <2>2
<1>8. ASSUME NEW i \in 1 .. n - 1, i < p PROVE Apart(l2[i], b, k)
  <2>1. l2[i] = l[i] /\ i \in 1 .. n
    BY <1>1, <1>2, <1>8
  <2> QED
    BY <1>4, <1>8, <2>1 DEF Before, n
<1>9. p \in 1 .. Len(l2) + 1
  BY <1>1, <1>2, <1>3
<1>10. Passed(l2, m, b, k)
  BY <1>2, <1>7, <1>8, <1>9 DEF Passed
<1>11. ASSUME NEW x \in Int, Has(l2, x) PROVE Has(l, x)
  <2>1. PICK i \in 1 .. n - 1 : l2[i].base <= x /\ x <= l2[i].limit
    BY <1>2, <1>11 DEF Has
  <2>2. PICK u \in 1 .. n : l2[i] = l[u]
    BY <1>1, <1>2, <1>3
  <2> QED
    BY <2>1, <2>2 DEF Has, n
<1>12. ASSUME NEW x \in Int, Has(l, x) PROVE Has(l2, x) \/ (l[p].base <= x /\ x <= l[p].limit)
  <2>1. PICK i \in 1 .. n : l[i].base <= x /\ x <= l[i].limit
    BY <1>12 DEF Has, n
  <2>2. CASE i < p
    <3>1. i \in 1 .. n - 1 /\ l2[i] = l[i]
      BY <1>1, <1>2, <1>3, <2>2
    <3> QED
      BY <1>2, <2>1, <3>1 DEF Has
  <2>3. CASE i > p
    <3>1. i - 1 \in 1 .. n - 1 /\ ~(i - 1 < p) /\ i - 1 + 1 = i
      BY <1>1, <1>3, <2>3
    <3>2. l2[i - 1] = l[i]
      BY <1>2, <3>1
    <3> QED
      BY <1>2, <2>1, <3>1, <3>2 DEF Has
  <2> QED
    BY <1>3, <2>1, <2>2, <2>3
<1> QED
  BY <1>6, <1>10, <1>11, <1>12

-----------------------------------------------------------------------------
(* What the firmware describes.                                            *)
LEMMA Described ==
    ASSUME NEW others \in Reservations, NEW t, t = ToReserve(others)
    PROVE  /\ Nodes \in Seq(Nat \X Nat) /\ t \in Seq(Nat \X Nat)
           /\ \A i \in 1 .. Len(Nodes) : Nodes[i] \in ToSet(Nodes) /\ Nodes[i][1] < Nodes[i][2]
           /\ \A i \in 1 .. Len(t) : t[i] \in ToSet(t) /\ t[i][1] < t[i][2]
<1>1. Nodes \in Seq(Nat \X Nat) /\ Image \in Nat \X Nat /\ Vectors \in Nat \X Nat /\ others \in Seq(Nat \X Nat)
  BY FirmwareAssumption
<1>2. FdtRemoved \in Nat \X Nat
  <2>1. Fdt.base \in Nat /\ Fdt.size_dt_struct \in Nat /\ Fdt.size_dt_struct # 0
    BY FirmwareAssumption
  <2>2. Fdt.base + Fdt.size_dt_struct - 1 \in Nat
    BY <2>1
  <2> QED
    BY <2>1, <2>2 DEF FdtRemoved
<1>3. <<Image, Vectors, FdtRemoved>> \in Seq(Nat \X Nat)
  BY <1>1, <1>2
<1>4. t \in Seq(Nat \X Nat)
  BY <1>1, <1>3, ConcatFacts DEF ToReserve
<1>5. /\ \A i \in 1 .. Len(Nodes) : Nodes[i] \in ToSet(Nodes)
      /\ \A i \in 1 .. Len(t) : t[i] \in ToSet(t)
  <2>1. DOMAIN Nodes = 1 .. Len(Nodes) /\ DOMAIN t = 1 .. Len(t)
    BY <1>1, <1>4
  <2> QED
    BY <2>1, Zenon DEF ToSet
<1>6. \A c \in ToSet(Nodes) \cup ToSet(t) : c[1] < c[2]
  BY FirmwareAssumption
<1> QED
  BY <1>1, <1>4, <1>5, <1>6

-----------------------------------------------------------------------------
(* The running call.                                                       *)
LEMMA TopFacts ==
    ASSUME NEW E, Inv(E), Running, NEW f, f = Top
    PROVE  /\ ListOK(list, E) /\ StackOK(stack, list, mem_early, E) /\ mem_early \in BOOLEAN
           /\ Core(list, stack, mem_early, taken, reserved, Added, E)
           /\ stack # <<>> /\ f = stack[Len(stack)] /\ FrameOK(f, list, E) /\ f \in FrameSet
           /\ f.base \in Int /\ f.limit \in Int /\ Clear(f.base, E) /\ f.limit + 1 \in E /\ f.base < f.limit
           /\ ~mem_early => PagesOK(f, list)
           /\ mem_early => Len(stack) <= 1
<1>1. /\ Core(list, stack, mem_early, taken, reserved, Added, E) /\ mem_early \in BOOLEAN
      /\ stack # <<>> /\ f = stack[Len(stack)]
  BY DEF Inv, BootOK, Running, Top
<1>2. ListOK(list, E) /\ StackOK(stack, list, mem_early, E)
  BY <1>1 DEF Core
<1>3. stack \in Seq(FrameSet)
  BY <1>2, StackFacts
<1>4. Len(stack) \in 1 .. Len(stack)
  BY <1>1, <1>3
<1>5. /\ FrameOK(f, list, E) /\ (~mem_early => PagesOK(f, list))
      /\ (mem_early => Len(stack) <= 1)
  BY <1>1, <1>2, <1>4 DEF StackOK
<1>6. /\ f \in FrameSet /\ Clear(f.base, E) /\ f.limit + 1 \in E /\ f.base < f.limit
  BY <1>5 DEF FrameOK
<1> QED
  BY <1>1, <1>2, <1>5, <1>6 DEF FrameSet

(* The waiting calls when the list does not change.                        *)
LEMMA LowerSame ==
    ASSUME NEW E, NEW l, NEW s, NEW early, StackOK(s, l, early, E)
    PROVE  LowerOK(s, l, early, E)
BY DEF StackOK, LowerOK

(* The waiting calls when there are none.                                  *)
LEMMA LowerNone ==
    ASSUME NEW E, NEW l, NEW s, NEW early, StackOK(s, l, early, E), Len(s) <= 1, NEW l2
    PROVE  LowerOK(s, l2, early, E)
<1>1. Len(s) \in Nat
  BY StackFacts
<1>2. \A i \in 1 .. Len(s) : ~(i < Len(s))
  BY <1>1
<1> QED
  BY <1>2 DEF LowerOK

(* The waiting calls when a range is trimmed.                              *)
LEMMA LowerShrunk ==
    ASSUME NEW E, NEW l, ListOK(l, E), NEW s, NEW early, StackOK(s, l, early, E),
           NEW l2, ListOK(l2, E), Shrunk(l2, l)
    PROVE  LowerOK(s, l2, early, E)
<1>1. ASSUME NEW i \in 1 .. Len(s), i < Len(s) PROVE FrameOK(s[i], l2, E) /\ (~early => PagesOK(s[i], l2))
  <2>1. FrameOK(s[i], l, E) /\ s[i].node # "none" /\ (~early => PagesOK(s[i], l))
    BY <1>1 DEF StackOK
  <2> QED
    BY <2>1, WaitsShrunk
<1> QED
  BY <1>1 DEF LowerOK

(* What leaves the list is what the call removes.                          *)
Drains(s, l, f, l2) ==
    /\ \A x \in Int : Has(l2, x) => Free(x, l, s)
    /\ \A x \in Int : Has(l, x) \/ Side(x, f) => Has(l2, x) \/ Spot(x, f)

(* The invariant after a round that ends.                                  *)
LEMMA Ends ==
    ASSUME NEW E, Inv(E), Running, NEW f, f = Top, NEW l2, ListOK(l2, E), Passed(l2, f.n, f.base, f.limit),
           EndRound(l2), LowerOK(stack, l2, mem_early, E), Drains(stack, list, f, l2),
           ~mem_early => AllApart(l2, f.base, f.limit) \/ Whole(l2, f.base, f.limit)
    PROVE  Core(list', stack', mem_early, taken, reserved, Added, E) /\ halt' = halt
<1>1. /\ Core(list, stack, mem_early, taken, reserved, Added, E) /\ mem_early \in BOOLEAN
      /\ stack # <<>> /\ f = stack[Len(stack)] /\ f \in FrameSet
      /\ Clear(f.base, E) /\ f.limit + 1 \in E /\ f.base < f.limit /\ (~mem_early => PagesOK(f, list))
  BY TopFacts
<1>2. PICK g : g = Advance(l2, f)
  OBVIOUS
<1>3. InList(l2, f.n) /\ FrameOK(g, l2, E) /\ SameCall(g, f) /\ g.node = "none"
  BY <1>1, <1>2, Advances
<1>4. PICK s2 : s2 = ReplaceAt(stack, Len(stack), g)
  OBVIOUS
<1>5. list' = l2 /\ stack' = s2 /\ halt' = halt
  BY <1>2, <1>3, <1>4 DEF EndRound
<1>6. ~mem_early => PagesOK(g, l2)
  BY <1>1, <1>3 DEF PagesOK, SameCall
<1>7. \A x \in Int : ~Side(x, g)
  BY <1>3 DEF Side
<1>8. SideNew(stack, list, g, mem_early)
  BY <1>7 DEF SideNew
<1>9. Flow(stack, list, f, l2, g)
  BY DEF Flow, Drains
<1>10. Core(l2, s2, mem_early, taken, reserved, Added, E)
  BY <1>1, <1>3, <1>4, <1>6, <1>8, <1>9, Moved
<1> QED
  BY <1>5, <1>10

(* The range that the loop is at.                                          *)
LEMMA AtTop ==
    ASSUME NEW E, Inv(E), Running, NEW f, f = Top, f.node = "none", f.cur # ListHead, NEW p, p = At(f.cur)
    PROVE  /\ p \in 1 .. Len(list) /\ list[p].id = f.cur
           /\ Before(list, p, f.base, f.limit) /\ IsAt(list, p + 1, f.n)
<1>1. ListOK(list, E) /\ FrameOK(f, list, E)
  BY TopFacts
<1>2. Passed(list, f.cur, f.base, f.limit) /\ f.n = NextOf(list, f.cur)
  BY <1>1 DEF FrameOK, Searches
<1>3. PICK q \in 1 .. Len(list) + 1 :
        IsAt(list, q, f.cur) /\ \A i \in 1 .. Len(list) : i < q => Apart(list[i], f.base, f.limit)
  BY <1>2 DEF Passed
<1>4. q \in 1 .. Len(list) /\ list[q].id = f.cur
  BY <1>1, <1>3, ListFacts DEF IsAt
<1>5. p = q
  BY <1>1, <1>4, ChosenAt DEF At
<1>6. IsAt(list, q + 1, f.n)
  BY <1>1, <1>2, <1>4, NextFacts
<1> QED
  BY <1>3, <1>4, <1>5, <1>6 DEF Before

(* A call of mem_get_pages finds its pages in the range it does not skip.  *)
LEMMA PagesHere ==
    ASSUME NEW E, Inv(E), Running, ~mem_early, NEW f, f = Top,
           NEW p \in 1 .. Len(list), ~Apart(list[p], f.base, f.limit)
    PROVE  list[p].base <= f.base /\ f.limit < list[p].limit
<1>1. ListOK(list, E) /\ PagesOK(f, list) /\ f.base \in Int /\ f.limit \in Int
  BY TopFacts
<1>2. ~AllApart(list, f.base, f.limit)
  BY DEF AllApart
<1>3. Whole(list, f.base, f.limit)
  BY <1>1, <1>2 DEF PagesOK
<1> QED
  BY <1>1, <1>3, WholeHere

(* What is in the list is free.                                            *)
LEMMA HasIsFree == ASSUME NEW l, NEW s, NEW x, Has(l, x) PROVE Free(x, l, s)
BY DEF Free

(* A round that skips its range.                                           *)
LEMMA SkipStep ==
    ASSUME NEW E, Inv(E), Running, NEW f, f = Top, f.node = "none", f.cur # ListHead, NEW p, p = At(f.cur),
           Apart(list[p], f.base, f.limit), EndRound(list)
    PROVE  Core(list', stack', mem_early, taken, reserved, Added, E) /\ halt' = halt
<1>1. /\ ListOK(list, E) /\ StackOK(stack, list, mem_early, E) /\ (~mem_early => PagesOK(f, list))
      /\ f.base \in Int /\ f.limit \in Int
  BY TopFacts
<1>2. p \in 1 .. Len(list) /\ Before(list, p, f.base, f.limit) /\ IsAt(list, p + 1, f.n)
  BY AtTop
<1>3. Shrunk(list, list)
  <2>1. \A i \in 1 .. Len(list) : list[i].base \in Int /\ list[i].limit \in Int
    BY <1>1, ListFacts
  <2> QED
    BY <2>1 DEF Shrunk
<1>4. Passed(list, f.n, f.base, f.limit)
  BY <1>1, <1>2, <1>3, PassOn
<1>5. LowerOK(stack, list, mem_early, E)
  BY <1>1, LowerSame
<1>6. Drains(stack, list, f, list)
  BY DEF Drains, Free, Side
<1>7. ~mem_early => AllApart(list, f.base, f.limit) \/ Whole(list, f.base, f.limit)
  BY <1>1 DEF PagesOK
<1> QED
  BY <1>1, <1>4, <1>5, <1>6, <1>7, Ends

(* A round that deletes its range, which only mem_init's calls do.         *)
LEMMA DeleteStep ==
    ASSUME NEW E, Inv(E), Running, NEW f, f = Top, f.node = "none", f.cur # ListHead, NEW p, p = At(f.cur),
           f.base <= list[p].base, list[p].limit <= f.limit, EndRound(RemoveAt(list, p))
    PROVE  Core(list', stack', mem_early, taken, reserved, Added, E) /\ halt' = halt
<1>1. /\ ListOK(list, E) /\ StackOK(stack, list, mem_early, E) /\ (mem_early => Len(stack) <= 1)
      /\ f.base \in Int /\ f.limit \in Int
  BY TopFacts
<1>2. p \in 1 .. Len(list) /\ Before(list, p, f.base, f.limit) /\ IsAt(list, p + 1, f.n)
  BY AtTop
<1>3. list[p].base \in Int /\ list[p].limit \in Int /\ list[p].base <= list[p].limit
  BY <1>1, <1>2, ListFacts
<1>4. mem_early
  <2> SUFFICES ASSUME ~mem_early PROVE FALSE
    OBVIOUS
  <2>1. ~Apart(list[p], f.base, f.limit)
    BY <1>1, <1>3 DEF Apart
  <2>2. f.limit < list[p].limit
    BY <1>2, <2>1, PagesHere
  <2> QED
    BY <1>1, <1>3, <2>2
<1>5. PICK l2 : l2 = RemoveAt(list, p)
  OBVIOUS
<1>6. /\ ListOK(l2, E) /\ Passed(l2, f.n, f.base, f.limit)
      /\ \A x \in Int : Has(l2, x) => Has(list, x)
      /\ \A x \in Int : Has(list, x) => Has(l2, x) \/ (list[p].base <= x /\ x <= list[p].limit)
  BY <1>1, <1>2, <1>5, Deletes
<1>7. LowerOK(stack, l2, mem_early, E)
  BY <1>1, <1>4, LowerNone
<1>8. ASSUME NEW x \in Int, list[p].base <= x, x <= list[p].limit PROVE Spot(x, f)
  BY <1>1, <1>3, <1>8 DEF Spot
<1>9. Drains(stack, list, f, l2)
  BY <1>6, <1>8 DEF Drains, Free, Side
<1> QED
  BY <1>4, <1>5, <1>6, <1>7, <1>9, Ends

(* A round that trims the base.                                            *)
LEMMA TrimBaseStep ==
    ASSUME NEW E, Inv(E), Running, NEW f, f = Top, f.node = "none", f.cur # ListHead, NEW p, p = At(f.cur),
           f.base <= list[p].base, list[p].base <= f.limit, f.limit < list[p].limit,
           EndRound(ReplaceAt(list, p, CutRight(list[p], f.limit)))
    PROVE  Core(list', stack', mem_early, taken, reserved, Added, E) /\ halt' = halt
<1>1. /\ ListOK(list, E) /\ StackOK(stack, list, mem_early, E)
      /\ f.base \in Int /\ f.limit \in Int /\ f.limit + 1 \in E
  BY TopFacts
<1>2. p \in 1 .. Len(list) /\ Before(list, p, f.base, f.limit) /\ IsAt(list, p + 1, f.n)
  BY AtTop
<1>3. list[p].base \in Int /\ list[p].limit \in Int
  BY <1>1, <1>2, ListFacts
<1>4. PICK e : e = CutRight(list[p], f.limit)
  OBVIOUS
<1>5. PICK l2 : l2 = ReplaceAt(list, p, e)
  OBVIOUS
<1>6. /\ ListOK(l2, E) /\ Shrunk(l2, list) /\ Replaced(l2, list, p, e)
      /\ e.base = f.limit + 1 /\ e.limit = list[p].limit
  BY <1>1, <1>2, <1>4, <1>5, RightStays
<1>7. Apart(e, f.base, f.limit) /\ l2[p] = e
  BY <1>1, <1>6 DEF Apart, Replaced
<1>8. Passed(l2, f.n, f.base, f.limit)
  BY <1>1, <1>2, <1>6, <1>7, PassOn
<1>9. LowerOK(stack, l2, mem_early, E)
  BY <1>1, <1>6, LowerShrunk
<1>10. ASSUME NEW x \in Int, Has(list, x) PROVE Has(l2, x) \/ Spot(x, f)
  <2>1. Has(l2, x) \/ (list[p].base <= x /\ x <= list[p].limit /\ ~(e.base <= x /\ x <= e.limit))
    BY <1>2, <1>6, <1>10, ReplacedHas
  <2> QED
    BY <1>1, <1>3, <1>6, <2>1 DEF Spot
<1>11. Drains(stack, list, f, l2)
  <2>1. \A x \in Int : Has(l2, x) => Has(list, x)
    BY <1>1, <1>6, ShrunkHas
  <2> QED
    BY <1>10, <2>1 DEF Drains, Free, Side
<1>12. ~mem_early => AllApart(l2, f.base, f.limit)
  <2> SUFFICES ASSUME ~mem_early PROVE AllApart(l2, f.base, f.limit)
    OBVIOUS
  <2>1. ~Apart(list[p], f.base, f.limit)
    BY <1>1, <1>3 DEF Apart
  <2>2. list[p].base <= f.base /\ f.limit <= list[p].limit
    BY <1>1, <1>2, <1>3, <2>1, PagesHere
  <2> QED
    BY <1>1, <1>2, <1>6, <1>7, <2>2, ReplacedApart
<1> QED
  BY <1>4, <1>5, <1>6, <1>8, <1>9, <1>11, <1>12, Ends

(* A round that trims the limit, which only mem_init's calls do.           *)
LEMMA TrimLimitStep ==
    ASSUME NEW E, Inv(E), Running, NEW f, f = Top, f.node = "none", f.cur # ListHead, NEW p, p = At(f.cur),
           list[p].base < f.base, f.base <= list[p].limit, list[p].limit <= f.limit,
           EndRound(ReplaceAt(list, p, CutLeft(list[p], f.base)))
    PROVE  Core(list', stack', mem_early, taken, reserved, Added, E) /\ halt' = halt
<1>1. /\ ListOK(list, E) /\ StackOK(stack, list, mem_early, E)
      /\ f.base \in Int /\ f.limit \in Int
  BY TopFacts
<1>2. p \in 1 .. Len(list) /\ Before(list, p, f.base, f.limit) /\ IsAt(list, p + 1, f.n)
  BY AtTop
<1>3. list[p].base \in Int /\ list[p].limit \in Int
  BY <1>1, <1>2, ListFacts
<1>4. PICK e : e = CutLeft(list[p], f.base)
  OBVIOUS
<1>5. PICK l2 : l2 = ReplaceAt(list, p, e)
  OBVIOUS
<1>6. /\ ListOK(l2, E) /\ Shrunk(l2, list) /\ Replaced(l2, list, p, e)
      /\ e.base = list[p].base /\ e.limit = f.base - 1
  BY <1>1, <1>2, <1>4, <1>5, LeftStays
<1>7. Apart(e, f.base, f.limit) /\ l2[p] = e
  BY <1>1, <1>6 DEF Apart, Replaced
<1>8. Passed(l2, f.n, f.base, f.limit)
  BY <1>1, <1>2, <1>6, <1>7, PassOn
<1>9. LowerOK(stack, l2, mem_early, E)
  BY <1>1, <1>6, LowerShrunk
<1>10. ASSUME NEW x \in Int, Has(list, x) PROVE Has(l2, x) \/ Spot(x, f)
  <2>1. Has(l2, x) \/ (list[p].base <= x /\ x <= list[p].limit /\ ~(e.base <= x /\ x <= e.limit))
    BY <1>2, <1>6, <1>10, ReplacedHas
  <2> QED
    BY <1>1, <1>3, <1>6, <2>1 DEF Spot
<1>11. Drains(stack, list, f, l2)
  <2>1. \A x \in Int : Has(l2, x) => Has(list, x)
    BY <1>1, <1>6, ShrunkHas
  <2> QED
    BY <1>10, <2>1 DEF Drains, Free, Side
<1>12. mem_early
  <2> SUFFICES ASSUME ~mem_early PROVE FALSE
    OBVIOUS
  <2>1. ~Apart(list[p], f.base, f.limit)
    BY <1>1, <1>3 DEF Apart
  <2>2. f.limit < list[p].limit
    BY <1>2, <2>1, PagesHere
  <2> QED
    BY <1>1, <1>3, <2>2
<1> QED
  BY <1>4, <1>5, <1>6, <1>8, <1>9, <1>11, <1>12, Ends

(* The numbers of a split: the interval b .. k within a .. d.              *)
LEMMA SplitNumbers ==
    ASSUME NEW a \in Int, NEW b \in Int, NEW k \in Int, NEW d \in Int, a < b, b < k, k < d
    PROVE  /\ a <= k /\ a <= b /\ k <= d /\ a <= a
           /\ b - 1 \in Int /\ b - 1 <= d /\ b - 1 < k + 1
OBVIOUS

(* Where the addresses of a split range go.                                *)
LEMMA SplitParts ==
    ASSUME NEW a \in Int, NEW b \in Int, NEW k \in Int, NEW d \in Int, a < b, b < k, k < d, NEW x \in Int
    PROVE  /\ a <= x /\ x <= b - 1 => x <= d
           /\ a <= x /\ x <= d /\ ~(k + 1 <= x /\ x <= d) => (a <= x /\ x <= b - 1) \/ (b <= x /\ x <= k)
OBVIOUS

(* A round that splits its range and has to wait for a node.               *)
LEMMA SplitStep ==
    ASSUME NEW E, Inv(E), Running, NEW f, f = Top, f.node = "none", f.cur # ListHead,
           NEW p, p = At(f.cur), list[p].base < f.base, f.limit < list[p].limit,
           list' = ReplaceAt(list, p, CutRight(list[p], f.limit)),
           stack' = ReplaceAt(stack, Len(stack), [f EXCEPT !.left = <<list[p].base, f.base - 1>>, !.node = "wanted"])
    PROVE  Core(list', stack', mem_early, taken, reserved, Added, E)
<1>1. /\ ListOK(list, E) /\ StackOK(stack, list, mem_early, E) /\ mem_early \in BOOLEAN
      /\ Core(list, stack, mem_early, taken, reserved, Added, E)
      /\ stack # <<>> /\ f = stack[Len(stack)] /\ f \in FrameSet
      /\ f.base \in Int /\ f.limit \in Int /\ Clear(f.base, E) /\ f.limit + 1 \in E /\ f.base < f.limit
      /\ (~mem_early => PagesOK(f, list))
  BY TopFacts
<1>2. /\ p \in 1 .. Len(list) /\ list[p].id = f.cur
      /\ Before(list, p, f.base, f.limit) /\ IsAt(list, p + 1, f.n)
  BY AtTop
<1>3. list[p].base \in Int /\ list[p].limit \in Int /\ list[p].base \in E
  BY <1>1, <1>2, ListFacts
<1>4. PICK e : e = CutRight(list[p], f.limit)
  OBVIOUS
<1>5. PICK l2 : l2 = ReplaceAt(list, p, e)
  OBVIOUS
<1>6. /\ ListOK(l2, E) /\ Shrunk(l2, list) /\ Replaced(l2, list, p, e)
      /\ e.base = f.limit + 1 /\ e.limit = list[p].limit
  <2>1. list[p].base <= f.limit
    BY <1>1, <1>3
  <2>2. f.limit \in Int /\ f.limit + 1 \in E /\ ListOK(list, E) /\ p \in 1 .. Len(list)
    BY <1>1, <1>2
  <2> QED
    BY <1>4, <1>5, <2>1, <2>2, RightStays
<1>7. Apart(e, f.base, f.limit) /\ l2[p] = e
  BY <1>1, <1>6 DEF Apart, Replaced
<1>8. Passed(l2, f.n, f.base, f.limit)
  BY <1>1, <1>2, <1>6, <1>7, PassOn
<1>9. LowerOK(stack, l2, mem_early, E)
  BY <1>1, <1>6, LowerShrunk
<1>10. PICK a, c : a = list[p].base /\ c = <<a, f.base - 1>>
  OBVIOUS
<1>11. PICK g : g = [f EXCEPT !.left = c, !.node = "wanted"]
  OBVIOUS
<1>12. a \in Int /\ a \in E /\ a + 1 < f.base /\ c \in Int \X Int /\ c[1] = a /\ c[2] = f.base - 1
  <2>1. a \in Int /\ a \in E /\ a < f.base
    BY <1>3, <1>10
  <2>2. a + 1 < f.base
    BY <1>1, <2>1 DEF Clear
  <2> QED
    BY <1>1, <1>10, <2>1, <2>2
<1>13. /\ g \in FrameSet /\ SameCall(g, f) /\ g.left = c /\ g.node = "wanted"
       /\ g.cur = f.cur /\ g.n = f.n
  BY <1>1, <1>11, <1>12 DEF FrameSet, SameCall
<1>14. \A x \in Int : Side(x, g) <=> a <= x /\ x <= f.base - 1
  BY <1>12, <1>13 DEF Side, In
<1>15. AllApart(l2, f.base, f.limit)
  <2>1. list[p].base <= f.base /\ f.limit <= list[p].limit
    BY <1>1, <1>3
  <2> QED
    BY <1>1, <1>2, <1>6, <1>7, <2>1, ReplacedApart
<1>16. ASSUME NEW x \in Int, a <= x, x <= f.base - 1 PROVE Has(list, x) /\ ~Has(l2, x)
  <2>1. list[p].base <= x /\ x <= list[p].limit
    <3>1. a \in Int /\ list[p].limit \in Int /\ a < f.base /\ f.base < f.limit /\ f.limit < list[p].limit
      BY <1>1, <1>3, <1>10
    <3>2. x <= list[p].limit
      BY <1>1, <1>16, <3>1, SplitParts
    <3> QED
      BY <1>10, <1>16, <3>2
  <2>2. Has(list, x)
    BY <1>2, <2>1 DEF Has
  <2>3. Apart(e, a, f.base - 1) /\ f.base - 1 \in Int /\ list[p].base <= a /\ f.base - 1 <= list[p].limit
    <3>1. a \in Int /\ list[p].limit \in Int /\ a < f.base /\ f.base < f.limit /\ f.limit < list[p].limit
      BY <1>1, <1>3, <1>10
    <3>2. f.base - 1 \in Int /\ f.base - 1 <= list[p].limit /\ f.base - 1 < f.limit + 1 /\ a <= a
      BY <1>1, <3>1, SplitNumbers
    <3> QED
      BY <1>6, <1>10, <3>2 DEF Apart
  <2>4. AllApart(l2, a, f.base - 1)
    BY <1>1, <1>2, <1>6, <1>12, <2>3, ReplacedApart
  <2>5. ~Has(l2, x)
    BY <1>6, <1>12, <1>16, <2>3, <2>4, ApartHas
  <2> QED
    BY <2>2, <2>5
<1>17. FrameOK(g, l2, E)
  <2>1. InList(list, f.cur)
    BY <1>1, <1>2, ListFacts DEF InList
  <2>2. InList(l2, f.cur)
    BY <1>1, <1>6, <2>1, ShrunkLive
  <2>3. \A x \in Int : In(x, g.left) => ~Has(l2, x)
    BY <1>12, <1>13, <1>16 DEF In
  <2>4. c[1] < c[2]
    BY <1>1, <1>12
  <2>5. Waits(g, l2, E)
    BY <1>8, <1>12, <1>13, <2>2, <2>3, <2>4 DEF Waits, SameCall
  <2> QED
    BY <1>1, <1>13, <2>5 DEF FrameOK, SameCall
<1>18. ~mem_early => PagesOK(g, l2)
  BY <1>1, <1>13, <1>15 DEF PagesOK, SameCall
<1>19. SideNew(stack, list, g, mem_early)
  <2>1. ASSUME NEW x \in Int, Side(x, g) PROVE Has(list, x)
    BY <1>14, <1>16, <2>1
  <2>2. ASSUME NEW x \in Int, Side(x, g), NEW i \in 1 .. Len(stack), i < Len(stack)
        PROVE  ~Side(x, stack[i]) /\ (~mem_early => ~Spot(x, stack[i]))
    <3>1. FrameOK(stack[i], list, E) /\ stack[i].node # "none" /\ (~mem_early => PagesOK(stack[i], list))
      BY <1>1, <2>2 DEF StackOK
    <3> QED
      BY <1>1, <2>1, <2>2, <3>1, WaitingOff
  <2> QED
    BY <2>1, <2>2, HasIsFree DEF SideNew
<1>20. Flow(stack, list, f, l2, g)
  <2>1. \A x \in Int : Has(l2, x) => Free(x, list, stack)
    BY <1>1, <1>6, ShrunkHas, HasIsFree
  <2>2. ASSUME NEW x \in Int, Has(list, x) PROVE Has(l2, x) \/ Side(x, g) \/ Spot(x, f)
    <3>1. Has(l2, x) \/ (list[p].base <= x /\ x <= list[p].limit /\ ~(e.base <= x /\ x <= e.limit))
      BY <1>2, <1>6, <2>2, ReplacedHas
    <3>2. a \in Int /\ list[p].limit \in Int /\ a < f.base /\ f.base < f.limit /\ f.limit < list[p].limit
      BY <1>1, <1>3, <1>10
    <3>3. \/ Has(l2, x)
          \/ a <= x /\ x <= list[p].limit /\ ~(f.limit + 1 <= x /\ x <= list[p].limit)
      BY <1>6, <1>10, <3>1
    <3>4. Has(l2, x) \/ (a <= x /\ x <= f.base - 1) \/ (f.base <= x /\ x <= f.limit)
      BY <1>1, <3>2, <3>3, SplitParts
    <3> QED
      BY <1>14, <3>4 DEF Spot
  <2> QED
    BY <2>1, <2>2 DEF Flow, Side
<1>21. PICK s2 : s2 = ReplaceAt(stack, Len(stack), g)
  OBVIOUS
<1>22. list' = l2 /\ stack' = s2
  BY <1>4, <1>5, <1>10, <1>11, <1>21
<1>23. Core(l2, s2, mem_early, taken, reserved, Added, E)
  BY <1>1, <1>6, <1>9, <1>13, <1>17, <1>18, <1>19, <1>20, <1>21, Moved
<1> QED
  BY <1>22, <1>23

-----------------------------------------------------------------------------
(* What is left of the invariant once the memory nodes are in.             *)
LEMMA Boots ==
    ASSUME NEW E, Inv(E), nodes = <<>>, nodes' = nodes, mem_early' \in BOOLEAN, NEW E2, resv' \in Seq(Pieces(E2)),
           Core(list', stack', mem_early', taken', reserved', Added, E2), halt' \in {"no", "null", "early"},
           sbrk' \in 0 .. EarlyChunks \/ (sbrk' = EarlyChunks + 1 /\ halt' = "early")
    PROVE  Inv(E2)'
<1>1. BootOK(E)
  BY DEF Inv
<1>2. Added' = Added
  BY DEF Added
<1>3. BootOK(E2)'
  <2>1. nodes' \in Seq(Nat \X Nat) /\ Len(nodes') <= Len(Nodes)
    BY <1>1 DEF BootOK
  <2>2. \A j \in 1 .. Len(nodes') : nodes'[j] = Nodes[Added' + j]
    BY <1>1, <1>2 DEF BootOK
  <2> QED
    BY <2>1, <2>2 DEF BootOK
<1>4. HaltOK'
  BY DEF HaltOK
<1>5. Core(list', stack', mem_early', taken', reserved', Added', E2)
  BY <1>2
<1> QED
  BY <1>3, <1>4, <1>5 DEF Inv

(* The steps that run while a call is active come after the memory nodes.  *)
LEMMA Resumes ==
    ASSUME NEW E, Inv(E), Running, Core(list', stack', mem_early, taken', reserved', Added, E),
           UNCHANGED <<mem_early, nodes, resv>>, halt' \in {"no", "null", "early"},
           sbrk' \in 0 .. EarlyChunks \/ (sbrk' = EarlyChunks + 1 /\ halt' = "early")
    PROVE  Inv(E)'
<1>1. nodes = <<>> /\ mem_early \in BOOLEAN /\ resv \in Seq(Pieces(E))
  BY DEF Inv, BootOK, Running
<1>2. nodes' = nodes /\ mem_early' = mem_early /\ resv' = resv
  OBVIOUS
<1>3. Core(list', stack', mem_early', taken', reserved', Added, E)
  BY <1>2
<1> QED
  BY <1>1, <1>2, <1>3, Boots

(* A round of range_remove.                                                *)
LEMMA RoundKeeps == ASSUME NEW E, Inv(E), Round PROVE Inv(E)'
<1>1. /\ Running /\ Top.node = "none" /\ Top.cur # ListHead
      /\ UNCHANGED <<mem_early, sbrk, nodes, resv, reserved, taken>>
  BY DEF Round, boot
<1>2. PICK f, p : f = Top /\ p = At(f.cur)
  OBVIOUS
<1>3. f.node = "none" /\ f.cur # ListHead
  BY <1>1, <1>2
<1>4. PICK r : r = list[p]
  OBVIOUS
<1>5. \/ Cut(r, f.base, f.limit) = "skip" /\ EndRound(list)
      \/ Cut(r, f.base, f.limit) = "delete" /\ EndRound(RemoveAt(list, p))
      \/ Cut(r, f.base, f.limit) = "trim_base" /\ EndRound(ReplaceAt(list, p, CutRight(r, f.limit)))
      \/ Cut(r, f.base, f.limit) = "trim_limit" /\ EndRound(ReplaceAt(list, p, CutLeft(r, f.base)))
      \/ /\ Cut(r, f.base, f.limit) = "split"
         /\ list' = ReplaceAt(list, p, CutRight(r, f.limit))
         /\ stack' = ReplaceAt(stack, Len(stack), [f EXCEPT !.left = <<r.base, f.base - 1>>, !.node = "wanted"])
         /\ halt' = halt
  BY <1>2, <1>4 DEF Round
<1>6. ListOK(list, E) /\ f.base \in Int /\ f.limit \in Int /\ f.base < f.limit
  BY <1>1, <1>2, TopFacts
<1>7. p \in 1 .. Len(list)
  BY <1>1, <1>2, <1>3, AtTop
<1>8. r.base \in Int /\ r.limit \in Int /\ r.base <= r.limit
  BY <1>4, <1>6, <1>7, ListFacts
<1>9. \/ Cut(r, f.base, f.limit) = "skip" /\ Apart(r, f.base, f.limit)
      \/ Cut(r, f.base, f.limit) = "delete" /\ f.base <= r.base /\ r.limit <= f.limit
      \/ Cut(r, f.base, f.limit) = "trim_base" /\ f.base <= r.base /\ r.base <= f.limit /\ f.limit < r.limit
      \/ Cut(r, f.base, f.limit) = "trim_limit" /\ r.base < f.base /\ f.base <= r.limit /\ r.limit <= f.limit
      \/ Cut(r, f.base, f.limit) = "split" /\ r.base < f.base /\ f.limit < r.limit
  BY <1>6, <1>8, Cuts
<1>10. Core(list', stack', mem_early, taken, reserved, Added, E) /\ halt' = halt
  <2>1. CASE Apart(r, f.base, f.limit) /\ EndRound(list)
    BY <1>1, <1>2, <1>3, <1>4, <2>1, SkipStep
  <2>2. CASE f.base <= r.base /\ r.limit <= f.limit /\ EndRound(RemoveAt(list, p))
    BY <1>1, <1>2, <1>3, <1>4, <2>2, DeleteStep
  <2>3. CASE /\ f.base <= r.base /\ r.base <= f.limit /\ f.limit < r.limit
             /\ EndRound(ReplaceAt(list, p, CutRight(r, f.limit)))
    BY <1>1, <1>2, <1>3, <1>4, <2>3, TrimBaseStep
  <2>4. CASE /\ r.base < f.base /\ f.base <= r.limit /\ r.limit <= f.limit
             /\ EndRound(ReplaceAt(list, p, CutLeft(r, f.base)))
    BY <1>1, <1>2, <1>3, <1>4, <2>4, TrimLimitStep
  <2>5. CASE /\ r.base < f.base /\ f.limit < r.limit /\ halt' = halt
             /\ list' = ReplaceAt(list, p, CutRight(r, f.limit))
             /\ stack' = ReplaceAt(stack, Len(stack), [f EXCEPT !.left = <<r.base, f.base - 1>>, !.node = "wanted"])
    BY <1>1, <1>2, <1>3, <1>4, <2>5, SplitStep
  <2> QED
    BY <1>5, <1>9, <2>1, <2>2, <2>3, <2>4, <2>5
<1>11. halt' = "no" /\ sbrk' \in 0 .. EarlyChunks
  BY <1>1, <1>10 DEF Running, Inv, BootOK
<1> QED
  BY <1>1, <1>10, <1>11, Resumes

(* range_add of the left part: it was free all along.                      *)
LEMMA LeftEntry ==
    ASSUME NEW E, Inv(E), Running, NEW f, f = Top, f.node # "none",
           NEW e, e = [id |-> FreshId, base |-> f.left[1], limit |-> f.left[2]]
    PROVE  /\ e \in Entries(E) /\ e.base < e.limit /\ Vacant(list, e) /\ Apart(e, f.base, f.limit)
           /\ \A x \in Int : e.base <= x /\ x <= e.limit <=> Side(x, f)
<1>1. ListOK(list, E) /\ FrameOK(f, list, E) /\ f.base \in Int /\ f.limit \in Int
  BY TopFacts
<1>2. /\ f.left \in Int \X Int /\ f.left[1] \in E /\ f.left[1] < f.left[2] /\ f.left[2] = f.base - 1
      /\ \A x \in Int : In(x, f.left) => ~Has(list, x)
  BY <1>1 DEF FrameOK, Waits
<1>3. FreshId \in Ids /\ \A i \in 1 .. Len(list) : list[i].id # FreshId
  BY <1>1, FreshFacts
<1>4. PICK a, b : a = f.left[1] /\ b = f.left[2]
  OBVIOUS
<1>5. a \in Int /\ b \in Int /\ a \in E /\ a < b /\ b = f.base - 1
  BY <1>2, <1>4
<1>6. e.id = FreshId /\ e.base = a /\ e.limit = b /\ e = [id |-> FreshId, base |-> a, limit |-> b]
  BY <1>4
<1>7. e \in Entries(E)
  BY <1>3, <1>5, <1>6 DEF Entries
<1>8. \A x \in Int : a <= x /\ x <= b <=> Side(x, f)
  BY <1>4 DEF Side, In
<1>9. Vacant(list, e)
  BY <1>2, <1>3, <1>6, <1>8 DEF Vacant, Side
<1>10. Apart(e, f.base, f.limit)
  BY <1>1, <1>5, <1>6 DEF Apart
<1> QED
  BY <1>5, <1>6, <1>7, <1>8, <1>9, <1>10

(* The waiting calls when the left part is linked.                         *)
LEMMA LowerInserted ==
    ASSUME NEW E, NEW l, ListOK(l, E), NEW s, s # <<>>, NEW early \in BOOLEAN, StackOK(s, l, early, E),
           FramesApart(s, early), NEW p \in 1 .. Len(l) + 1, NEW e \in Entries(E), e.base <= e.limit,
           NEW l2, ListOK(l2, E), Inserted(l2, l, p, e), NEW f, f = s[Len(s)],
           \A x \in Int : e.base <= x /\ x <= e.limit <=> Side(x, f)
    PROVE  LowerOK(s, l2, early, E)
<1>1. CASE early
  BY <1>1, LowerNone DEF StackOK
<1>2. CASE ~early
  <2>1. Len(s) \in 1 .. Len(s)
    <3>1. s \in Seq(FrameSet)
      BY StackFacts
    <3> QED
      BY <3>1
  <2>2. ASSUME NEW i \in 1 .. Len(s), i < Len(s) PROVE FrameOK(s[i], l2, E) /\ (~early => PagesOK(s[i], l2))
    <3>1. FrameOK(s[i], l, E) /\ s[i].node # "none" /\ (~early => PagesOK(s[i], l))
      BY <2>2 DEF StackOK
    <3>2. i # Len(s)
      BY <2>1, <2>2
    <3>3. ASSUME NEW x \in Int, Side(x, f) PROVE ~Side(x, s[i]) /\ ~Spot(x, s[i])
      BY <1>2, <2>1, <3>2, <3>3 DEF FramesApart
    <3>4. Off(e, s[i])
      BY <3>3 DEF Off
    <3> QED
      BY <3>1, <3>4, WaitsInserted
  <2> QED
    BY <2>2 DEF LowerOK
<1> QED
  BY <1>1, <1>2

(* mem_malloc returns a node and the left part is linked.                  *)
LEMMA AddLeftKeeps == ASSUME NEW E, Inv(E), AddLeft PROVE Inv(E)'
<1>1. /\ Running /\ Top.node \in {"wanted", "granted"}
      /\ UNCHANGED <<mem_early, sbrk, nodes, resv, reserved, taken>>
  BY DEF AddLeft, boot
<1>2. PICK f : f = Top
  OBVIOUS
<1>3. f.node # "none"
  BY <1>1, <1>2
<1>4. PICK e : e = [id |-> FreshId, base |-> f.left[1], limit |-> f.left[2]]
  OBVIOUS
<1>5. e.base = f.left[1] /\ e.limit = f.left[2]
  BY <1>4
<1>6. /\ e \in Entries(E) /\ e.base < e.limit /\ Vacant(list, e) /\ Apart(e, f.base, f.limit)
      /\ \A x \in Int : e.base <= x /\ x <= e.limit <=> Side(x, f)
  BY <1>1, <1>2, <1>3, <1>4, LeftEntry
<1>7. /\ ListOK(list, E) /\ StackOK(stack, list, mem_early, E) /\ mem_early \in BOOLEAN /\ stack # <<>>
      /\ f = stack[Len(stack)] /\ FrameOK(f, list, E) /\ (~mem_early => PagesOK(f, list))
  BY <1>1, <1>2, TopFacts
<1>8. PICK p : p = AddPosition(list, e.limit)
  OBVIOUS
<1>9. PICK l2 : l2 = InsertAt(list, p, e)
  OBVIOUS
<1>10. /\ ListOK(l2, E) /\ Inserted(l2, list, p, e) /\ p \in 1 .. Len(list) + 1
       /\ ~AddBug(list, e.base, e.limit)
  BY <1>6, <1>7, <1>8, <1>9, Links
<1>11. EndRound(l2)
  BY <1>2, <1>4, <1>5, <1>8, <1>9, <1>10 DEF AddLeft
<1>12. Passed(list, f.n, f.base, f.limit)
  BY <1>3, <1>7 DEF FrameOK, Waits
<1>13. Passed(l2, f.n, f.base, f.limit)
  BY <1>6, <1>7, <1>10, <1>12, InsertedPassed
<1>14. FramesApart(stack, mem_early)
  BY DEF Inv, Core
<1>15. e.base <= e.limit
  BY <1>6 DEF Entries
<1>16. LowerOK(stack, l2, mem_early, E)
  BY <1>6, <1>7, <1>10, <1>14, <1>15, LowerInserted
<1>17. Drains(stack, list, f, l2)
  <2>1. \A x \in Int : Has(l2, x) <=> Has(list, x) \/ Side(x, f)
    BY <1>6, <1>7, <1>10, InsertedHas
  <2>2. Len(stack) \in 1 .. Len(stack)
    <3>1. stack \in Seq(FrameSet)
      BY <1>7, StackFacts
    <3> QED
      BY <1>7, <3>1
  <2>3. \A x \in Int : Has(list, x) \/ Side(x, f) => Free(x, list, stack)
    BY <1>7, <2>2 DEF Free
  <2> QED
    BY <2>1, <2>3 DEF Drains
<1>18. ~mem_early => AllApart(l2, f.base, f.limit)
  <2>1. ~mem_early => AllApart(list, f.base, f.limit)
    BY <1>3, <1>7 DEF PagesOK
  <2> QED
    BY <1>6, <1>7, <1>10, <2>1, InsertedAllApart
<1>19. Core(list', stack', mem_early, taken, reserved, Added, E) /\ halt' = halt
  BY <1>1, <1>2, <1>10, <1>11, <1>13, <1>16, <1>17, <1>18, Ends
<1>20. halt' = "no" /\ sbrk' \in 0 .. EarlyChunks
  BY <1>1, <1>19 DEF Running, Inv, BootOK
<1> QED
  BY <1>1, <1>19, <1>20, Resumes

-----------------------------------------------------------------------------
(* mem_get_pages: whole pages of one range, and never its last.            *)
LEMMA AlignFacts ==
    ASSUME NEW x \in Int
    PROVE  /\ ALIGN(x) \in Int /\ ALIGN(x) <= x
           /\ ALIGN_UP(x) \in Int /\ x <= ALIGN_UP(x) /\ ALIGN_UP(x) \in Multiples(Page)
<1>1. Page \in Nat /\ Page > 0
  BY PageAssumption
<1>2. \A y \in Int : y % Page \in Int /\ 0 <= y % Page /\ y % Page < Page
  BY <1>1
<1>3. ALIGN(x) \in Int /\ ALIGN(x) <= x
  BY <1>2 DEF ALIGN
<1>4. PICK y : y = x + Page - 1
  OBVIOUS
<1>5. y \in Int /\ ALIGN_UP(x) = y - (y % Page)
  BY <1>1, <1>4 DEF ALIGN_UP, ALIGN
<1>6. ALIGN_UP(x) \in Int /\ x <= ALIGN_UP(x)
  BY <1>1, <1>2, <1>4, <1>5
<1>7. \A z \in Int : \E k \in Int : z - (z % Page) = k * Page
  BY <1>1
<1> QED
  BY <1>3, <1>5, <1>6, <1>7 DEF Multiples

(* Pages end where a page ends, and hold two addresses at least.           *)
LEMMA MultipleFacts ==
    ASSUME NEW b \in Multiples(Page), NEW n \in Nat \ {0}, n % Page = 0
    PROVE  b \in Int /\ b % Page = 0 /\ b + n - 1 \in Int /\ b < b + n - 1 /\ b + n - 1 + 1 \in Multiples(Page)
<1>1. Page \in Nat /\ Page >= 2
  BY PageAssumption
<1>2. PICK j \in Int : b = j * Page
  BY DEF Multiples
<1>3. PICK k \in Int : n = k * Page
  BY <1>1
<1>4. b \in Int /\ b % Page = 0
  BY <1>1, <1>2
<1>5. n >= 2
  BY <1>1, <1>3
<1>6. b + n = (j + k) * Page /\ j + k \in Int
  BY <1>1, <1>2, <1>3
<1>7. b + n \in Multiples(Page)
  BY <1>6 DEF Multiples
<1>8. b + n - 1 + 1 = b + n /\ b + n - 1 \in Int /\ b < b + n - 1
  BY <1>4, <1>5
<1> QED
  BY <1>4, <1>7, <1>8

(* The first fit.                                                          *)
LEMMA PagesAtFacts ==
    ASSUME NEW E, ListOK(list, E), NEW n \in Nat \ {0}, n % Page = 0, PagesAt(n) # <<>>,
           NEW b, b = PagesAt(n)[1]
    PROVE  b \in Multiples(Page) /\ Whole(list, b, b + n - 1)
<1> DEFINE T == {i \in DOMAIN list : Fits(list[i], n)}
           First(i) == Fits(list[i], n) /\ \A j \in 1 .. i - 1 : ~Fits(list[j], n)
<1>1. Len(list) \in Nat /\ DOMAIN list = 1 .. Len(list)
  BY ListFacts
<1>2. T # {}
  BY DEF PagesAt
<1>3. T \subseteq Nat
  BY <1>1
<1>4. PICK i \in T : \A j \in T : i <= j
  <2> HIDE DEF T
  <2> QED
    BY <1>2, <1>3, NatMin
<1>5. i \in DOMAIN list /\ First(i)
  <2>1. i \in 1 .. Len(list) /\ Fits(list[i], n)
    BY <1>1
  <2>2. ASSUME NEW j \in 1 .. i - 1, Fits(list[j], n) PROVE FALSE
    <3>1. j \in 1 .. Len(list) /\ ~(i <= j)
      BY <1>1, <2>1
    <3> QED
      BY <1>1, <1>4, <2>2, <3>1
  <2> QED
    BY <1>1, <2>1, <2>2
<1>6. PICK t : t = CHOOSE j \in DOMAIN list : First(j)
  OBVIOUS
<1>7. t \in DOMAIN list /\ First(t)
  <2> HIDE DEF First
  <2> QED
    BY <1>5, <1>6
<1>8. PagesAt(n) = <<ALIGN_UP(list[t].base)>>
  BY <1>2, <1>6 DEF PagesAt
<1>9. PICK r : r = list[t]
  OBVIOUS
<1>10. r.base \in Int /\ r.limit \in Int /\ Fits(r, n) /\ t \in 1 .. Len(list)
  BY <1>1, <1>7, <1>9, ListFacts
<1>11. b = ALIGN_UP(r.base)
  BY <1>8, <1>9
<1>12. b \in Int /\ r.base <= b /\ b \in Multiples(Page)
  BY <1>10, <1>11, AlignFacts
<1>13. PICK hi : hi = ALIGN(r.limit)
  OBVIOUS
<1>14. hi \in Int /\ hi <= r.limit
  BY <1>10, <1>13, AlignFacts
<1>15. hi - b >= n
  BY <1>10, <1>11, <1>13 DEF Fits
<1>16. b + n - 1 < r.limit
  BY <1>10, <1>12, <1>14, <1>15
<1> QED
  BY <1>9, <1>10, <1>12, <1>16 DEF Whole

(* A range can begin where a page ends, and pages are clear.               *)
PageEdges(E) == Multiples(Page) \subseteq E /\ \A m \in Multiples(Page) : Clear(m, E)

(* The call of range_remove, on top of calls that wait.                    *)
LEMMA PagesCalled ==
    ASSUME NEW E, PageEdges(E), NEW s, NEW k, ListOK(list, E), AllWait(s),
           NEW n \in Nat \ {0}, n % Page = 0, NEW kind \in {"pages", "heap"},
           Core(list, s, FALSE, taken, reserved, k, E), mem_get_pages(n, kind, s), halt = "no"
    PROVE  \/ halt' = "null" /\ stack' = stack
           \/ halt' = "no" /\ Core(list, stack', FALSE, taken, reserved, k, E)
<1>1. CASE PagesAt(n) = <<>>
  BY <1>1 DEF mem_get_pages
<1>2. CASE PagesAt(n) # <<>>
  <2>1. PICK b : b = PagesAt(n)[1]
    OBVIOUS
  <2>2. PICK e : e = b + n - 1
    OBVIOUS
  <2>3. PICK f : f = Frame(b, e, kind)
    OBVIOUS
  <2>4. stack' = Append(s, f) /\ halt' = halt
    BY <1>2, <2>1, <2>2, <2>3 DEF mem_get_pages
  <2>5. b \in Multiples(Page) /\ Whole(list, b, e)
    BY <1>2, <2>1, <2>2, PagesAtFacts
  <2>6. b \in Int /\ b % Page = 0 /\ e \in Int /\ b < e /\ e + 1 \in Multiples(Page)
    BY <2>2, <2>5, MultipleFacts
  <2>7. Clear(b, E) /\ e + 1 \in E
    BY <2>5, <2>6 DEF PageEdges
  <2>8. Callable(s, list, FALSE, b, e, kind)
    BY <2>5, <2>6 DEF Callable
  <2>9. Entered(f, list, b, e, kind)
    BY <2>3 DEF Entered, Frame
  <2>10. kind \in Kinds
    BY DEF Kinds
  <2>11. Core(list, stack', FALSE, taken, reserved, k, E)
    BY <2>4, <2>6, <2>7, <2>8, <2>9, <2>10, Called
  <2> QED
    BY <2>4, <2>11
<1> QED
  BY <1>1, <1>2

(* A larger allocation.                                                    *)
LEMMA MallocPagesKeeps ==
    ASSUME NEW E, mem_early \/ PageEdges(E), Inv(E), NEW n \in Lengths, MallocPages(n)
    PROVE  Inv(E)'
<1>1. /\ halt = "no" /\ stack = <<>> /\ mem_early = FALSE /\ mem_get_pages(n, "pages", stack)
      /\ UNCHANGED <<list, mem_early, sbrk, nodes, resv, reserved, taken>>
  BY DEF MallocPages, boot, Inv, BootOK
<1>2. n \in Nat \ {0} /\ n % Page = 0
  BY PageAssumption
<1>3. Core(list, stack, FALSE, taken, reserved, Added, E) /\ ListOK(list, E)
  BY <1>1 DEF Inv, Core
<1>4. AllWait(stack)
  BY <1>1 DEF AllWait
<1>5. \/ halt' = "null" /\ stack' = stack
      \/ halt' = "no" /\ Core(list, stack', FALSE, taken, reserved, Added, E)
  BY <1>1, <1>2, <1>3, <1>4, PagesCalled
<1>6. halt' \in {"no", "null"} /\ Core(list, stack', FALSE, taken, reserved, Added, E)
  BY <1>3, <1>5
<1>7. nodes = <<>> /\ sbrk \in 0 .. EarlyChunks /\ resv \in Seq(Pieces(E))
  BY <1>1 DEF Inv, BootOK
<1>8. nodes' = nodes /\ mem_early' = FALSE /\ resv' = resv /\ sbrk' = sbrk
  BY <1>1
<1>9. Core(list', stack', mem_early', taken', reserved', Added, E)
  BY <1>1, <1>6, <1>8
<1> QED
  BY <1>6, <1>7, <1>8, <1>9, Boots

(* mem_malloc takes a chunk while the split waits for its node.            *)
LEMMA Grants ==
    ASSUME NEW E, Inv(E), Running, NEW f, f = Top, f.node = "wanted",
           NEW g, g = [f EXCEPT !.node = "granted"], NEW s2, s2 = ReplaceAt(stack, Len(stack), g)
    PROVE  Core(list, s2, mem_early, taken, reserved, Added, E) /\ AllWait(s2)
<1>1. /\ ListOK(list, E) /\ StackOK(stack, list, mem_early, E) /\ mem_early \in BOOLEAN
      /\ Core(list, stack, mem_early, taken, reserved, Added, E)
      /\ stack # <<>> /\ f = stack[Len(stack)] /\ f \in FrameSet /\ FrameOK(f, list, E)
      /\ (~mem_early => PagesOK(f, list))
  BY TopFacts
<1>2. /\ g \in FrameSet /\ SameCall(g, f) /\ g.left = f.left /\ g.node = "granted"
      /\ g.cur = f.cur /\ g.n = f.n
  BY <1>1 DEF FrameSet, SameCall
<1>3. FrameOK(g, list, E)
  <2>1. Waits(f, list, E) /\ Clear(f.base, E) /\ f.limit + 1 \in E /\ f.base < f.limit
    BY <1>1 DEF FrameOK
  <2>2. Waits(g, list, E)
    BY <1>2, <2>1 DEF Waits, SameCall
  <2> QED
    BY <1>2, <2>1, <2>2 DEF FrameOK, SameCall
<1>4. ~mem_early => PagesOK(g, list)
  BY <1>1, <1>2 DEF PagesOK, SameCall
<1>5. LowerOK(stack, list, mem_early, E)
  BY <1>1, LowerSame
<1>6. \A x \in Int : Side(x, g) <=> Side(x, f)
  BY <1>2 DEF Side
<1>7. stack \in Seq(FrameSet) /\ Len(stack) \in 1 .. Len(stack)
  <2>1. stack \in Seq(FrameSet)
    BY <1>1, StackFacts
  <2> QED
    BY <1>1, <2>1
<1>8. SideNew(stack, list, g, mem_early)
  <2>1. FramesApart(stack, mem_early)
    BY <1>1 DEF Core
  <2>2. ASSUME NEW x \in Int, Side(x, f) PROVE Free(x, list, stack)
    BY <1>1, <1>7, <2>2 DEF Free
  <2>3. ASSUME NEW x \in Int, Side(x, f), NEW i \in 1 .. Len(stack), i < Len(stack)
        PROVE  ~Side(x, stack[i]) /\ (~mem_early => ~Spot(x, stack[i]))
    <3>1. i # Len(stack)
      BY <1>7, <2>3
    <3> QED
      BY <1>1, <1>7, <2>1, <2>3, <3>1 DEF FramesApart
  <2> QED
    BY <1>6, <2>2, <2>3 DEF SideNew
<1>9. Flow(stack, list, f, list, g)
  BY <1>6, HasIsFree DEF Flow
<1>10. Core(list, s2, mem_early, taken, reserved, Added, E)
  BY <1>1, <1>3, <1>2, <1>4, <1>5, <1>8, <1>9, Moved
<1>11. AllWait(s2)
  <2>1. Len(s2) = Len(stack) /\ \A i \in 1 .. Len(stack) : s2[i] = IF i = Len(stack) THEN g ELSE stack[i]
    BY <1>7 DEF ReplaceAt
  <2>2. \A i \in 1 .. Len(stack) : i < Len(stack) => stack[i].node # "none"
    BY <1>1 DEF StackOK
  <2>3. ASSUME NEW i \in 1 .. Len(s2) PROVE s2[i].node # "none"
    <3>1. CASE i = Len(stack)
      BY <1>2, <2>1, <3>1
    <3>2. CASE i # Len(stack)
      <4>1. i < Len(stack) /\ i \in 1 .. Len(stack)
        BY <1>7, <2>1, <3>2
      <4> QED
        BY <2>1, <2>2, <3>2, <4>1
    <3> QED
      BY <3>1, <3>2
  <2> QED
    BY <2>3 DEF AllWait
<1> QED
  BY <1>10, <1>11

(* mem_malloc asks for a chunk.                                            *)
LEMMA MoreHeapKeeps ==
    ASSUME NEW E, mem_early \/ PageEdges(E), Inv(E), MoreHeap
    PROVE  Inv(E)'
<1>1. Running /\ Top.node = "wanted" /\ UNCHANGED <<list, mem_early, nodes, resv, reserved, taken>>
  BY DEF MoreHeap
<1>2. PICK f : f = Top
  OBVIOUS
<1>3. PICK g : g = [f EXCEPT !.node = "granted"]
  OBVIOUS
<1>4. PICK s2 : s2 = ReplaceAt(stack, Len(stack), g)
  OBVIOUS
<1>5. Core(list, s2, mem_early, taken, reserved, Added, E) /\ AllWait(s2)
  BY <1>1, <1>2, <1>3, <1>4, Grants
<1>6. \/ /\ mem_early /\ sbrk' = sbrk + 1
         /\ IF sbrk' > EarlyChunks THEN halt' = "early" /\ stack' = stack ELSE stack' = s2 /\ halt' = halt
      \/ ~mem_early /\ mem_get_pages(Chunk, "heap", s2) /\ sbrk' = sbrk
  BY <1>2, <1>3, <1>4 DEF MoreHeap
<1>7. /\ halt = "no" /\ sbrk \in 0 .. EarlyChunks /\ EarlyChunks \in Nat
      /\ Core(list, stack, mem_early, taken, reserved, Added, E)
  BY <1>1, PageAssumption DEF Running, Inv, BootOK
<1>8. CASE mem_early
  <2>1. CASE sbrk' > EarlyChunks
    <3>1. halt' = "early" /\ stack' = stack /\ sbrk' = sbrk + 1
      BY <1>6, <1>8, <2>1
    <3>2. sbrk' = EarlyChunks + 1
      BY <1>7, <2>1, <3>1
    <3>3. Core(list', stack', mem_early, taken', reserved', Added, E)
      BY <1>1, <1>7, <3>1
    <3> QED
      BY <1>1, <3>1, <3>2, <3>3, Resumes
  <2>2. CASE ~(sbrk' > EarlyChunks)
    <3>1. halt' = "no" /\ stack' = s2 /\ sbrk' = sbrk + 1
      BY <1>6, <1>7, <1>8, <2>2
    <3>2. sbrk' \in 0 .. EarlyChunks
      BY <1>7, <2>2, <3>1
    <3>3. Core(list', stack', mem_early, taken', reserved', Added, E)
      BY <1>1, <1>5, <3>1
    <3> QED
      BY <1>1, <3>1, <3>2, <3>3, Resumes
  <2> QED
    BY <2>1, <2>2
<1>9. CASE ~mem_early
  <2>1. mem_early = FALSE /\ mem_get_pages(Chunk, "heap", s2) /\ sbrk' = sbrk
    BY <1>6, <1>9 DEF Inv, BootOK
  <2>2. Chunk \in Nat \ {0} /\ Chunk % Page = 0
    BY PageAssumption
  <2>3. ListOK(list, E) /\ Core(list, s2, FALSE, taken, reserved, Added, E)
    BY <1>5, <2>1 DEF Core
  <2>4. \/ halt' = "null" /\ stack' = stack
        \/ halt' = "no" /\ Core(list, stack', FALSE, taken, reserved, Added, E)
    BY <1>5, <1>7, <2>1, <2>2, <2>3, PagesCalled
  <2>5. halt' \in {"no", "null"} /\ Core(list', stack', mem_early, taken', reserved', Added, E)
    BY <1>1, <1>7, <2>1, <2>4
  <2> QED
    BY <1>1, <1>7, <2>1, <2>5, Resumes
<1> QED
  BY <1>8, <1>9

-----------------------------------------------------------------------------
(* The steps between calls, and the return.                                *)
LEMMA ReturnKeeps == ASSUME NEW E, Inv(E), Return PROVE Inv(E)'
<1>1. /\ Running /\ Top.node = "none" /\ Top.cur = ListHead /\ stack' = Front(stack)
      /\ UNCHANGED <<list, mem_early, sbrk, nodes, resv, halt>>
  BY DEF Return, boot
<1>2. PICK f, c : f = Top /\ c = <<f.base, f.limit>>
  OBVIOUS
<1>3. IF f.kind = "reserve" THEN reserved' = Append(reserved, c) /\ taken' = taken
                            ELSE taken' = Append(taken, c) /\ reserved' = reserved
  BY <1>2 DEF Return
<1>4. /\ StackOK(stack, list, mem_early, E) /\ mem_early \in BOOLEAN
      /\ Core(list, stack, mem_early, taken, reserved, Added, E)
      /\ stack # <<>> /\ f = stack[Len(stack)] /\ (~mem_early => PagesOK(f, list))
  BY <1>1, <1>2, TopFacts
<1>5. f.kind = "reserve" <=> mem_early
  <2>1. Len(stack) \in 1 .. Len(stack)
    <3>1. stack \in Seq(FrameSet)
      BY <1>4, StackFacts
    <3> QED
      BY <1>4, <3>1
  <2> QED
    BY <1>4, <2>1 DEF StackOK, PagesOK
<1>6. PICK s2, tk2, rv2 : s2 = Front(stack) /\ tk2 = (IF mem_early THEN taken ELSE Append(taken, c))
                          /\ rv2 = (IF mem_early THEN Append(reserved, c) ELSE reserved)
  OBVIOUS
<1>7. stack' = s2 /\ taken' = tk2 /\ reserved' = rv2 /\ list' = list
  BY <1>1, <1>3, <1>5, <1>6
<1>8. f.node = "none" /\ f.cur = ListHead
  BY <1>1, <1>2
<1>9. Core(list, s2, mem_early, tk2, rv2, Added, E)
  BY <1>2, <1>4, <1>6, <1>8, Returned
<1>10. Core(list', stack', mem_early, taken', reserved', Added, E)
  BY <1>7, <1>9
<1>11. halt' = "no" /\ sbrk' \in 0 .. EarlyChunks
  BY <1>1 DEF Running, Inv, BootOK
<1> QED
  BY <1>1, <1>10, <1>11, Resumes

(* mem_init reserves an interval.                                          *)
LEMMA ReserveKeeps == ASSUME NEW E, Inv(E), Reserve PROVE Inv(E)'
<1>1. /\ halt = "no" /\ stack = <<>> /\ mem_early = TRUE /\ nodes = <<>> /\ resv # <<>> /\ resv' = Tail(resv)
      /\ UNCHANGED <<list, mem_early, sbrk, nodes, reserved, taken>>
  BY DEF Reserve, Inv, BootOK
<1>2. resv \in Seq(Pieces(E)) /\ sbrk \in 0 .. EarlyChunks
  BY <1>1 DEF Inv, BootOK
<1>3. resv[1] \in Pieces(E) /\ resv' \in Seq(Pieces(E))
  BY <1>1, <1>2
<1>4. PICK b, e : b = resv[1][1] /\ e = resv[1][2]
  OBVIOUS
<1>5. b \in Int /\ e \in Int /\ b < e /\ Clear(b, E) /\ e + 1 \in E
  BY <1>3, <1>4 DEF Pieces
<1>6. PICK f : f = Frame(b, e, "reserve")
  OBVIOUS
<1>7. stack' = <<f>> /\ halt' = halt
  <2>1. ~(b >= e)
    BY <1>5
  <2> QED
    BY <1>4, <1>6, <2>1 DEF Reserve
<1>8. stack' = Append(stack, f)
  BY <1>1, <1>7
<1>9. Entered(f, list, b, e, "reserve")
  BY <1>6 DEF Entered, Frame
<1>10. Callable(stack, list, mem_early, b, e, "reserve")
  BY <1>1 DEF Callable
<1>11. "reserve" \in Kinds /\ mem_early \in BOOLEAN /\ Core(list, stack, mem_early, taken, reserved, Added, E)
  BY <1>1 DEF Kinds, Inv
<1>12. Core(list, stack', mem_early, taken, reserved, Added, E)
  BY <1>5, <1>8, <1>9, <1>10, <1>11, Called
<1>13. /\ Core(list', stack', mem_early', taken', reserved', Added, E) /\ mem_early' \in BOOLEAN
       /\ nodes' = nodes /\ halt' = "no" /\ sbrk' \in 0 .. EarlyChunks
  BY <1>1, <1>2, <1>7, <1>11, <1>12
<1> QED
  BY <1>1, <1>3, <1>13, Boots

(* Between calls the invariant is about the list alone.                    *)
FreeOK(l, tk, rv) == \A x \in Int : Has(l, x) => InRAM(x) /\ ~InAny(x, tk) /\ ~InAny(x, rv)
KeptOK(k, l, tk, rv) ==
    \A x \in Int : (\E i \in 1 .. k : In(x, Nodes[i])) => Has(l, x) \/ InAny(x, tk) \/ InAny(x, rv)

(* What the invariant says on an empty stack.                              *)
LEMMA Idle ==
    ASSUME NEW E, NEW l, NEW early, NEW tk, NEW rv, NEW k
    PROVE  Core(l, <<>>, early, tk, rv, k, E) <=>
             ListOK(l, E) /\ FreeOK(l, tk, rv) /\ TakenOK(tk, rv, early) /\ KeptOK(k, l, tk, rv)
<1>1. \A i \in 1 .. Len(<<>>) : FALSE
  OBVIOUS
<1>2. <<>> \in Seq(FrameSet) /\ Len(<<>>) <= 1
  OBVIOUS
<1>3. StackOK(<<>>, l, early, E)
  BY <1>1, <1>2 DEF StackOK
<1>4. FramesApart(<<>>, early)
  BY <1>1 DEF FramesApart
<1>5. \A x \in Int : Free(x, l, <<>>) <=> Has(l, x)
  BY <1>1 DEF Free
<1>6. Exclusive(l, <<>>, early, tk, rv) <=> FreeOK(l, tk, rv)
  BY <1>1, <1>5 DEF Exclusive, FreeOK
<1>7. Kept(k, l, <<>>, tk, rv) <=> KeptOK(k, l, tk, rv)
  BY <1>1, <1>5 DEF Kept, KeptOK
<1> QED
  BY <1>3, <1>4, <1>6, <1>7 DEF Core

(* The end of mem_init.                                                    *)
LEMMA EndInitKeeps == ASSUME NEW E, Inv(E), EndInit, NEW E2, E \subseteq E2 PROVE Inv(E2)'
<1>1. /\ halt = "no" /\ stack = <<>> /\ mem_early = TRUE /\ nodes = <<>> /\ resv = <<>> /\ mem_early' = FALSE
      /\ UNCHANGED <<list, stack, sbrk, nodes, resv, reserved, taken, halt>>
  BY DEF EndInit, Inv, BootOK
<1>2. Core(list, <<>>, TRUE, taken, reserved, Added, E) /\ sbrk \in 0 .. EarlyChunks
  BY <1>1 DEF Inv, BootOK
<1>3. ListOK(list, E) /\ FreeOK(list, taken, reserved) /\ TakenOK(taken, reserved, TRUE)
      /\ KeptOK(Added, list, taken, reserved)
  BY <1>2, Idle
<1>4. TakenOK(taken, reserved, FALSE)
  BY <1>3 DEF TakenOK
<1>5. ListOK(list, E2)
  <2>1. Entries(E) \subseteq Entries(E2)
    BY DEF Entries
  <2>2. list \in Seq(Entries(E2))
    BY <1>3, <2>1, SeqMonotonic DEF ListOK
  <2> QED
    BY <1>3, <2>2 DEF ListOK
<1>6. Core(list, <<>>, FALSE, taken, reserved, Added, E2)
  BY <1>3, <1>4, <1>5, Idle
<1>7. Core(list', stack', mem_early', taken', reserved', Added, E2)
  BY <1>1, <1>6
<1>8. resv' \in Seq(Pieces(E2))
  BY <1>1
<1> QED
  BY <1>1, <1>2, <1>7, <1>8, Boots

(* mem_init's range_add of memory node d, the (k + 1)-th.                  *)
LEMMA AddsNode ==
    ASSUME NEW E, NEW l, NEW k \in Nat, k < Len(Nodes), Core(l, <<>>, TRUE, <<>>, <<>>, k, E),
           \A x \in Int : Has(l, x) => \E i \in 1 .. k : In(x, Nodes[i]),
           NEW e \in Entries(E), e.base = Nodes[k + 1][1], e.limit = Nodes[k + 1][2], e.base < e.limit,
           \A i \in 1 .. Len(l) : l[i].id # e.id,
           NEW p, p = AddPosition(l, e.limit), NEW l2, l2 = InsertAt(l, p, e)
    PROVE  /\ ~AddBug(l, e.base, e.limit) /\ Core(l2, <<>>, TRUE, <<>>, <<>>, k + 1, E)
           /\ \A x \in Int : Has(l2, x) => \E i \in 1 .. k + 1 : In(x, Nodes[i])
<1>1. ListOK(l, E) /\ TakenOK(<<>>, <<>>, TRUE) /\ KeptOK(k, l, <<>>, <<>>)
  BY Idle
<1>2. Nodes \in Seq(Nat \X Nat) /\ Len(Nodes) \in Nat /\ DOMAIN Nodes = 1 .. Len(Nodes)
  BY FirmwareAssumption
<1>3. k + 1 \in 1 .. Len(Nodes)
  BY <1>2
<1>4. e.base \in Int /\ e.limit \in Int
  BY DEF Entries
<1>5. \A x \in Int : In(x, Nodes[k + 1]) <=> e.base <= x /\ x <= e.limit
  BY DEF In
<1>6. ASSUME NEW x \in Int, e.base <= x, x <= e.limit PROVE ~Has(l, x)
  <2> SUFFICES ASSUME NEW i \in 1 .. k, In(x, Nodes[i]) PROVE FALSE
    OBVIOUS
  <2>1. i \in 1 .. Len(Nodes) /\ i # k + 1
    BY <1>2
  <2>2. Nodes[i][2] < Nodes[k + 1][1] \/ Nodes[k + 1][2] < Nodes[i][1]
    BY <1>2, <1>3, <2>1, FirmwareAssumption
  <2>3. Nodes[i] \in Nat \X Nat
    BY <1>2, <2>1
  <2>4. PICK a, b : a = Nodes[i][1] /\ b = Nodes[i][2]
    OBVIOUS
  <2>5. a \in Int /\ b \in Int /\ a <= x /\ x <= b /\ (b < e.base \/ e.limit < a)
    BY <2>2, <2>3, <2>4 DEF In
  <2> QED
    BY <1>4, <1>6, <2>5
<1>7. Vacant(l, e)
  BY <1>6 DEF Vacant
<1>8. /\ ListOK(l2, E) /\ Inserted(l2, l, p, e) /\ p \in 1 .. Len(l) + 1
      /\ ~AddBug(l, e.base, e.limit)
  BY <1>1, <1>7, Links
<1>9. \A x \in Int : Has(l2, x) <=> Has(l, x) \/ In(x, Nodes[k + 1])
  BY <1>1, <1>5, <1>8, InsertedHas
<1>10. 1 .. k + 1 = (1 .. k) \cup {k + 1}
  OBVIOUS
<1>11. ASSUME NEW x \in Int, Has(l2, x) PROVE \E i \in 1 .. k + 1 : In(x, Nodes[i])
  BY <1>9, <1>10, <1>11
<1>12. \A x \in Int : ~InAny(x, <<>>)
  BY DEF InAny
<1>13. FreeOK(l2, <<>>, <<>>)
  <2>1. ASSUME NEW x \in Int, Has(l2, x) PROVE InRAM(x)
    <3>1. PICK i \in 1 .. k + 1 : In(x, Nodes[i])
      BY <1>11, <2>1
    <3>2. i \in 1 .. Len(Nodes)
      BY <1>2, <1>3
    <3> QED
      BY <3>1, <3>2 DEF InRAM, InAny
  <2> QED
    BY <1>12, <2>1 DEF FreeOK
<1>14. KeptOK(k + 1, l2, <<>>, <<>>)
  <2>1. ASSUME NEW x \in Int, NEW i \in 1 .. k + 1, In(x, Nodes[i]) PROVE Has(l2, x)
    <3>1. CASE i = k + 1
      BY <1>9, <2>1, <3>1
    <3>2. CASE i \in 1 .. k
      BY <1>1, <1>9, <1>12, <2>1, <3>2 DEF KeptOK
    <3> QED
      BY <1>10, <3>1, <3>2
  <2> QED
    BY <2>1 DEF KeptOK
<1>15. Core(l2, <<>>, TRUE, <<>>, <<>>, k + 1, E)
  BY <1>1, <1>8, <1>13, <1>14, Idle
<1> QED
  BY <1>8, <1>11, <1>15

(* The memory nodes, which begin where a range can.                        *)
NodesOK(E) ==
    \A i \in 1 .. Len(Nodes) : Nodes[i] \in {c \in Nat \X Nat : c[1] < c[2] /\ c[1] \in E}

(* mem_init adds a memory node.                                            *)
LEMMA AddMemoryKeeps ==
    ASSUME NEW E, Inv(E), AddMemory, NodesOK(E)
    PROVE  Inv(E)'
<1>1. /\ halt = "no" /\ stack = <<>> /\ mem_early = TRUE /\ nodes # <<>> /\ nodes' = Tail(nodes)
      /\ UNCHANGED <<stack, mem_early, sbrk, resv, reserved, taken>>
  BY DEF AddMemory, Inv, BootOK
<1>2. /\ nodes \in Seq(Nat \X Nat) /\ Len(nodes) <= Len(Nodes) /\ reserved = <<>>
      /\ \A j \in 1 .. Len(nodes) : nodes[j] = Nodes[Added + j]
      /\ \A x \in Int : Has(list, x) => \E i \in 1 .. Added : In(x, Nodes[i])
      /\ resv \in Seq(Pieces(E)) /\ sbrk \in 0 .. EarlyChunks
  BY <1>1 DEF Inv, BootOK
<1>3. Core(list, <<>>, TRUE, taken, reserved, Added, E)
  BY <1>1 DEF Inv
<1>4. ListOK(list, E) /\ TakenOK(taken, reserved, TRUE)
  BY <1>3, Idle
<1>5. taken = <<>>
  BY <1>4 DEF TakenOK
<1>6. PICK k, m, n : k = Added /\ m = Len(nodes) /\ n = Len(Nodes)
  OBVIOUS
<1>7. m \in Nat /\ n \in Nat /\ m >= 1 /\ m <= n /\ k = n - m /\ k \in Nat /\ k < n /\ k + 1 \in 1 .. n
  <2>1. Len(nodes) \in Nat /\ Len(nodes) >= 1 /\ Len(Nodes) \in Nat
    <3>1. Nodes \in Seq(Nat \X Nat)
      BY FirmwareAssumption
    <3> QED
      BY <1>1, <1>2, <3>1
  <2>2. m \in Nat /\ n \in Nat /\ m >= 1 /\ m <= n /\ k = n - m
    BY <1>2, <1>6, <2>1 DEF Added
  <2> QED
    BY <2>2
<1>8. PICK d : d = Nodes[k + 1]
  OBVIOUS
<1>9. nodes[1] = d /\ d \in Nat \X Nat /\ d[1] < d[2] /\ d[1] \in E
  <2>1. 1 \in 1 .. m /\ 1 \in 1 .. Len(nodes) /\ k + 1 \in 1 .. Len(Nodes)
    BY <1>6, <1>7
  <2>2. nodes[1] = Nodes[k + 1]
    BY <1>2, <1>6, <2>1
  <2>3. d \in {c \in Nat \X Nat : c[1] < c[2] /\ c[1] \in E}
    BY <1>8, <2>1 DEF NodesOK
  <2> QED
    BY <1>8, <2>2, <2>3
<1>10. PICK b, c : b = d[1] /\ c = d[2]
  OBVIOUS
<1>11. b \in Int /\ c \in Int /\ b < c /\ b \in E
  BY <1>9, <1>10
<1>12. PICK e : e = [id |-> FreshId, base |-> b, limit |-> c]
  OBVIOUS
<1>13. FreshId \in Ids /\ \A i \in 1 .. Len(list) : list[i].id # FreshId
  BY <1>4, FreshFacts
<1>14. e.id = FreshId /\ e.base = b /\ e.limit = c /\ e \in Entries(E)
  BY <1>11, <1>12, <1>13 DEF Entries
<1>15. PICK p : p = AddPosition(list, c)
  OBVIOUS
<1>16. PICK l2 : l2 = InsertAt(list, p, e)
  OBVIOUS
<1>17. /\ ~AddBug(list, b, c) /\ Core(l2, <<>>, TRUE, <<>>, <<>>, k + 1, E)
       /\ \A x \in Int : Has(l2, x) => \E i \in 1 .. k + 1 : In(x, Nodes[i])
  <2>1. Core(list, <<>>, TRUE, <<>>, <<>>, k, E)
    BY <1>2, <1>3, <1>5, <1>6
  <2>2. k < Len(Nodes)
    BY <1>6, <1>7
  <2>3. \A x \in Int : Has(list, x) => \E i \in 1 .. k : In(x, Nodes[i])
    BY <1>2, <1>6
  <2>4. e.base = Nodes[k + 1][1] /\ e.limit = Nodes[k + 1][2] /\ e.base < e.limit
    BY <1>8, <1>10, <1>11, <1>14
  <2>5. \A i \in 1 .. Len(list) : list[i].id # e.id
    BY <1>13, <1>14
  <2> QED
    BY <1>7, <1>14, <1>15, <1>16, <2>1, <2>2, <2>3, <2>4, <2>5, AddsNode
<1>18. list' = l2 /\ halt' = "no"
  BY <1>1, <1>9, <1>10, <1>12, <1>15, <1>16, <1>17 DEF AddMemory
<1>19. /\ nodes' \in Seq(Nat \X Nat) /\ Len(nodes') = m - 1
       /\ \A j \in 1 .. m - 1 : nodes'[j] = nodes[j + 1]
  BY <1>1, <1>2, <1>6
<1>20. Added' = k + 1
  BY <1>6, <1>7, <1>19 DEF Added
<1>21. BootOK(E)'
  <2>1. ASSUME NEW j \in 1 .. Len(nodes') PROVE nodes'[j] = Nodes[Added' + j]
    <3>1. j + 1 \in 1 .. m /\ k + (j + 1) = k + 1 + j /\ j \in 1 .. m - 1
      BY <1>7, <1>19
    <3>2. nodes'[j] = nodes[j + 1] /\ nodes[j + 1] = Nodes[k + (j + 1)]
      BY <1>2, <1>6, <1>19, <3>1
    <3> QED
      BY <1>20, <3>1, <3>2
  <2>2. Len(nodes') <= Len(Nodes)
    BY <1>6, <1>7, <1>19
  <2>3. \A x \in Int : Has(list', x) => \E i \in 1 .. Added' : In(x, Nodes[i])
    BY <1>17, <1>18, <1>20
  <2>4. /\ mem_early' = TRUE /\ stack' = <<>> /\ reserved' = <<>>
        /\ resv' \in Seq(Pieces(E)) /\ sbrk' \in 0 .. EarlyChunks
    BY <1>1, <1>2
  <2> QED
    BY <1>19, <2>1, <2>2, <2>3, <2>4 DEF BootOK
<1>22. Core(list', stack', mem_early', taken', reserved', Added', E)
  BY <1>1, <1>2, <1>5, <1>17, <1>18, <1>20
<1>23. HaltOK'
  BY <1>18 DEF HaltOK
<1> QED
  BY <1>21, <1>22, <1>23 DEF Inv

-----------------------------------------------------------------------------
(* Free memory begins where the firmware says, and clear of what is next.  *)
LEMMA GivenPages == ASSUME NEW others \in Reservations PROVE PageEdges(Edges(others, FALSE))
<1> DEFINE G == FreeStarts(others)
           M == Multiples(Page)
<1>1. Page \in Nat /\ Page >= 2
  BY PageAssumption
<1>2. Sparse(M)
  BY <1>1, MultiplesSparse
<1>3. \A a \in G : (a + 1) % Page # 0
  BY FirmwareAssumption
<1>4. Edges(others, FALSE) = G \cup M
  BY DEF Edges
<1> HIDE DEF G
<1>5. \A k \in Int : (k * Page) % Page = 0
  BY <1>1
<1>6. ASSUME NEW m \in M, NEW a \in G \cup M, a + 1 = m PROVE FALSE
  <2>1. CASE a \in G
    <3>1. PICK k \in Int : m = k * Page
      BY DEF Multiples
    <3> QED
      BY <1>3, <1>5, <1>6, <2>1, <3>1
  <2>2. CASE a \in M
    <3>1. a \in Int /\ a < m
      BY <1>2, <1>6, <2>2 DEF Sparse
    <3> QED
      BY <1>2, <1>6, <2>2, <3>1 DEF Sparse
  <2> QED
    BY <2>1, <2>2
<1> QED
  BY <1>4, <1>6 DEF PageEdges, Clear

(* What FirmwareAssumption gives, in the form the steps use it: nodes and   *)
(* reservations have edges in E, and after mem_init pages do too.           *)
LEMMA Given ==
    ASSUME NEW others \in Reservations, NEW early \in BOOLEAN, NEW E, E = Edges(others, early)
    PROVE  /\ NodesOK(E) /\ (early => ToReserve(others) \in Seq(Pieces(E))) /\ (early \/ PageEdges(E))
           /\ E \subseteq Edges(others, FALSE)
<1>1. PICK t : t = ToReserve(others)
  OBVIOUS
<1>2. /\ Nodes \in Seq(Nat \X Nat) /\ t \in Seq(Nat \X Nat)
      /\ \A i \in 1 .. Len(Nodes) : Nodes[i] \in ToSet(Nodes) /\ Nodes[i][1] < Nodes[i][2]
      /\ \A i \in 1 .. Len(t) : t[i] \in ToSet(t) /\ t[i][1] < t[i][2]
  BY <1>1, Described
<1>3. FreeStarts(others) = {c[1] : c \in ToSet(Nodes)} \cup {c[2] + 1 : c \in ToSet(t)}
  BY <1>1 DEF FreeStarts
<1>4. FreeStarts(others) \subseteq E /\ E \subseteq Edges(others, FALSE)
  BY DEF Edges
<1>5. NodesOK(E)
  <2>1. ASSUME NEW i \in 1 .. Len(Nodes) PROVE Nodes[i] \in Nat \X Nat /\ Nodes[i][1] < Nodes[i][2] /\ Nodes[i][1] \in E
    BY <1>2, <1>3, <1>4
  <2> QED
    BY <2>1 DEF NodesOK
<1>6. ASSUME early PROVE t \in Seq(Pieces(E))
  <2>1. E = FreeStarts(others)
    BY <1>6 DEF Edges
  <2>2. \A a \in FreeStarts(others) : \A c \in ToSet(t) : a + 1 # c[1]
    BY <1>1, FirmwareAssumption
  <2>3. ASSUME NEW i \in 1 .. Len(t) PROVE t[i] \in Pieces(E)
    <3>1. t[i] \in Nat \X Nat /\ t[i] \in ToSet(t) /\ t[i][1] < t[i][2]
      BY <1>2
    <3>2. t[i][2] + 1 \in E
      BY <1>3, <1>4, <3>1
    <3>3. Clear(t[i][1], E)
      BY <2>1, <2>2, <3>1 DEF Clear
    <3> QED
      BY <3>1, <3>2, <3>3 DEF Pieces
  <2>4. Len(t) \in Nat /\ t = [i \in 1 .. Len(t) |-> t[i]]
    BY <1>2
  <2>5. t \in [1 .. Len(t) -> Pieces(E)]
    BY <2>3, <2>4
  <2> QED
    BY <2>4, <2>5, SeqDef
<1>7. early \/ PageEdges(E)
  BY GivenPages
<1> QED
  BY <1>1, <1>4, <1>5, <1>6, <1>7

(* The initial state.                                                      *)
LEMMA InitInv == Init => IInv
<1> SUFFICES ASSUME Init PROVE IInv
  OBVIOUS
<1>1. PICK others \in Reservations : resv = ToReserve(others)
  BY DEF Init
<1>2. PICK E : E = Edges(others, TRUE)
  OBVIOUS
<1>3. resv \in Seq(Pieces(E))
  BY <1>1, <1>2, Given
<1>4. /\ list = <<>> /\ stack = <<>> /\ mem_early = TRUE /\ sbrk = 0 /\ nodes = Nodes
      /\ reserved = <<>> /\ taken = <<>> /\ halt = "no"
  BY DEF Init
<1>5. Nodes \in Seq(Nat \X Nat) /\ Len(Nodes) \in Nat
  BY FirmwareAssumption
<1>6. Added = 0
  BY <1>4, <1>5 DEF Added
<1>7. \A i \in 1 .. Len(<<>>) : FALSE
  OBVIOUS
<1>8. \A x \in Int : ~Has(<<>>, x)
  BY <1>7 DEF Has
<1>9. \A i \in 1 .. 0 : FALSE
  OBVIOUS
<1>10. ListOK(<<>>, E)
  <2>1. <<>> \in Seq(Entries(E)) /\ DOMAIN <<>> = {}
    OBVIOUS
  <2>2. Ordered(<<>>)
    BY <2>1 DEF Ordered
  <2> QED
    BY <1>7, <2>1, <2>2 DEF ListOK
<1>11. FreeOK(<<>>, <<>>, <<>>) /\ KeptOK(0, <<>>, <<>>, <<>>)
  BY <1>8, <1>9 DEF FreeOK, KeptOK
<1>12. TakenOK(<<>>, <<>>, TRUE)
  <2>1. <<>> \in Seq(Int \X Int)
    OBVIOUS
  <2> QED
    BY <1>7, <2>1 DEF TakenOK
<1>13. Core(<<>>, <<>>, TRUE, <<>>, <<>>, 0, E)
  BY <1>10, <1>11, <1>12, Idle
<1>14. Core(list, stack, mem_early, taken, reserved, Added, E)
  BY <1>4, <1>6, <1>13
<1>15. BootOK(E)
  <2>1. \A j \in 1 .. Len(nodes) : nodes[j] = Nodes[Added + j]
    BY <1>4, <1>5, <1>6
  <2>2. EarlyChunks \in Nat
    BY PageAssumption
  <2>3. nodes \in Seq(Nat \X Nat) /\ Len(nodes) <= Len(Nodes) /\ sbrk \in 0 .. EarlyChunks
    BY <1>4, <1>5, <2>2
  <2>4. \A x \in Int : Has(list, x) => \E i \in 1 .. Added : In(x, Nodes[i])
    BY <1>4, <1>8
  <2> QED
    BY <1>3, <1>4, <2>1, <2>3, <2>4 DEF BootOK
<1>16. Inv(E)
  BY <1>4, <1>14, <1>15 DEF Inv, HaltOK
<1> QED
  BY <1>2, <1>4, <1>16 DEF IInv

(* Every step.                                                             *)
LEMMA NextInv == IInv /\ [Next]_vars => IInv'
<1> SUFFICES ASSUME IInv, [Next]_vars PROVE IInv'
  OBVIOUS
<1>1. PICK others \in Reservations : Inv(Edges(others, mem_early))
  BY DEF IInv
<1>2. PICK E, F : E = Edges(others, mem_early) /\ F = Edges(others, FALSE)
  OBVIOUS
<1>3. Inv(E) /\ mem_early \in BOOLEAN
  BY <1>1, <1>2 DEF Inv, BootOK
<1>4. NodesOK(E) /\ (mem_early \/ PageEdges(E)) /\ E \subseteq F
  BY <1>2, <1>3, Given
<1>5. CASE EndInit
  <2>1. Inv(F)' /\ mem_early' = FALSE
    BY <1>3, <1>4, <1>5, EndInitKeeps DEF EndInit
  <2> QED
    BY <1>2, <2>1 DEF IInv
<1>6. ASSUME ~EndInit PROVE Inv(E)' /\ mem_early' = mem_early
  <2>1. CASE AddMemory
    BY <1>3, <1>4, <2>1, AddMemoryKeeps DEF AddMemory
  <2>2. CASE Reserve
    BY <1>3, <2>2, ReserveKeeps DEF Reserve
  <2>3. CASE Round
    BY <1>3, <2>3, RoundKeeps DEF Round, boot
  <2>4. CASE MoreHeap
    BY <1>3, <1>4, <2>4, MoreHeapKeeps DEF MoreHeap
  <2>5. CASE AddLeft
    BY <1>3, <2>5, AddLeftKeeps DEF AddLeft, boot
  <2>6. CASE Return
    BY <1>3, <2>6, ReturnKeeps DEF Return, boot
  <2>7. CASE \E n \in Lengths : MallocPages(n)
    BY <1>3, <1>4, <2>7, MallocPagesKeeps DEF MallocPages, boot
  <2>8. CASE UNCHANGED vars
    <3>1. /\ UNCHANGED <<list, stack, mem_early, sbrk, nodes>>
          /\ UNCHANGED <<resv, reserved, taken, halt>>
      BY <2>8 DEF vars
    <3>2. Added' = Added
      BY <3>1 DEF Added
    <3>3. Core(list', stack', mem_early', taken', reserved', Added', E)
      BY <1>3, <3>1, <3>2 DEF Inv
    <3>4. BootOK(E)' /\ HaltOK'
      BY <1>3, <3>1, <3>2 DEF Inv, BootOK, HaltOK
    <3> QED
      BY <3>1, <3>3, <3>4 DEF Inv
  <2> QED
    BY <1>6, <2>1, <2>2, <2>3, <2>4, <2>5, <2>6, <2>7, <2>8 DEF Next, Step, Halted
<1>7. CASE ~EndInit
  BY <1>2, <1>6, <1>7 DEF IInv
<1> QED
  BY <1>5, <1>7

-----------------------------------------------------------------------------
(* What the invariant says of the model's own properties.                  *)
LEMMA InvOrdered == IInv => ListOrdered
<1> SUFFICES ASSUME NEW E, Inv(E) PROVE ListOrdered
  BY DEF IInv
<1>1. ListOK(list, E) /\ StackOK(stack, list, mem_early, E)
  BY DEF Inv, Core
<1>2. DOMAIN list = 1 .. Len(list) /\ \A i \in 1 .. Len(list) : list[i] \in Entries(E)
  BY <1>1, ListFacts
<1>3. /\ \A i \in DOMAIN list : list[i].id \in Ids
      /\ \A i, j \in DOMAIN list : i # j => list[i].id # list[j].id
  BY <1>1, <1>2 DEF Entries, ListOK
<1>4. stack \in Seq(FrameSet) /\ DOMAIN stack = 1 .. Len(stack) /\ \A i \in 1 .. Len(stack) : stack[i] \in FrameSet
  BY <1>1, StackFacts
<1>5. \A i \in DOMAIN stack : stack[i].kind \in Kinds /\ stack[i].node \in {"none", "wanted", "granted"}
  BY <1>4 DEF FrameSet
<1>6. EarlyChunks \in Nat
  BY PageAssumption
<1>7. mem_early \in BOOLEAN /\ sbrk \in 0 .. EarlyChunks + 1
  BY <1>6 DEF Inv, BootOK
<1>8. halt \in {"no", "null", "early"}
  BY DEF Inv, HaltOK
<1>9. Ordered(list)
  BY <1>1 DEF ListOK
<1> QED
  BY <1>3, <1>5, <1>7, <1>8, <1>9 DEF ListOrdered, TypeOK

(* Both pointers of every loop are in the list.                            *)
LEMMA InvLive == IInv => IteratorsLive
<1> SUFFICES ASSUME NEW E, Inv(E) PROVE IteratorsLive
  BY DEF IInv
<1>1. ListOK(list, E) /\ StackOK(stack, list, mem_early, E) /\ halt # "dangling"
  BY DEF Inv, Core, HaltOK
<1>2. stack \in Seq(FrameSet) /\ DOMAIN stack = 1 .. Len(stack)
  BY <1>1, StackFacts
<1>3. ASSUME NEW f, FrameOK(f, list, E) PROVE InList(list, f.cur) /\ InList(list, f.n)
  <2>1. CASE f.node = "none"
    <3>1. Passed(list, f.cur, f.base, f.limit) /\ f.n = NextOf(list, f.cur)
      BY <1>3, <2>1 DEF FrameOK, Searches
    <3>2. InList(list, f.cur)
      BY <1>1, <3>1, PassedLive
    <3> QED
      BY <1>1, <3>1, <3>2, NextLive
  <2>2. CASE f.node # "none"
    <3>1. InList(list, f.cur) /\ Passed(list, f.n, f.base, f.limit)
      BY <1>3, <2>2 DEF FrameOK, Waits
    <3> QED
      BY <1>1, <3>1, PassedLive
  <2> QED
    BY <2>1, <2>2
<1>4. \A i \in 1 .. Len(stack) : FrameOK(stack[i], list, E)
  BY <1>1 DEF StackOK
<1> QED
  BY <1>1, <1>2, <1>3, <1>4 DEF IteratorsLive

(* An interval as a set of addresses.                                      *)
LEMMA SpanIn ==
    ASSUME NEW c \in Int \X Int
    PROVE  Range2Set(c) = {x \in Int : In(x, c)}
<1>1. PICK a, b : a = c[1] /\ b = c[2]
  OBVIOUS
<1>2. a \in Int /\ b \in Int
  BY <1>1
<1>3. a .. b = {x \in Int : a <= x /\ x <= b}
  BY <1>2
<1> QED
  BY <1>1, <1>3 DEF Range2Set, In

(* Intervals as a set of addresses.                                        *)
LEMMA SpansAny ==
    ASSUME NEW s \in Seq(Int \X Int)
    PROVE  UNION {Range2Set(c) : c \in ToSet(s)} = {x \in Int : InAny(x, s)}
<1>1. Len(s) \in Nat /\ ToSet(s) = {s[i] : i \in 1 .. Len(s)} /\ \A i \in 1 .. Len(s) : s[i] \in Int \X Int
  BY DEF ToSet
<1>2. \A i \in 1 .. Len(s) : Range2Set(s[i]) = {x \in Int : In(x, s[i])}
  BY <1>1, SpanIn
<1>3. ASSUME NEW x PROVE x \in UNION {Range2Set(c) : c \in ToSet(s)} <=> x \in Int /\ InAny(x, s)
  <2>1. x \in UNION {Range2Set(c) : c \in ToSet(s)} <=> \E i \in 1 .. Len(s) : x \in Range2Set(s[i])
    BY <1>1
  <2> QED
    BY <1>2, <2>1 DEF InAny
<1> QED
  BY <1>3

(* RAM, as a predicate.                                                    *)
LEMMA RamIs == RAM = {x \in Int : InRAM(x)}
<1>1. Nodes \in Seq(Nat \X Nat)
  BY FirmwareAssumption
<1>2. Nodes \in Seq(Int \X Int)
  <2>1. Nat \X Nat \subseteq Int \X Int
    OBVIOUS
  <2> QED
    BY <1>1, <2>1, SeqMonotonic
<1> QED
  BY <1>2, SpansAny DEF RAM, InRAM

(* The pages handed out are nobody else's.                                 *)
LEMMA InvExclusive == IInv => PagesExclusive
<1> SUFFICES ASSUME NEW E, Inv(E) PROVE PagesExclusive
  BY DEF IInv
<1>1. /\ ListOK(list, E) /\ Exclusive(list, stack, mem_early, taken, reserved)
      /\ TakenOK(taken, reserved, mem_early)
  BY DEF Inv, Core
<1>2. taken \in Seq(Int \X Int) /\ reserved \in Seq(Int \X Int)
  BY <1>1 DEF TakenOK
<1>3. DOMAIN taken = 1 .. Len(taken) /\ DOMAIN reserved = 1 .. Len(reserved)
  BY <1>2
<1>4. Covered(list) = {x \in Int : Has(list, x)}
  BY <1>1, EntriesBounded, CoveredHas DEF ListOK
<1>5. /\ \A i \in 1 .. Len(taken) : Range2Set(taken[i]) = {x \in Int : In(x, taken[i])}
      /\ \A i \in 1 .. Len(reserved) : Range2Set(reserved[i]) = {x \in Int : In(x, reserved[i])}
  BY <1>2, SpanIn
<1> SUFFICES ASSUME NEW i \in 1 .. Len(taken)
             PROVE  LET mine == Range2Set(taken[i]) IN
                    /\ taken[i][1] % Page = 0
                    /\ mine \subseteq RAM
                    /\ mine \cap Covered(list) = {}
                    /\ \A j \in DOMAIN reserved : mine \cap Range2Set(reserved[j]) = {}
                    /\ \A j \in DOMAIN taken : j # i => mine \cap Range2Set(taken[j]) = {}
  BY <1>3 DEF PagesExclusive
<1> DEFINE mine == Range2Set(taken[i])
<1>6. ASSUME NEW x \in mine
      PROVE  /\ x \in RAM /\ x \notin Covered(list)
             /\ \A j \in DOMAIN reserved : x \notin Range2Set(reserved[j])
             /\ \A j \in DOMAIN taken : j # i => x \notin Range2Set(taken[j])
  <2>1. x \in Int /\ In(x, taken[i])
    BY <1>5
  <2>2. InRAM(x) /\ ~InAny(x, reserved) /\ \A j \in 1 .. Len(taken) : j # i => ~In(x, taken[j])
    BY <1>1, <2>1 DEF TakenOK
  <2>3. ~Has(list, x)
    <3>1. InAny(x, taken)
      BY <2>1 DEF InAny
    <3> QED
      BY <1>1, <2>1, <3>1, HasIsFree DEF Exclusive
  <2>4. x \in RAM
    BY <2>1, <2>2, RamIs
  <2>5. \A j \in 1 .. Len(reserved) : ~In(x, reserved[j])
    BY <2>2 DEF InAny
  <2> QED
    BY <1>3, <1>4, <1>5, <2>2, <2>3, <2>4, <2>5
<1>7. taken[i][1] % Page = 0
  BY <1>1 DEF TakenOK
<1> HIDE DEF mine
<1>8. /\ mine \subseteq RAM /\ mine \cap Covered(list) = {}
      /\ \A j \in DOMAIN reserved : mine \cap Range2Set(reserved[j]) = {}
      /\ \A j \in DOMAIN taken : j # i => mine \cap Range2Set(taken[j]) = {}
  BY <1>6
<1> QED
  BY <1>7, <1>8 DEF mine

(* Every address is accounted for.                                         *)
LEMMA InvNothingLost == IInv => NothingLost
<1> SUFFICES ASSUME NEW E, Inv(E), stack = <<>>, nodes = <<>>
             PROVE  RAM \subseteq Covered(list) \cup UNION {Range2Set(i) : i \in ToSet(reserved) \cup ToSet(taken)}
  BY DEF IInv, NothingLost
<1>1. Core(list, <<>>, mem_early, taken, reserved, Added, E)
  BY DEF Inv
<1>2. ListOK(list, E) /\ TakenOK(taken, reserved, mem_early) /\ KeptOK(Added, list, taken, reserved)
  BY <1>1, Idle
<1>3. taken \in Seq(Int \X Int) /\ reserved \in Seq(Int \X Int)
  BY <1>2 DEF TakenOK
<1>4. Covered(list) = {x \in Int : Has(list, x)}
  BY <1>2, EntriesBounded, CoveredHas DEF ListOK
<1>5. /\ UNION {Range2Set(c) : c \in ToSet(taken)} = {x \in Int : InAny(x, taken)}
      /\ UNION {Range2Set(c) : c \in ToSet(reserved)} = {x \in Int : InAny(x, reserved)}
  BY <1>3, SpansAny
<1>6. Len(Nodes) \in Nat
  BY FirmwareAssumption
<1>7. Added = Len(Nodes)
  BY <1>6 DEF Added
<1>8. ASSUME NEW x \in RAM
      PROVE  \/ x \in Covered(list) \/ x \in UNION {Range2Set(c) : c \in ToSet(taken)}
             \/ x \in UNION {Range2Set(c) : c \in ToSet(reserved)}
  <2>1. x \in Int /\ InRAM(x)
    BY RamIs
  <2>2. \E i \in 1 .. Added : In(x, Nodes[i])
    BY <1>7, <2>1 DEF InRAM, InAny
  <2>3. Has(list, x) \/ InAny(x, taken) \/ InAny(x, reserved)
    BY <1>2, <2>1, <2>2 DEF KeptOK
  <2> QED
    BY <1>4, <1>5, <2>1, <2>3
<1> QED
  BY <1>8

-----------------------------------------------------------------------------
(* The invariant holds in every reachable state.                           *)
THEOREM Invariance == Spec => []IInv
<1>1. Init => IInv
  BY InitInv
<1>2. IInv /\ [Next]_vars => IInv'
  BY NextInv
<1> QED
  BY <1>1, <1>2, PTL DEF Spec

(* In the middle of any nest of range_remove and mem_get_pages calls the   *)
(* list of free ranges is sorted and disjoint, each range has a structure  *)
(* of its own, and no BUG of range_add or range_remove fires.              *)
THEOREM ListOrderedAlways == Spec => []ListOrdered
BY Invariance, InvOrdered, PTL

(* No range_remove, however deep it was interrupted by mem_get_pages, is   *)
(* left with a pointer to a node that is not in the list.                  *)
THEOREM IteratorsLiveAlways == Spec => []IteratorsLive
BY Invariance, InvLive, PTL

(* The pages that mem_get_pages returns are aligned, are RAM, were not     *)
(* reserved by mem_init, are not free and belong to no other call.         *)
THEOREM PagesExclusiveAlways == Spec => []PagesExclusive
BY Invariance, InvExclusive, PTL

(* Between calls every address of RAM is free, reserved or handed out.     *)
THEOREM NothingLostAlways == Spec => []NothingLost
BY Invariance, InvNothingLost, PTL
=============================================================================
