----------------------------- MODULE RomProofs ------------------------------
(***************************************************************************)
(* That the client interface gives out no memory twice, keeps its list of  *)
(* available memory in whole pages, agrees with the guest on the open file *)
(* and reads what it was asked for, for every memory and disk size, every  *)
(* page size and any claims the guest may make.                            *)
(***************************************************************************)
EXTENDS Rom, ListLemmas

Edges == Multiples(PAGE_SIZE)

-----------------------------------------------------------------------------
(* Pages.                                                                  *)
LEMMA EdgesSparse == Sparse(Edges)
BY RomAssumption, MultiplesSparse DEF Edges

(* Page edges, and their distances, are multiples of the page.             *)
LEMMA EdgeIsMultiple ==
    ASSUME NEW a \in Edges, NEW b \in Edges
    PROVE  a % PAGE_SIZE = 0 /\ (b - a) % PAGE_SIZE = 0
<1>1. PAGE_SIZE \in Nat /\ PAGE_SIZE > 0
  BY RomAssumption
<1>2. \A k \in Int : (k * PAGE_SIZE) % PAGE_SIZE = 0
  BY <1>1
<1>3. PICK j \in Int : a = j * PAGE_SIZE
  BY DEF Edges, Multiples
<1>4. PICK k \in Int : b = k * PAGE_SIZE
  BY DEF Edges, Multiples
<1>5. b - a = (k - j) * PAGE_SIZE
  BY <1>1, <1>3, <1>4
<1>6. k - j \in Int
  OBVIOUS
<1> QED
  BY <1>2, <1>3, <1>5, <1>6

(* Rounding down does not go up, nor rounding up down.                     *)
LEMMA AlignFacts ==
    ASSUME NEW x \in Int, NEW a \in Nat, a > 0
    PROVE  /\ AlignTo(x, a) \in Int /\ AlignTo(x, a) <= x
           /\ AlignUpTo(x, a) \in Int /\ x <= AlignUpTo(x, a)
<1>1. \A y \in Int : y % a \in Int /\ 0 <= y % a /\ y % a < a
  OBVIOUS
<1>2. AlignTo(x, a) \in Int /\ AlignTo(x, a) <= x
  BY <1>1 DEF AlignTo
<1>3. AlignUpTo(x, a) = (x + a - 1) - ((x + a - 1) % a) /\ x + a - 1 \in Int
  BY DEF AlignUpTo, AlignTo
<1> QED
  BY <1>1, <1>2, <1>3

(* Rounding to pages gives page edges.                                     *)
LEMMA AlignEdges ==
    ASSUME NEW x \in Int
    PROVE  AlignTo(x, PAGE_SIZE) \in Edges /\ AlignUpTo(x, PAGE_SIZE) \in Edges
<1>1. PAGE_SIZE \in Nat /\ PAGE_SIZE > 0
  BY RomAssumption
<1>2. \A y \in Int : \E k \in Int : y - (y % PAGE_SIZE) = k * PAGE_SIZE
  BY <1>1
<1>3. x + PAGE_SIZE - 1 \in Int
  BY <1>1
<1> QED
  BY <1>2, <1>3 DEF AlignTo, AlignUpTo, Edges, Multiples

(* An address that is a multiple of the page is a page edge.               *)
LEMMA MultipleIsEdge == ASSUME NEW x \in Int, x % PAGE_SIZE = 0 PROVE x \in Edges
<1>1. AlignTo(x, PAGE_SIZE) = x
  BY DEF AlignTo
<1> QED
  BY <1>1, AlignEdges

(* The pages of a claim are whole, and hold its bytes.                     *)
LEMMA PagesHold ==
    ASSUME NEW out \in Nat, NEW size \in Nat, size > 0,
           NEW b, NEW l, b = ClaimedPages(out, size)[1], l = ClaimedPages(out, size)[2]
    PROVE  b \in Edges /\ b \in Int /\ l \in Int /\ l + 1 \in Edges /\ b < l /\ b <= out /\ out + size - 1 <= l
<1>1. PAGE_SIZE \in Nat /\ PAGE_SIZE > 0
  BY RomAssumption
<1> DEFINE u == AlignUpTo(out + size, PAGE_SIZE)
<1>2. b = AlignTo(out, PAGE_SIZE) /\ l = u - 1
  BY DEF ClaimedPages
<1>3. out + size \in Int
  OBVIOUS
<1>4. b \in Edges /\ u \in Edges
  BY <1>2, <1>3, AlignEdges
<1>5. b \in Int /\ b <= out
  BY <1>1, <1>2, AlignFacts
<1>6. u \in Int /\ out + size <= u
  BY <1>1, <1>3, AlignFacts
<1> HIDE DEF u
<1>7. b < u
  BY <1>5, <1>6
<1>8. b + 1 < u
  BY <1>4, <1>7, EdgesSparse DEF Sparse
<1>9. l + 1 = u
  BY <1>2, <1>6
<1> QED
  BY <1>2, <1>4, <1>5, <1>6, <1>8, <1>9

(* What range_remove leaves of a list of whole pages when it takes out the *)
(* pages of a claim.                                                       *)
Took(t, rs, lo, hi) ==
    /\ t \in Seq(Rs(Edges)) /\ Ordered(t)
    /\ \A x \in Int : Has(t, x) => Has(rs, x) /\ ~(lo <= x /\ x <= hi)

(* range_remove takes the whole pages of a claim out of the list.          *)
LEMMA TakesPages ==
    ASSUME NEW rs \in Seq(Rs(Edges)), Ordered(rs), NEW out \in Nat, NEW size \in Nat, size > 0,
           NEW t, t = range_remove(rs, ClaimedPages(out, size)[1], ClaimedPages(out, size)[2])
    PROVE  t.bug = FALSE /\ Took(t.rs, rs, out, out + size - 1)
<1> DEFINE b == ClaimedPages(out, size)[1]
           l == ClaimedPages(out, size)[2]
<1>1. b \in Edges /\ b \in Int /\ l \in Int /\ l + 1 \in Edges /\ b < l /\ b <= out /\ out + size - 1 <= l
  BY PagesHold
<1>2. t = range_remove(rs, b, l)
  OBVIOUS
<1> HIDE DEF b, l
<1>3. /\ t.rs \in Seq(Rs(Edges)) /\ Ordered(t.rs) /\ t.bug = FALSE
      /\ \A x \in Int : Has(t.rs, x) <=> Has(rs, x) /\ ~(b <= x /\ x <= l)
  BY <1>1, <1>2, EdgesSparse, RemovesRange
<1>4. ASSUME NEW x \in Int, out <= x, x <= out + size - 1 PROVE b <= x /\ x <= l
  BY <1>1, <1>4
<1> QED
  BY <1>3, <1>4 DEF Took

-----------------------------------------------------------------------------
(***************************************************************************)
(* The inductive invariant: of the memory, with av the available ranges,   *)
(* cl the claims, kd their kinds and ptr the arena pointer, no claim is    *)
(* available, only the kinds MayShare names may overlap, and what rom_init *)
(* and the arena gave out is below the arena pointer; of the files, what   *)
(* FileAgrees and ReadsRight say.                                          *)
(***************************************************************************)
Inside(x, c) == c[1] <= x /\ x <= c[2]
Disjoint(c, d) == c[2] < d[1] \/ d[2] < c[1]
Kinds == {"rom", "free", "taken", "arena"}
ByAddress == {"free", "taken"}

MemoryOK(av, cl, kd, ptr) ==
    /\ av \in Seq(Rs(Edges)) /\ Ordered(av) /\ cl \in Seq(Int \X Int)
    /\ kd \in Seq(Kinds) /\ Len(kd) = Len(cl)
    /\ \A i \in 1 .. Len(cl) : cl[i][1] <= cl[i][2] /\ (kd[i] \in ByAddress \/ cl[i][2] < ptr)
    /\ \A i \in 1 .. Len(cl), x \in Int : Inside(x, cl[i]) => ~Has(av, x)
    /\ \A i, j \in 1 .. Len(cl) : i < j /\ ~MayShare(kd[i], kd[j]) => Disjoint(cl[i], cl[j])

ArenaOK ==
    /\ arena_ptr \in {0} \cup (arena_start .. arena_end)
    /\ claims # <<>> => arena_start <= arena_ptr

FilesOK ==
    /\ cur_file \in BOOLEAN /\ handles \subseteq {"file", "disk"}
    /\ cur_file <=> "file" \in handles

CopiedOK(c) ==
    /\ c.at \in Nat /\ c.len \in Nat
    /\ c.at < TwoTo31 /\ c.at + c.len < TwoTo32 => c.from = c.at /\ c.at + c.len <= DiskLen

DiskOK ==
    /\ disk_offset \in -TwoTo31 .. TwoTo31 - 1 /\ position \in 0 .. TwoTo32
    /\ position < TwoTo31 => disk_offset = position
    /\ CopiedOK(copied)

BufferOK == \A i \in 0 .. asked.count - 1 : i \in DOMAIN buffer /\ buffer[i] = asked.sector + i

HaltOK == halt \in {"no", "init", "arena", "open"}

IInv == MemoryOK(avail, claims, kinds, arena_ptr) /\ ArenaOK /\ FilesOK /\ DiskOK /\ BufferOK /\ HaltOK

-----------------------------------------------------------------------------
(* The memory.                                                             *)
LEMMA Sizes ==
    /\ arena_start \in Int /\ arena_end \in Int /\ 0 <= arena_start /\ arena_start <= arena_end
    /\ arena_start - StackSize \in Nat /\ StackSize \in Nat /\ StackSize > 0 /\ RamSize \in Nat
BY RomAssumption DEF arena_start, arena_end

(* A longer list is the old one and its new last element.                  *)
LEMMA Appended ==
    ASSUME NEW S, NEW q \in Seq(S), NEW e \in S, NEW q2, q2 = Append(q, e), NEW n, n = Len(q)
    PROVE  /\ q2 \in Seq(S) /\ Len(q2) = n + 1 /\ q2[n + 1] = e
           /\ \A i \in 1 .. n : q2[i] = q[i]
OBVIOUS

(* A new claim that overlaps only what its kind may share.                 *)
LEMMA AddClaim ==
    ASSUME NEW av, NEW cl, NEW kd, NEW ptr \in Int, MemoryOK(av, cl, kd, ptr),
           NEW lo \in Int, NEW hi \in Int, lo <= hi, NEW k \in Kinds,
           NEW t, Took(t, av, lo, hi), NEW ptr2 \in Int, ptr <= ptr2, k \in ByAddress \/ hi < ptr2,
           \A i \in 1 .. Len(cl) : MayShare(kd[i], k) \/ Disjoint(cl[i], <<lo, hi>>),
           NEW cl2, cl2 = Append(cl, <<lo, hi>>), NEW kd2, kd2 = Append(kd, k)
    PROVE  MemoryOK(t, cl2, kd2, ptr2)
<1> DEFINE c == <<lo, hi>>
           n == Len(cl)
<1>1. cl \in Seq(Int \X Int) /\ c \in Int \X Int /\ kd \in Seq(Kinds) /\ Len(kd) = n
  BY DEF MemoryOK
<1>2. /\ cl2 \in Seq(Int \X Int) /\ Len(cl2) = n + 1 /\ cl2[n + 1] = c
      /\ \A i \in 1 .. n : cl2[i] = cl[i]
  BY <1>1
<1>21. /\ kd2 \in Seq(Kinds) /\ Len(kd2) = n + 1 /\ kd2[n + 1] = k
       /\ \A i \in 1 .. n : kd2[i] = kd[i]
  BY <1>1, Appended, SMTT(30)
<1>3. n \in Nat /\ c[1] = lo /\ c[2] = hi
  BY <1>1
<1>4. \A i \in 1 .. n : cl[i] \in Int \X Int /\ cl[i][1] \in Int /\ cl[i][2] \in Int
  BY <1>1, SMTT(30)
<1>5. \A i \in 1 .. n : MayShare(kd[i], k) \/ Disjoint(cl[i], c)
  OBVIOUS
<1> HIDE DEF c, n
<1>6. \A i \in 1 .. n + 1 : i = n + 1 \/ i \in 1 .. n
  BY <1>3
<1>7. ASSUME NEW i \in 1 .. n + 1
      PROVE  cl2[i][1] <= cl2[i][2] /\ (kd2[i] \in ByAddress \/ cl2[i][2] < ptr2)
  <2>1. CASE i = n + 1
    BY <2>1, <1>2, <1>21, <1>3
  <2>2. CASE i \in 1 .. n
    <3>1. cl[i][1] <= cl[i][2] /\ (kd[i] \in ByAddress \/ cl[i][2] < ptr)
      BY <2>2 DEF MemoryOK, n
    <3>2. cl[i][2] < ptr => cl[i][2] < ptr2
      BY <2>2, <1>4
    <3> QED
      BY <2>2, <3>1, <3>2, <1>2, <1>21
  <2> QED
    BY <2>1, <2>2, <1>6
<1>8. ASSUME NEW i \in 1 .. n + 1, NEW x \in Int, Inside(x, cl2[i]) PROVE ~Has(t, x)
  <2>1. CASE i = n + 1
    BY <2>1, <1>2, <1>3, <1>8 DEF Inside, Took
  <2>2. CASE i \in 1 .. n
    <3>1. ~Has(av, x)
      BY <2>2, <1>2, <1>8 DEF MemoryOK, n
    <3> QED
      BY <3>1 DEF Took
  <2> QED
    BY <2>1, <2>2, <1>6
<1>9. ASSUME NEW i \in 1 .. n + 1, NEW j \in 1 .. n + 1, i < j, ~MayShare(kd2[i], kd2[j])
      PROVE  Disjoint(cl2[i], cl2[j])
  <2>1. i \in 1 .. n
    BY <1>3, <1>9
  <2>2. CASE j = n + 1
    BY <2>1, <2>2, <1>2, <1>21, <1>5, <1>9
  <2>3. CASE j \in 1 .. n
    BY <2>1, <2>3, <1>2, <1>21, <1>9 DEF MemoryOK, n
  <2> QED
    BY <2>2, <2>3, <1>6
<1>10. t \in Seq(Rs(Edges)) /\ Ordered(t)
  BY DEF Took
<1> QED
  BY <1>2, <1>21, <1>7, <1>8, <1>9, <1>10 DEF MemoryOK

(* A range added to an empty list.                                         *)
LEMMA FirstRange ==
    ASSUME NEW S, Bounded(S), NEW rs \in Seq(S), Len(rs) = 0, NEW limit \in Int,
           NEW e \in S, e.base <= e.limit,
           NEW t, t = InsertAt(rs, AddPosition(rs, limit), e)
    PROVE  t \in Seq(S) /\ Ordered(t)
<1>1. Ordered(rs)
  <2>1. DOMAIN rs = {}
    OBVIOUS
  <2> QED
    BY <2>1, Zenon DEF Ordered
<1>2. PICK p : p = AddPosition(rs, limit)
  OBVIOUS
<1>3. p \in 1 .. Len(rs) + 1
  BY <1>1, <1>2, AddPositionFacts
<1>4. Slot(rs, p, e)
  BY DEF Slot
<1> QED
  BY <1>1, <1>2, <1>3, <1>4, Between

(* The claims of rom_init.                                                 *)
LEMMA InitStep == ASSUME IInv, rom_init PROVE IInv'
<1> DEFINE stack == <<arena_start - StackSize, StackSize>>
           av0 == range_add(<<>>, 0, RamSize - 1)
           av1 == Without(av0, Veneer)
           av2 == Without(av1, Trampoline)
           av3 == Without(av2, stack)
           v == Bytes(Veneer)
           w == Bytes(Trampoline)
           s == Bytes(stack)
           ptr == arena_start
           r == "rom"
<1>1. /\ avail' = av3 /\ claims' = <<v, w, s>> /\ kinds' = <<r, r, r>> /\ arena_ptr' = ptr
      /\ UNCHANGED <<cur_file, disk_offset, position, handles, copied, asked, buffer, halt>>
  BY DEF rom_init, files, disk, sectors
<1>2. /\ Veneer[1] \in Nat /\ Veneer[2] \in Nat /\ Veneer[2] > 0
      /\ Trampoline[1] \in Nat /\ Trampoline[2] \in Nat /\ Trampoline[2] > 0
      /\ Trampoline[1] + Trampoline[2] <= Veneer[1]
      /\ Veneer[1] + Veneer[2] <= ptr - StackSize
  BY LayoutAssumption, RomAssumption DEF arena_start
<1>31. r \in Kinds
  BY DEF Kinds
<1>3. /\ stack[1] = ptr - StackSize /\ stack[2] = StackSize /\ stack[1] \in Nat /\ stack[2] \in Nat /\ stack[2] > 0
      /\ ptr \in Int
  BY Sizes
<1> HIDE DEF stack, ptr, r
<1>4. MemoryOK(av0, <<>>, <<>>, ptr)
  <2> DEFINE e == [base |-> 0, limit |-> RamSize - 1]
             L == <<>>
  <2>1. RamSize \in Nat /\ RamSize > 0 /\ RamSize % PAGE_SIZE = 0
    BY RomAssumption
  <2>2. RamSize \in Edges
    BY <2>1, MultipleIsEdge
  <2>3. 0 \in Edges
    BY RomAssumption DEF Edges, Multiples
  <2>4. e \in Rs(Edges) /\ e.base = 0 /\ e.limit = RamSize - 1
    BY <2>1, <2>2, <2>3 DEF Rs
  <2>5. av0 = InsertAt(L, AddPosition(L, RamSize - 1), e)
    BY DEF range_add, Rng
  <2>6. L \in Seq(Rs(Edges)) /\ Len(L) = 0 /\ DOMAIN L = {} /\ L \in Seq(Int \X Int) /\ L \in Seq(Kinds)
    OBVIOUS
  <2> HIDE DEF L, e, av0
  <2>7. RamSize - 1 \in Int /\ e.base <= e.limit
    BY <2>1, <2>4
  <2>8. av0 \in Seq(Rs(Edges)) /\ Ordered(av0)
    BY <2>4, <2>5, <2>6, <2>7, RsBounded, FirstRange
  <2>9. MemoryOK(av0, L, L, ptr)
    BY <2>6, <2>8 DEF MemoryOK
  <2> QED
    BY <2>9 DEF L
<1> HIDE DEF av0
<1>5. MemoryOK(av1, Append(<<>>, v), Append(<<>>, r), ptr)
  <2>1. av0 \in Seq(Rs(Edges)) /\ Ordered(av0)
    BY <1>4 DEF MemoryOK
  <2>2. Took(av1, av0, Veneer[1], Veneer[1] + Veneer[2] - 1)
    BY <2>1, <1>2, TakesPages DEF Without
  <2> HIDE DEF av1
  <2> DEFINE lo == Veneer[1]
             hi == Veneer[1] + Veneer[2] - 1
  <2>3. v = <<lo, hi>>
    BY DEF Bytes
  <2>4. lo \in Int /\ hi \in Int /\ lo <= hi /\ hi < ptr /\ ptr <= ptr
    BY <1>2, <1>3
  <2> HIDE DEF lo, hi, v
  <2>5. Took(av1, av0, lo, hi)
    BY <2>2 DEF lo, hi
  <2>6. Len(<<>>) = 0
    OBVIOUS
  <2>7. \A i \in 1 .. 0 : MayShare(<<>>[i], r) \/ Disjoint(<<>>[i], <<lo, hi>>)
    OBVIOUS
  <2> QED
    BY <2>3, <2>4, <2>5, <2>6, <2>7, <1>3, <1>31, <1>4, AddClaim
<1> HIDE DEF av1
<1> DEFINE c1 == Append(<<>>, v)
           k1 == Append(<<>>, r)
<1>6. c1 = <<v>> /\ Len(c1) = 1 /\ c1[1] = v /\ k1 = <<r>>
  OBVIOUS
<1>7. MemoryOK(av2, Append(c1, w), Append(k1, r), ptr)
  <2>1. av1 \in Seq(Rs(Edges)) /\ Ordered(av1)
    BY <1>5 DEF MemoryOK
  <2>2. Took(av2, av1, Trampoline[1], Trampoline[1] + Trampoline[2] - 1)
    BY <2>1, <1>2, TakesPages DEF Without
  <2> HIDE DEF av2
  <2> DEFINE lo == Trampoline[1]
             hi == Trampoline[1] + Trampoline[2] - 1
  <2>3. w = <<lo, hi>>
    BY DEF Bytes
  <2>4. lo \in Int /\ hi \in Int /\ lo <= hi /\ hi < ptr /\ ptr <= ptr
    BY <1>2, <1>3, Sizes
  <2>5. Disjoint(v, <<lo, hi>>)
    BY <1>2 DEF Disjoint, Bytes
  <2> HIDE DEF lo, hi, v, w
  <2>6. Took(av2, av1, lo, hi)
    BY <2>2 DEF lo, hi
  <2>7. \A i \in 1 .. Len(c1) : MayShare(k1[i], r) \/ Disjoint(c1[i], <<lo, hi>>)
    BY <2>5, <1>6
  <2>8. MemoryOK(av1, c1, k1, ptr)
    BY <1>5
  <2> HIDE DEF c1, k1
  <2> QED
    BY <2>3, <2>4, <2>6, <2>7, <2>8, <1>3, <1>31, AddClaim
<1> HIDE DEF av2
<1> DEFINE c2 == Append(c1, w)
           k2 == Append(k1, r)
<1>8. c2 = <<v, w>> /\ Len(c2) = 2 /\ c2[1] = v /\ c2[2] = w
  <2>1. c2 = Append(<<v>>, w)
    BY <1>6
  <2> HIDE DEF v, w, c2, c1
  <2>2. v \in {v, w} /\ w \in {v, w}
    OBVIOUS
  <2>3. c2 = <<v, w>>
    BY <2>1, <2>2, Append2
  <2> QED
    BY <2>3
<1>81. k2 = <<r, r>>
  <2>1. k2 = Append(<<r>>, r)
    BY <1>6
  <2> HIDE DEF k1, k2
  <2>2. r \in {r}
    OBVIOUS
  <2> QED
    BY <2>1, <2>2, Append2
<1>9. MemoryOK(av3, Append(c2, s), Append(k2, r), ptr)
  <2>1. av2 \in Seq(Rs(Edges)) /\ Ordered(av2)
    BY <1>7 DEF MemoryOK
  <2>2. Took(av3, av2, stack[1], stack[1] + stack[2] - 1)
    BY <2>1, <1>3, TakesPages DEF Without
  <2> HIDE DEF av3
  <2> DEFINE lo == stack[1]
             hi == stack[1] + stack[2] - 1
  <2>3. s = <<lo, hi>>
    BY DEF Bytes
  <2>4. lo \in Int /\ hi \in Int /\ lo <= hi /\ hi < ptr /\ ptr <= ptr
    BY <1>3
  <2>5. Disjoint(v, <<lo, hi>>) /\ Disjoint(w, <<lo, hi>>)
    BY <1>2, <1>3 DEF Disjoint, Bytes
  <2> HIDE DEF lo, hi, v, w, s
  <2>6. Took(av3, av2, lo, hi)
    BY <2>2 DEF lo, hi
  <2>7. \A i \in 1 .. Len(c2) : MayShare(k2[i], r) \/ Disjoint(c2[i], <<lo, hi>>)
    BY <2>5, <1>8
  <2>8. MemoryOK(av2, c2, k2, ptr)
    BY <1>7
  <2> HIDE DEF c2, k2
  <2> QED
    BY <2>3, <2>4, <2>6, <2>7, <2>8, <1>3, <1>31, AddClaim
<1>10. Append(c2, s) = <<v, w, s>>
  <2> HIDE DEF v, w, s
  <2>1. v \in {v, w, s} /\ w \in {v, w, s} /\ s \in {v, w, s}
    OBVIOUS
  <2>2. Append(<<v, w>>, s) = <<v, w, s>>
    BY <2>1, Append3
  <2> QED
    BY <2>2, <1>8
<1>101. Append(k2, r) = <<r, r, r>>
  <2>1. r \in {r}
    OBVIOUS
  <2>2. Append(<<r, r>>, r) = <<r, r, r>>
    BY <2>1, Append3
  <2> QED
    BY <2>2, <1>81
<1>11. MemoryOK(avail', claims', kinds', arena_ptr')
  BY <1>1, <1>9, <1>10, <1>101
<1>12. ArenaOK'
  BY <1>1, Sizes DEF ArenaOK, arena_start, arena_end, ptr
<1> QED
  BY <1>1, <1>11, <1>12 DEF IInv, FilesOK, DiskOK, BufferOK, HaltOK

(* A successful rom_claim of bytes that its kind may share.                *)
LEMMA TakeStep ==
    ASSUME IInv, NEW out \in Nat, NEW size \in Nat, size > 0, NEW k \in Kinds, Take(out, size, k),
           arena_ptr \in Int, arena_ptr' \in Int, arena_ptr <= arena_ptr',
           k \in ByAddress \/ out + size - 1 < arena_ptr',
           \A i \in 1 .. Len(claims) : MayShare(kinds[i], k) \/ Disjoint(claims[i], <<out, out + size - 1>>)
    PROVE  MemoryOK(avail', claims', kinds', arena_ptr') /\ halt' = halt
<1> DEFINE r == range_remove(avail, ClaimedPages(out, size)[1], ClaimedPages(out, size)[2])
           hi == out + size - 1
<1>1. MemoryOK(avail, claims, kinds, arena_ptr)
  BY DEF IInv
<1>2. avail \in Seq(Rs(Edges)) /\ Ordered(avail)
  BY <1>1 DEF MemoryOK
<1>3. r.bug = FALSE /\ Took(r.rs, avail, out, hi)
  BY <1>2, TakesPages
<1>4. avail' = r.rs /\ claims' = Append(claims, <<out, hi>>) /\ kinds' = Append(kinds, k) /\ halt' = halt
  BY <1>3 DEF Take
<1>5. hi \in Int /\ out <= hi /\ (k \in ByAddress \/ hi < arena_ptr') /\ out \in Int
  OBVIOUS
<1>6. \A i \in 1 .. Len(claims) : MayShare(kinds[i], k) \/ Disjoint(claims[i], <<out, hi>>)
  OBVIOUS
<1> HIDE DEF r, hi
<1>7. Took(avail', avail, out, hi)
  BY <1>3, <1>4
<1>8. PICK av2, cl2, kd2, ptr2 : av2 = avail' /\ cl2 = claims' /\ kd2 = kinds' /\ ptr2 = arena_ptr'
  OBVIOUS
<1>9. MemoryOK(av2, cl2, kd2, ptr2)
  BY <1>1, <1>4, <1>5, <1>6, <1>7, <1>8, AddClaim
<1> QED
  BY <1>4, <1>8, <1>9

(* Claims and the list, element by element.                                *)
LEMMA ClaimFacts ==
    ASSUME IInv, NEW i \in 1 .. Len(claims)
    PROVE  /\ claims[i][1] \in Int /\ claims[i][2] \in Int
           /\ claims[i][1] <= claims[i][2] /\ (kinds[i] \in ByAddress \/ claims[i][2] < arena_ptr)
           /\ kinds[i] \in Kinds
           /\ \A x \in Int : Inside(x, claims[i]) => ~Has(avail, x)
<1>1. claims \in Seq(Int \X Int)
  BY DEF IInv, MemoryOK
<1>2. claims[i] \in Int \X Int
  BY <1>1
<1>3. kinds[i] \in Kinds
  BY DEF IInv, MemoryOK
<1> QED
  BY <1>2, <1>3 DEF IInv, MemoryOK

(* A claim at a given address.                                             *)
LEMMA FixedStep ==
    ASSUME IInv, NEW c \in FixedClaims, claim_fixed(c[1], c[2])
    PROVE  IInv'
<1> DEFINE lo == c[1]
           size == c[2]
           hi == c[1] + c[2] - 1
           b == ClaimedPages(lo, size)[1]
           l == ClaimedPages(lo, size)[2]
           k == IF Offered(lo, size) THEN "free" ELSE "taken"
<1>1. lo \in Nat /\ size \in Nat /\ size > 0
  <2>1. c \in Nat \X (Nat \ {0})
    BY ClaimAssumption
  <2> QED
    BY <2>1
<1>2. /\ claims # <<>> /\ Take(lo, size, k) /\ arena_ptr' = arena_ptr
      /\ UNCHANGED <<cur_file, disk_offset, position, handles, copied, asked, buffer>>
  BY DEF claim_fixed, Calling, files, disk, sectors
<1>21. k \in Kinds /\ k \in ByAddress /\ (k = "taken" \/ Offered(lo, size))
  BY DEF Kinds, ByAddress
<1>3. arena_ptr \in Int /\ arena_start <= arena_ptr
  BY <1>2, Sizes DEF IInv, ArenaOK
<1>4. hi \in Int /\ lo <= hi
  BY <1>1
<1>5. b \in Int /\ l \in Int /\ b <= lo /\ hi <= l
  BY <1>1, PagesHold
<1>6. avail \in Seq(Rs(Edges)) /\ Bounded(Rs(Edges))
  BY RsBounded DEF IInv, MemoryOK
<1>7. Offered(lo, size) => \A x \in Int : b <= x /\ x <= l => Has(avail, x)
  <2>1. Covered(avail) = {x \in Int : Has(avail, x)}
    BY <1>6, CoveredHas
  <2>2. Offered(lo, size) => \A p \in b .. l : p \in Covered(avail)
    BY DEF Offered
  <2> HIDE DEF b, l, lo, size
  <2> QED
    BY <2>1, <2>2, <1>5
<1>8. ASSUME NEW i \in 1 .. Len(claims), Offered(lo, size) PROVE Disjoint(claims[i], <<lo, hi>>)
  <2>0. \A x \in Int : b <= x /\ x <= l => Has(avail, x)
    BY <1>7, <1>8
  <2> DEFINE d1 == claims[i][1]
             d2 == claims[i][2]
  <2>1. d1 \in Int /\ d2 \in Int /\ d1 <= d2 /\ \A x \in Int : d1 <= x /\ x <= d2 => ~Has(avail, x)
    BY <1>8, ClaimFacts DEF Inside
  <2> HIDE DEF b, l, d1, d2, lo, hi, size
  <2>2. d2 < lo \/ hi < d1
    <3> SUFFICES ASSUME ~(d2 < lo), ~(hi < d1) PROVE FALSE
      OBVIOUS
    <3>0. lo \in Int
      BY <1>1
    <3>1. CASE d1 <= lo
      <4>1. ~Has(avail, lo)
        BY <2>1, <3>0, <3>1
      <4> QED
        BY <4>1, <1>4, <1>5, <2>0, <3>0
    <3>2. CASE d1 > lo
      <4>1. ~Has(avail, d1)
        BY <2>1
      <4> QED
        BY <4>1, <1>4, <1>5, <2>0, <2>1, <3>0, <3>2
    <3> QED
      BY <3>0, <3>1, <3>2, <2>1
  <2> QED
    BY <2>2 DEF Disjoint, d1, d2
<1>9. MemoryOK(avail', claims', kinds', arena_ptr') /\ halt' = halt
  <2>1. arena_ptr' \in Int /\ arena_ptr <= arena_ptr'
    BY <1>2, <1>3
  <2>2. \A i \in 1 .. Len(claims) : MayShare(kinds[i], k) \/ Disjoint(claims[i], <<lo, lo + size - 1>>)
    BY <1>8, <1>21 DEF MayShare
  <2> HIDE DEF lo, size, hi, k
  <2> QED
    BY <2>1, <2>2, <1>1, <1>2, <1>21, <1>3, TakeStep
<1>10. ArenaOK'
  BY <1>2, <1>3 DEF IInv, ArenaOK, arena_start, arena_end
<1> QED
  BY <1>2, <1>9, <1>10 DEF IInv, FilesOK, DiskOK, BufferOK, HaltOK

(* A claim placed by rom_claim in its arena.                               *)
LEMMA ArenaStep ==
    ASSUME IInv, NEW c \in ArenaClaims, claim_arena(c[1], c[2])
    PROVE  IInv'
<1> DEFINE size == c[1]
           out == AlignUpTo(arena_ptr, c[2])
           hi == out + size - 1
<1>1. size \in Nat /\ size > 0 /\ c[2] \in Nat /\ c[2] > 0
  <2>1. c \in (Nat \ {0}) \X (Nat \ {0})
    BY ClaimAssumption
  <2> QED
    BY <2>1
<1>2. claims # <<>> /\ UNCHANGED <<cur_file, disk_offset, position, handles, copied, asked, buffer>>
  BY DEF claim_arena, Calling, files, disk, sectors
<1>3. arena_ptr \in Int /\ arena_start <= arena_ptr /\ arena_ptr <= arena_end /\ 0 <= arena_ptr
  BY <1>2, Sizes DEF IInv, ArenaOK
<1>4. out \in Int /\ arena_ptr <= out
  BY <1>1, <1>3, AlignFacts
<1>5. CASE out >= arena_end \/ out + size > arena_end
  <2>1. halt' = "arena" /\ UNCHANGED <<avail, claims, kinds, arena_ptr>>
    BY <1>5 DEF claim_arena, claimed
  <2> QED
    BY <1>2, <2>1 DEF IInv, MemoryOK, ArenaOK, FilesOK, DiskOK, BufferOK, HaltOK, arena_start, arena_end
<1>6. CASE ~(out >= arena_end \/ out + size > arena_end)
  <2>1. Take(out, size, "arena") /\ arena_ptr' = out + size
    BY <1>6 DEF claim_arena
  <2> HIDE DEF out, size
  <2>2. out \in Nat /\ hi \in Int /\ out <= hi /\ arena_ptr' \in Int /\ hi < arena_ptr' /\ arena_ptr <= arena_ptr'
    BY <1>1, <1>3, <1>4, <2>1
  <2>3. ASSUME NEW i \in 1 .. Len(claims) 
        PROVE  MayShare(kinds[i], "arena") \/ Disjoint(claims[i], <<out, out + size - 1>>)
    <3>1. claims[i][2] \in Int /\ (kinds[i] \in ByAddress \/ claims[i][2] < arena_ptr)
      BY <2>3, ClaimFacts
    <3>2. CASE kinds[i] \in ByAddress
      BY <3>2 DEF MayShare, ByAddress
    <3>3. CASE claims[i][2] < arena_ptr
      BY <3>1, <3>3, <1>3, <1>4 DEF Disjoint
    <3> QED
      BY <3>1, <3>2, <3>3
  <2>4. MemoryOK(avail', claims', kinds', arena_ptr') /\ halt' = halt
    <3>1. "arena" \in Kinds
      BY DEF Kinds
    <3> QED
      BY <3>1, <2>1, <2>2, <2>3, <1>1, <1>3, TakeStep
  <2>5. ArenaOK'
    <3>1. arena_ptr' \in Int /\ arena_start <= arena_ptr' /\ arena_ptr' <= arena_end
      BY <1>1, <1>3, <1>4, <1>6, <2>1, Sizes
    <3>2. arena_start' = arena_start /\ arena_end' = arena_end
      BY DEF arena_start, arena_end
    <3> HIDE DEF arena_start, arena_end
    <3> QED
      BY <3>1, <3>2, Sizes DEF ArenaOK
  <2> QED
    BY <1>2, <2>4, <2>5 DEF IInv, FilesOK, DiskOK, BufferOK, HaltOK
<1> QED
  BY <1>5, <1>6

(* Reading the available property.                                         *)
LEMMA AvailableStep == ASSUME IInv, getprop_available PROVE IInv'
<1>1. avail \in Seq(Rs(Edges))
  BY DEF IInv, MemoryOK
<1>2. ASSUME NEW i \in DOMAIN avail
      PROVE  avail[i].base % PAGE_SIZE = 0 /\ (avail[i].limit - avail[i].base + 1) % PAGE_SIZE = 0
  <2>1. avail[i] \in Rs(Edges)
    BY <1>1, <1>2
  <2> DEFINE b == avail[i].base
             l == avail[i].limit
  <2>2. b \in Int /\ l \in Int /\ b \in Edges /\ l + 1 \in Edges
    BY <2>1 DEF Rs
  <2> HIDE DEF b, l
  <2>3. b % PAGE_SIZE = 0 /\ (l + 1 - b) % PAGE_SIZE = 0
    BY <2>2, EdgeIsMultiple
  <2>4. l + 1 - b = l - b + 1
    BY <2>2
  <2> QED
    BY <2>3, <2>4 DEF b, l
<1>3. halt' = halt
  BY <1>2 DEF getprop_available
<1>4. UNCHANGED <<avail, arena_ptr, claims, kinds, cur_file, disk_offset, position, handles, copied, asked, buffer>>
  BY DEF getprop_available, claimed, files, disk, sectors
<1> QED
  BY <1>3, <1>4 DEF IInv, MemoryOK, ArenaOK, FilesOK, DiskOK, BufferOK, HaltOK, arena_start, arena_end

-----------------------------------------------------------------------------
(* guest_disk_read: the rounds overlap, but every place of the buffer gets *)
(* its own sector in each of them.                                         *)
Filled(sector, count, i) == IF i = 0 THEN <<>> ELSE [o \in 0 .. i + count - 2 |-> sector + o]

(* One round of the copy loop fills one more sector.                       *)
LEMMA RoundFills ==
    ASSUME NEW sector \in Nat, NEW count \in Nat, count > 0, NEW k \in Nat, k > 0
    PROVE  CopyRound(Filled(sector, count, k - 1), sector, count, k - 1) = Filled(sector, count, k)
<1> DEFINE F == Filled(sector, count, k - 1)
           i == k - 1
           D == DOMAIN F \cup (i .. i + count - 1)
<1>1. DOMAIN F = IF k = 1 THEN {} ELSE 0 .. k + count - 3
  <2>1. CASE k = 1
    BY <2>1 DEF Filled
  <2>2. CASE k # 1
    BY <2>2 DEF Filled
  <2> QED
    BY <2>1, <2>2
<1>2. D = 0 .. k + count - 2
  <2>1. CASE k = 1
    BY <2>1, <1>1
  <2>2. CASE k # 1
    <3>1. DOMAIN F = 0 .. k + count - 3
      BY <1>1, <2>2
    <3> QED
      BY <2>2, <3>1
  <2> QED
    BY <2>1, <2>2
<1>3. ASSUME NEW o \in 0 .. k + count - 2
      PROVE  (IF o >= i THEN sector + i + (o - i) ELSE F[o]) = sector + o
  <2>1. CASE o >= i
    BY <2>1
  <2>2. CASE o < i
    <3>1. k - 1 # 0 /\ o \in 0 .. (k - 1) + count - 2
      BY <2>2
    <3>2. F = [q \in 0 .. (k - 1) + count - 2 |-> sector + q]
      BY <3>1 DEF Filled
    <3>3. F[o] = sector + o
      BY <3>1, <3>2
    <3> QED
      BY <2>2, <3>3
  <2> QED
    BY <2>1, <2>2
<1>4. CopyRound(F, sector, count, i) = [o \in D |-> IF o >= i THEN sector + i + (o - i) ELSE F[o]]
  BY DEF CopyRound
<1>5. Filled(sector, count, k) = [o \in 0 .. k + count - 2 |-> sector + o]
  BY DEF Filled
<1> HIDE DEF F, D, i
<1>6. CopyRound(F, sector, count, i) = Filled(sector, count, k)
  BY <1>2, <1>3, <1>4, <1>5
<1> QED
  BY <1>6 DEF F, i

(* The whole loop fills the buffer with the sectors asked for.             *)
LEMMA DiskReads ==
    ASSUME NEW sector \in Nat, NEW count \in Nat, count > 0
    PROVE  guest_disk_read(sector, count) = Filled(sector, count, count)
<1> DEFINE IsRun(f) == f = [k \in 0 .. count |-> IF k = 0 THEN <<>>
                                              ELSE CopyRound(f[k - 1], sector, count, k - 1)]
           f == CHOOSE h : IsRun(h)
           g == [k \in 0 .. count |-> Filled(sector, count, k)]
<1>1. guest_disk_read(sector, count) = f[count]
  BY DEF guest_disk_read
<1>2. ASSUME NEW k \in 1 .. count
      PROVE  Filled(sector, count, k) = CopyRound(Filled(sector, count, k - 1), sector, count, k - 1)
  BY RoundFills
<1>3. Filled(sector, count, 0) = <<>>
  BY DEF Filled
<1>4. IsRun(g)
  <2>1. ASSUME NEW k \in 0 .. count
        PROVE  g[k] = IF k = 0 THEN <<>> ELSE CopyRound(g[k - 1], sector, count, k - 1)
    <3>1. CASE k = 0
      BY <3>1, <1>3
    <3>2. CASE k # 0
      <4>1. k \in 1 .. count /\ k - 1 \in 0 .. count
        BY <3>2
      <4>2. g[k - 1] = Filled(sector, count, k - 1) /\ g[k] = Filled(sector, count, k)
        BY <4>1
      <4> QED
        BY <3>2, <4>1, <4>2, <1>2
    <3> QED
      BY <3>1, <3>2
  <2>2. g = [k \in 0 .. count |-> g[k]]
    OBVIOUS
  <2> HIDE DEF g
  <2> QED
    BY <2>1, <2>2
<1>5. IsRun(f)
  <2> HIDE DEF IsRun, g
  <2> QED
    BY <1>4
<1> HIDE DEF f
<1>6. \A k \in 0 .. count : f[k] = IF k = 0 THEN <<>> ELSE CopyRound(f[k - 1], sector, count, k - 1)
  BY <1>5
<1> HIDE DEF IsRun, g
<1> DEFINE T == {k \in 0 .. count : f[k] # Filled(sector, count, k)}
<1>7. T = {}
  <2> SUFFICES ASSUME T # {} PROVE FALSE
    OBVIOUS
  <2>1. T \subseteq Nat
    OBVIOUS
  <2>2. PICK m \in T : \A y \in T : m <= y
    <3> HIDE DEF T
    <3> QED
      BY <2>1, NatMin
  <2>3. m \in 0 .. count /\ f[m] # Filled(sector, count, m)
    BY <2>2
  <2>4. m # 0
    BY <2>3, <1>3, <1>6
  <2>5. m \in 1 .. count /\ m - 1 \in 0 .. count /\ m - 1 \notin T
    BY <2>2, <2>3, <2>4
  <2>6. f[m - 1] = Filled(sector, count, m - 1)
    BY <2>5
  <2>7. f[m] = CopyRound(f[m - 1], sector, count, m - 1)
    BY <2>3, <2>4, <1>6
  <2> QED
    BY <2>3, <2>5, <2>6, <2>7, <1>2
<1>8. count \in 0 .. count
  OBVIOUS
<1> QED
  BY <1>1, <1>7, <1>8

(* Reading a file through the disk.                                        *)
LEMMA ReadFileStep ==
    ASSUME IInv, NEW sector \in 0 .. DiskSectors - 1, NEW count \in 1 .. MaxSectors, read_file(sector, count)
    PROVE  IInv'
<1>1. /\ "file" \in handles
      /\ UNCHANGED <<avail, arena_ptr, claims, kinds, cur_file, handles, disk_offset, position, copied>>
  BY DEF read_file, claimed, disk
<1>2. cur_file = TRUE
  BY <1>1 DEF IInv, FilesOK
<1>3. asked' = [sector |-> sector, count |-> count] /\ buffer' = guest_disk_read(sector, count) /\ halt' = halt
  BY <1>2 DEF read_file
<1>4. sector \in Nat /\ count \in Nat /\ count > 0
  BY RomAssumption
<1>5. buffer' = [o \in 0 .. count + count - 2 |-> sector + o]
  BY <1>3, <1>4, DiskReads DEF Filled
<1>6. asked'.sector = sector /\ asked'.count = count
  BY <1>3
<1>7. ASSUME NEW i \in 0 .. count - 1 PROVE i \in DOMAIN buffer' /\ buffer'[i] = sector + i
  BY <1>4, <1>5
<1>8. BufferOK'
  BY <1>6, <1>7 DEF BufferOK
<1> QED
  BY <1>1, <1>3, <1>8 DEF IInv, MemoryOK, ArenaOK, FilesOK, DiskOK, HaltOK, arena_start, arena_end

-----------------------------------------------------------------------------
(* The other calls on files and the disk leave memory and buffer alone.    *)
Rest == UNCHANGED <<avail, arena_ptr, claims, kinds, asked, buffer>>

(* Steps that leave memory, arena and buffer alone.                        *)
LEMMA RestKeeps == ASSUME IInv, Rest, FilesOK', DiskOK', HaltOK' PROVE IInv'
BY DEF IInv, Rest, MemoryOK, ArenaOK, BufferOK, arena_start, arena_end

(* The other operations on files.                                          *)
LEMMA FileSteps ==
    ASSUME IInv, (\E found \in BOOLEAN : open_file(found)) \/ seek_file \/ close_file
    PROVE  IInv'
<1> USE DEF FilesOK, HaltOK, claimed, files, disk, sectors, Rest, DiskOK
<1>0. FilesOK /\ DiskOK /\ HaltOK
  BY DEF IInv
<1>1. ASSUME NEW found \in BOOLEAN, open_file(found) PROVE IInv'
  <2>1. CASE cur_file
    <3>1. Rest /\ FilesOK' /\ DiskOK' /\ HaltOK'
      BY <1>0, <1>1, <2>1 DEF open_file
    <3> QED
      BY <3>1, RestKeeps
  <2>2. CASE ~cur_file
    <3>1. Rest /\ DiskOK' /\ HaltOK'
      BY <1>0, <1>1, <2>2 DEF open_file
    <3>2. /\ "file" \notin handles /\ cur_file' = found
          /\ handles' = IF found THEN handles \cup {"file"} ELSE handles
      BY <1>0, <1>1, <2>2 DEF open_file
    <3>3. FilesOK'
      BY <1>0, <1>1, <3>2
    <3> QED
      BY <3>1, <3>3, RestKeeps
  <2> QED
    BY <2>1, <2>2
<1>2. ASSUME seek_file PROVE IInv'
  <2>1. Rest /\ FilesOK' /\ DiskOK' /\ HaltOK'
    BY <1>0, <1>2 DEF seek_file
  <2> QED
    BY <2>1, RestKeeps
<1>3. ASSUME close_file PROVE IInv'
  <2>1. cur_file = TRUE
    BY <1>0, <1>3 DEF close_file
  <2>2. Rest /\ FilesOK' /\ DiskOK' /\ HaltOK'
    BY <1>0, <1>3, <2>1 DEF close_file
  <2> QED
    BY <2>2, RestKeeps
<1> QED
  BY <1>1, <1>2, <1>3

(* A number below the modulus is its own remainder.                        *)
LEMMA SmallMod == ASSUME NEW x \in Nat, NEW m \in Nat, x < m PROVE x % m = x
OBVIOUS

(* An offset cut to an int is right below 2^31, wherever it came from.     *)
LEMMA SignedPlace ==
    ASSUME NEW o \in Int, NEW p \in Nat, NEW n \in Nat, p < TwoTo31 => o = p,
           disk_offset' = Signed(o + n), position' = Place(p + n), CopiedOK(copied')
    PROVE  DiskOK'
<1>1. TwoTo31 \in Nat /\ TwoTo31 > 0 /\ TwoTo32 \in Nat /\ TwoTo32 = TwoTo31 + TwoTo31
  BY RomAssumption DEF TwoTo32
<1>2. TwoTo32' = TwoTo32 /\ CopiedOK(copied)'
  BY DEF TwoTo32, CopiedOK
<1> DEFINE u == (o + n) % TwoTo32
<1>3. u \in Int /\ 0 <= u /\ u < TwoTo32
  BY <1>1
<1>4. p + n < TwoTo31 => u = p + n
  <2> SUFFICES ASSUME p + n < TwoTo31 PROVE u = p + n
    OBVIOUS
  <2>1. o = p /\ p + n < TwoTo32 /\ p + n \in Nat
    BY <1>1
  <2> QED
    BY <1>1, <2>1, SmallMod
<1>5. disk_offset' = IF u < TwoTo31 THEN u ELSE u - TwoTo32
  BY DEF Signed
<1>6. position' = IF p + n < TwoTo32 THEN p + n ELSE TwoTo32
  BY DEF Place
<1> HIDE DEF u
<1>7. disk_offset' \in -TwoTo31 .. TwoTo31 - 1 /\ position' \in 0 .. TwoTo32
  BY <1>1, <1>3, <1>5, <1>6
<1>8. position' < TwoTo31 => disk_offset' = position'
  BY <1>1, <1>3, <1>4, <1>5, <1>6
<1> QED
  BY <1>2, <1>7, <1>8 DEF DiskOK

(* The operations on the raw disk.                                         *)
LEMMA DiskSteps ==
    ASSUME IInv, open_disk \/ close_disk \/ \E n \in Offsets : read_disk(n % TwoTo32) \/ seek_disk(n)
    PROVE  IInv'
<1> USE DEF claimed, sectors, Rest
<1>0. FilesOK /\ DiskOK /\ HaltOK
  BY DEF IInv
<1>00. TwoTo31 \in Nat /\ TwoTo31 > 0 /\ TwoTo32 \in Nat /\ TwoTo32 = TwoTo31 + TwoTo31 /\ DiskLen \in Nat
  BY RomAssumption DEF TwoTo32
<1>1. ASSUME open_disk \/ close_disk PROVE IInv'
  <2>1. Rest /\ UNCHANGED <<cur_file, copied, halt>> /\ disk_offset' = 0 /\ position' = 0
    BY <1>1 DEF open_disk, close_disk
  <2>2. handles' = handles \cup {"disk"} \/ handles' = handles \ {"disk"}
    BY <1>1 DEF open_disk, close_disk
  <2>3. FilesOK'
    BY <1>0, <2>1, <2>2 DEF FilesOK
  <2>4. HaltOK'
    BY <1>0, <2>1 DEF HaltOK
  <2>5. DiskOK'
    <3>1. CopiedOK(copied')
      BY <1>0, <2>1 DEF DiskOK
    <3>2. TwoTo32' = TwoTo32
      BY DEF TwoTo32
    <3>3. CopiedOK(copied)'
      BY <3>1, <3>2 DEF CopiedOK
    <3> HIDE DEF TwoTo32
    <3> QED
      BY <1>00, <2>1, <3>2, <3>3 DEF DiskOK
  <2> QED
    BY <2>1, <2>3, <2>4, <2>5, RestKeeps
<1>2. ASSUME NEW m \in Offsets, read_disk(m % TwoTo32) PROVE IInv'
  <2> DEFINE n == m % TwoTo32
  <2>1. n \in Nat /\ n < TwoTo32
    <3>1. m \in Nat
      BY RomAssumption
    <3> QED
      BY <1>00, <3>1
  <2> HIDE DEF n
  <2>2. Rest /\ UNCHANGED <<cur_file, handles, halt>>
    BY <1>2 DEF read_disk
  <2>3. FilesOK' /\ HaltOK'
    BY <1>0, <2>2 DEF FilesOK, HaltOK
  <2>4. CASE (disk_offset + n) % TwoTo32 <= DiskLen
    <3>1. /\ copied' = [at |-> position, len |-> n, from |-> disk_offset]
          /\ disk_offset' = Signed(disk_offset + n) /\ position' = Place(position + n)
      BY <1>2, <2>4 DEF read_disk, n
    <3>2. /\ disk_offset \in Int /\ position \in Nat /\ position <= TwoTo32
          /\ position < TwoTo31 => disk_offset = position
      BY <1>0, <1>00 DEF DiskOK
    <3>3. CopiedOK(copied')
      <4>1. copied'.at = position /\ copied'.len = n /\ copied'.from = disk_offset
        BY <3>1
      <4>2. ASSUME position < TwoTo31, position + n < TwoTo32
            PROVE  disk_offset = position /\ position + n <= DiskLen
        <5>1. disk_offset = position
          BY <3>2, <4>2
        <5>2. (position + n) % TwoTo32 = position + n
          BY <1>00, <2>1, <3>2, <4>2, SmallMod
        <5> QED
          BY <2>4, <5>1, <5>2
      <4> QED
        BY <2>1, <3>2, <4>1, <4>2 DEF CopiedOK
    <3>4. DiskOK'
      BY <2>1, <3>1, <3>2, <3>3, SignedPlace
    <3> QED
      BY <2>2, <2>3, <3>4, RestKeeps
  <2>5. CASE ~((disk_offset + n) % TwoTo32 <= DiskLen)
    <3>1. UNCHANGED <<disk_offset, position, copied>>
      BY <1>2, <2>5 DEF read_disk, n, disk
    <3>2. DiskOK'
      BY <1>0, <3>1 DEF DiskOK, CopiedOK, TwoTo32
    <3> QED
      BY <2>2, <2>3, <3>2, RestKeeps
  <2> QED
    BY <2>4, <2>5
<1>3. ASSUME NEW n \in Offsets, seek_disk(n) PROVE IInv'
  <2>1. n \in Nat
    BY RomAssumption
  <2>2. Rest /\ UNCHANGED <<cur_file, handles, halt, copied>>
    BY <1>3 DEF seek_disk
  <2>3. FilesOK' /\ HaltOK'
    BY <1>0, <2>2 DEF FilesOK, HaltOK
  <2>4. PICK z \in Nat : z = 0
    OBVIOUS
  <2>41. z + n = n
    BY <2>1, <2>4
  <2>42. disk_offset' = Signed(z + n) /\ position' = Place(z + n)
    BY <1>3, <2>41 DEF seek_disk
  <2>5. CopiedOK(copied')
    BY <1>0, <2>2 DEF DiskOK
  <2>6. DiskOK'
    BY <2>1, <2>42, <2>5, SignedPlace
  <2> QED
    BY <2>2, <2>3, <2>6, RestKeeps
<1> QED
  BY <1>1, <1>2, <1>3

-----------------------------------------------------------------------------
(* The client interface starts in a state that satisfies the invariant.    *)
LEMMA InitHolds == Init => IInv
<1> SUFFICES ASSUME Init PROVE IInv
  OBVIOUS
<1>1. MemoryOK(avail, claims, kinds, arena_ptr)
  <2> DEFINE L == <<>>
  <2>1. avail = L /\ claims = L /\ kinds = L
    BY DEF Init
  <2>2. L \in Seq(Rs(Edges)) /\ L \in Seq(Int \X Int) /\ L \in Seq(Kinds) /\ Len(L) = 0 /\ DOMAIN L = {}
    OBVIOUS
  <2> HIDE DEF L
  <2>3. Ordered(L)
    BY <2>2, Zenon DEF Ordered
  <2>4. \A i \in 1 .. Len(L) : FALSE
    BY <2>2
  <2>5. MemoryOK(L, L, L, arena_ptr)
    BY <2>2, <2>3, <2>4 DEF MemoryOK
  <2> QED
    BY <2>1, <2>5
<1>2. ArenaOK /\ FilesOK /\ HaltOK
  BY DEF Init, ArenaOK, FilesOK, HaltOK
<1>21. DiskOK
  <2>1. TwoTo31 \in Nat /\ TwoTo31 > 0 /\ TwoTo32 \in Nat /\ DiskLen \in Nat
    BY RomAssumption DEF TwoTo32
  <2>2. /\ disk_offset = 0 /\ position = 0
        /\ copied.at = 0 /\ copied.len = 0 /\ copied.from = 0
    BY DEF Init
  <2> QED
    BY <2>1, <2>2 DEF DiskOK, CopiedOK
<1>3. BufferOK
  <2>1. asked.count = 0
    BY DEF Init
  <2> QED
    BY <2>1 DEF BufferOK
<1> QED
  BY <1>1, <1>2, <1>21, <1>3 DEF IInv

(* Every step preserves the invariant.                                     *)
LEMMA Step == IInv /\ [Next]_vars => IInv'
<1> SUFFICES ASSUME IInv, [Next]_vars PROVE IInv'
  OBVIOUS
<1>1. CASE rom_init
  BY <1>1, InitStep
<1>2. CASE rom_init_fails
  <2>1. Rest /\ UNCHANGED <<cur_file, disk_offset, position, handles, copied>> /\ halt' = "init"
    BY <1>2 DEF rom_init_fails, Rest, claimed, files, disk, sectors
  <2>2. FilesOK' /\ DiskOK' /\ HaltOK'
    BY <2>1 DEF IInv, FilesOK, DiskOK, CopiedOK, HaltOK, TwoTo32
  <2> QED
    BY <2>1, <2>2, RestKeeps
<1>3. CASE Claim
  BY <1>3, FixedStep, ArenaStep DEF Claim
<1>4. CASE getprop_available
  BY <1>4, AvailableStep
<1>5. CASE (\E found \in BOOLEAN : open_file(found)) \/ seek_file \/ close_file
  BY <1>5, FileSteps
<1>6. CASE open_disk \/ close_disk \/ \E n \in Offsets : read_disk(n % TwoTo32) \/ seek_disk(n)
  BY <1>6, DiskSteps
<1>7. CASE \E s \in 0 .. DiskSectors - 1, n \in 1 .. MaxSectors : read_file(s, n)
  BY <1>7, ReadFileStep
<1>8. CASE Halted \/ UNCHANGED vars
  <2>1. Rest /\ UNCHANGED <<cur_file, disk_offset, position, handles, copied, halt>>
    BY <1>8 DEF Halted, vars, Rest, sectors
  <2>2. FilesOK' /\ DiskOK' /\ HaltOK'
    BY <2>1 DEF IInv, FilesOK, DiskOK, CopiedOK, HaltOK, TwoTo32
  <2> QED
    BY <2>1, <2>2, RestKeeps
<1> QED
  BY <1>1, <1>2, <1>3, <1>4, <1>5, <1>6, <1>7, <1>8 DEF Next

(* The invariant holds in every reachable state.                           *)
LEMMA Inductive == Spec => []IInv
BY InitHolds, Step, PTL DEF Spec

(* Whatever the guest claims, and in whatever order, the list behind the   *)
(* "available" property stays sorted and disjoint, and rom_memory_getprop  *)
(* never meets a range that is not whole pages.                            *)
THEOREM AvailableWellFormedAlways == Spec => []AvailableWellFormed
<1>1. ASSUME IInv PROVE AvailableWellFormed
  <2>1. TypeOK
    BY <1>1, RomAssumption DEF IInv, MemoryOK, ArenaOK, FilesOK, DiskOK, HaltOK, TypeOK
  <2>2. Ordered(avail) /\ halt # "avail"
    BY <1>1 DEF IInv, MemoryOK, HaltOK
  <2> QED
    BY <2>1, <2>2 DEF AvailableWellFormed
<1> QED
  BY Inductive, <1>1, PTL

(* No byte that rom_claim gave out, and none of the veneer, the trampoline *)
(* or the stack of rom_init, is ever offered as available again.           *)
THEOREM ClaimedNotAvailableAlways == Spec => []ClaimedNotAvailable
<1>1. ASSUME IInv PROVE ClaimedNotAvailable
  <2>1. Covered(avail) = {x \in Int : Has(avail, x)}
    <3>1. avail \in Seq(Rs(Edges))
      BY <1>1 DEF IInv, MemoryOK
    <3> QED
      BY <3>1, RsBounded, CoveredHas
  <2>2. DOMAIN claims = 1 .. Len(claims)
    <3>1. claims \in Seq(Int \X Int)
      BY <1>1 DEF IInv, MemoryOK
    <3> QED
      BY <3>1
  <2>3. ASSUME NEW i \in 1 .. Len(claims), NEW x \in Span(claims[i]) PROVE x \notin Covered(avail)
    <3>1. /\ claims[i][1] \in Int /\ claims[i][2] \in Int
          /\ \A y \in Int : Inside(y, claims[i]) => ~Has(avail, y)
      BY <1>1, <2>3, ClaimFacts
    <3>2. x \in Int /\ Inside(x, claims[i])
      BY <2>3, <3>1 DEF Span, Inside
    <3> QED
      BY <2>1, <3>1, <3>2
  <2> QED
    BY <2>2, <2>3 DEF ClaimedNotAvailable
<1> QED
  BY Inductive, <1>1, PTL

(* The arena gives out no byte that it or rom_init gave out before, and an *)
(* address that "available" offers belongs to no earlier claim: rom_claim  *)
(* hands a byte out twice only when the guest names an address that is not *)
(* available, or when the arena reaches what was claimed by address.       *)
THEOREM ClaimsDisjointAlways == Spec => []ClaimsDisjoint
<1>1. ASSUME IInv PROVE ClaimsDisjoint
  <2>1. DOMAIN claims = 1 .. Len(claims) /\ claims \in Seq(Int \X Int)
    <3>1. claims \in Seq(Int \X Int)
      BY <1>1 DEF IInv, MemoryOK
    <3> QED
      BY <3>1
  <2>2. ASSUME NEW i \in 1 .. Len(claims), NEW j \in 1 .. Len(claims), i < j, ~MayShare(kinds[i], kinds[j])
        PROVE  Span(claims[i]) \cap Span(claims[j]) = {}
    <3>1. Disjoint(claims[i], claims[j])
      BY <1>1, <2>2 DEF IInv, MemoryOK
    <3>2. /\ claims[i][1] \in Int /\ claims[i][2] \in Int
          /\ claims[j][1] \in Int /\ claims[j][2] \in Int
      BY <1>1, <2>2, ClaimFacts
    <3> QED
      BY <3>1, <3>2 DEF Span, Disjoint
  <2> QED
    BY <2>1, <2>2 DEF ClaimsDisjoint
<1> QED
  BY Inductive, <1>1, PTL

(* cur_file is set exactly while the guest holds the handle, so read, seek *)
(* and close of it never meet the BUG about a file that is not open.       *)
THEOREM FileAgreesAlways == Spec => []FileAgrees
<1>1. ASSUME IInv PROVE FileAgrees
  BY <1>1 DEF IInv, FilesOK, HaltOK, FileAgrees
<1> QED
  BY Inductive, <1>1, PTL

(* Reads of the disk that start below 2 GB and end below 4 GB copy what    *)
(* they ask for, and only the disk, although the offset is an int and its  *)
(* sum with the length a uint32_t; and guest_disk_read leaves the right    *)
(* sector in every place of the caller's buffer. For any disk length, any  *)
(* cluster size and any sequence of seeks and reads.                       *)
THEOREM ReadsRightAlways == Spec => []ReadsRight
<1>1. ASSUME IInv PROVE ReadsRight
  BY <1>1 DEF IInv, DiskOK, CopiedOK, BufferOK, ReadsRight
<1> QED
  BY Inductive, <1>1, PTL
=============================================================================
