------------------------------- MODULE Malloc -------------------------------
(***************************************************************************)
(* The calls of dlmalloc (lib/malloc.c): malloc, free, memalign, realloc,  *)
(* independent_comalloc and bulk_free, each run to its end by the one      *)
(* thread of the program, which frees what it holds and nothing else.      *)
(***************************************************************************)
EXTENDS MallocSys, FiniteSets

CONSTANTS
    MaxRequest,     \* MAX_REQUEST, in bytes
    Workloads       \* what the program asks of the heap, see load

VARIABLES
    m,      \* malloc_state and the heap
    live,   \* what the program holds: [p, bytes, align] with p the chunk
    load    \* [ranges, malloc, memalign, realloc, elements, keep, bulk,
            \* blocks, calls]: the free ranges after mem_init, the sizes each
            \* call asks for, those that are never freed, whether bulk_free
            \* is used, how many blocks are held at once and how many calls
            \* are left

vars == <<m, live, load>>

(* RTCHECK: a check that fails stops the machine.                          *)
RTCHECK(s, ok, then) == IF ok THEN then ELSE Halt(s, "abort")
ok_address(s, a) == a >= s.least_addr

(***************************************************************************)
(* malloc.                                                                 *)
(***************************************************************************)
(* Where the rest of a split chunk goes.                                   *)
KeepRest(s, to, p, size) ==
    CASE to = "dv" -> replace_dv(s, p, size)
      [] to = "same_dv" -> SetDv(s, p, size)
      [] to = "bin" -> insert_chunk(s, p, size)

(* What is left of a chunk of size s behind the nb units used of it: too   *)
(* little for a chunk is used up as well.                                  *)
UseChunk(s, p, size, nb, to) ==
    Ret(IF size - nb < MIN_CHUNK_SIZE THEN set_inuse_and_pinuse(s, p, size)
        ELSE KeepRest(set_size_and_pinuse_of_free_chunk(
                          set_size_and_pinuse_of_inuse_chunk(s, p, nb), p + nb, size - nb),
                      to, p + nb, size - nb), p)

tmalloc_small(s, nb) ==
    LET t == s.tree[Least(MarkedFrom(s, 0))]
        v == Smallest(s, t, LeftWalk(t, <<>>))
    IN  RTCHECK(s, ok_address(s, v), UseChunk(unlink_large_chunk(s, v), v, s.mem[v].size, nb, "dv"))

tmalloc_large(s, nb, v) ==
    RTCHECK(s, ok_address(s, v), UseChunk(unlink_large_chunk(s, v), v, s.mem[v].size, nb, "bin"))

(* Bug: dv is used although a chunk of a bin fits better.                  *)
BetterThanDv_Never(s, v, nb) == s.dvsize < nb

(* rsize < (size_t)(m->dvsize - nb), which wraps when dv is too small.     *)
BetterThanDv(s, v, nb) == s.dvsize < nb \/ s.mem[v].size < s.dvsize

UseDv(s, nb) == UseChunk(SetDv(s, 0, 0), s.dv, s.dvsize, nb, "same_dv")

BiggerBins(s, nb) == {z \in DOMAIN s.small : z > nb /\ s.small[z] # <<>>}

(* The range_t that malloc returned.                                       *)
AddNode(s) == [s EXCEPT !.nodes = @ \cup {s.ret}]

RECURSIVE dlmalloc(_, _)

(* mem_get_pages. When it splits a range, range_add allocates a node.      *)
MMAP(s, size) ==
    LET fit == {k \in DOMAIN s.ranges : Fits(s.ranges[k], size)}
        k == Least(fit)
        r == s.ranges[k]
        lo == AlignUp(r.base, PageSize)
        cut == [s EXCEPT !.ranges[k].base = lo + size]
    IN  IF s.segs = <<>> THEN Give(s, EarlyMemory, size)
        ELSE IF fit = {} THEN Halt(s, "null")
        ELSE Give(IF r.base = lo THEN cut
                  ELSE AddRange(AddNode(dlmalloc(cut, RANGE_T)), [base |-> r.base, limit |-> lo - 1]), lo, size)

(* A chunk of its own pages, marked by neither bit; prev_foot is its       *)
(* offset in them.                                                         *)
OwnPages(got, mmsize) ==
    LET mm == got.got
        psize == mmsize - MMAP_FOOT_PAD
        put == PutWord(PutWord(got.mem, mm, [Blank EXCEPT !.size = psize]), mm + psize, Fencepost)
    IN  IF got.halt # "no" THEN got ELSE Ret(Lower([got EXCEPT !.mem = put], mm), mm)

mmap_alloc(s, nb) ==
    LET mmsize == AlignUp(nb + 4, PageSize) IN OwnPages(MMAP(s, mmsize), mmsize)

(* The state of malloc after mem_get_pages answered: another malloc may    *)
(* have run in between, so everything is read again.                       *)
UsePages(got, asize, nb) ==
    LET tbase == got.got
        append == Above(got, tbase)
        below == {k \in DOMAIN got.segs : got.segs[k].base = tbase + asize}
        grown == [got EXCEPT !.segs[CHOOSE k \in append : TRUE].size = @ + asize]
        down == [Lower(got, tbase) EXCEPT !.segs[CHOOSE k \in below : TRUE] =
                     [@ EXCEPT !.base = tbase, !.size = @ + asize]]
    IN  IF got.halt # "no" THEN got
        ELSE IF got.top = 0 THEN SplitTop(NewSegment(got, tbase, asize), nb)
        ELSE IF append # {} THEN SplitTop(init_top(grown, got.top, got.topsize + asize), nb)
        ELSE IF below # {} THEN prepend_alloc(down, tbase, tbase + asize, nb)
        ELSE SplitTop(add_segment(Lower(got, tbase), tbase, asize), nb)

sys_alloc(s, nb) ==
    IF s.use_mmap /\ nb >= MmapThreshold /\ s.topsize # 0 THEN mmap_alloc(s, nb)
    ELSE LET asize == AlignUp(nb + TOP_FOOT_SIZE + 1, Granularity)
         IN  UsePages(MMAP(s, asize), asize, nb)

dlmalloc(s, bytes) ==
    LET nb == request2size(bytes)
        Rest == IF nb <= s.dvsize THEN UseDv(s, nb)
                ELSE IF nb < s.topsize THEN SplitTop(s, nb)
                ELSE sys_alloc(s, nb)
        Large(fit) == IF fit # {} THEN tmalloc_large(s, nb, CHOOSE v \in fit : TRUE) ELSE Rest
    IN  IF bytes >= MaxRequest THEN Ret(s, 0)
        ELSE IF bytes > MAX_SMALL_REQUEST
        THEN Large({v \in LargeFit(s, nb) : BetterThanDv(s, v, nb)})
        ELSE IF s.small[nb] # <<>>
        THEN LET p == Head(s.small[nb])
             IN  Ret(set_inuse_and_pinuse(unlink_small_chunk(s, p, nb), p, nb), p)
        ELSE IF nb > s.dvsize /\ BiggerBins(s, nb) # {}
        THEN LET z == Least(BiggerBins(s, nb))
                 p == Head(s.small[z])
             IN  UseChunk(unlink_small_chunk(s, p, z), p, z, nb, "dv")
        ELSE IF nb > s.dvsize /\ MarkedFrom(s, 0) # {} THEN tmalloc_small(s, nb)
        ELSE Rest

(***************************************************************************)
(* free. Merge(s, p, psize) is what dispose_chunk and free have in common: *)
(* the chunk joins its free neighbours and becomes part of top or dv, or   *)
(* goes to a bin.                                                          *)
(***************************************************************************)
Forward(s, p, psize, next) ==
    set_size_and_pinuse_of_free_chunk(unlink_chunk(s, next, s.mem[next].size), p, psize + s.mem[next].size)

MergeForward(s, p, psize, next) ==
    IF next = s.top
    THEN LET t == SetTop(s, p, s.topsize + psize) IN IF p = s.dv THEN SetDv(t, 0, 0) ELSE t
    ELSE IF next = s.dv
    THEN SetDv(set_size_and_pinuse_of_free_chunk(s, p, psize + s.dvsize), p, psize + s.dvsize)
    ELSE LET all == psize + (IF s.mem[next].c THEN 0 ELSE s.mem[next].size)
             f == IF s.mem[next].c THEN set_free_with_pinuse(s, p, psize, next) ELSE Forward(s, p, psize, next)
         IN  IF p = s.dv /\ ~s.mem[next].c THEN SetDv(f, p, all) ELSE [insert_chunk(f, p, all) EXCEPT !.binned = all]

Merge(s, p, psize) ==
    LET next == p + psize
        prevsize == s.mem[p].foot
        prev == p - prevsize
        full == psize + prevsize
    IN  IF s.mem[p].p THEN MergeForward(s, p, psize, next)
        ELSE RTCHECK(s, ok_address(s, prev),
             IF prev # s.dv THEN MergeForward(unlink_chunk(s, prev, prevsize), prev, full, next)
             ELSE IF s.mem[next].c /\ s.mem[next].p
             THEN SetDv(set_free_with_pinuse(s, prev, full, next), prev, full)
             ELSE MergeForward(s, prev, full, next))

dispose_chunk(s, p, psize) == IF is_mmapped(s.mem[p]) THEN Halt(s, "unmap") ELSE Merge(s, p, psize)

(* Top has grown, or a chunk for a tree counts towards the next release.   *)
Trim(f, topsize) ==
    LET counted == [f EXCEPT !.release_checks = @ - 1]
    IN  IF f.topsize # topsize THEN IF should_trim(f) THEN sys_trim(f) ELSE f
        ELSE IF is_small(f.binned) THEN f
        ELSE IF counted.release_checks = 0 THEN release_unused_segments(counted) ELSE counted

dlfree(s, p) ==
    LET w == s.mem[p]
    IN  IF ~(ok_address(s, p) /\ is_inuse(w)) THEN Halt(s, "abort")
        ELSE IF is_mmapped(w) THEN Halt(s, "unmap")
        ELSE IF ~s.mem[p + w.size].p THEN Halt(s, "abort")
        ELSE Trim(Merge([s EXCEPT !.binned = 0], p, w.size), s.topsize)

(***************************************************************************)
(* memalign and realloc.                                                   *)
(***************************************************************************)
(* A chunk in use is cut after nb units and the rest is freed.             *)
CutChunk(s, p, nb) ==
    LET size == s.mem[p].size
    IN  dispose_chunk(set_inuse(set_inuse(s, p, nb), p + nb, size - nb), p + nb, size - nb)

(* At least a chunk, and a power of 2.                                     *)
RealAlignment(a) == Least({x \in {2 ^ k : k \in 1 .. 20} : x >= a})

(* The first aligned place that leaves nothing or a whole chunk before it. *)
AlignedChunk(p, a) ==
    LET br == AlignUp(p + 1, a) - 1
    IN  IF br = p \/ br - p >= MIN_CHUNK_SIZE THEN br ELSE br + a

(* Bug: the offset in the pages is not kept up.                            *)
MoveStart_KeepFoot(w, lead) == [w EXCEPT !.size = @ - lead]

MoveStart(w, lead) == [w EXCEPT !.size = @ - lead, !.foot = @ + lead]

CutLead(s, p, newp) ==
    IF newp = p THEN s
    ELSE dispose_chunk(set_inuse(set_inuse(s, newp, s.mem[p].size - (newp - p)), p, newp - p), p, newp - p)

CutTail(s, p, nb) == Ret(IF s.mem[p].size > nb + MIN_CHUNK_SIZE THEN CutChunk(s, p, nb) ELSE s, p)

(* A chunk of its own pages only moves its start.                          *)
Align(got, p, newp, nb) ==
    IF is_mmapped(got.mem[p])
    THEN Ret([got EXCEPT !.mem = PutWord([x \in DOMAIN @ \ {p} |-> @[x]], newp, MoveStart(@[p], newp - p))], newp)
    ELSE CutTail(CutLead(got, p, newp), newp, nb)

AlignResult(got, a, nb) ==
    IF got.halt # "no" \/ got.ret = 0 THEN got ELSE Align(got, got.ret, AlignedChunk(got.ret, a), nb)

internal_memalign(s, alignment, bytes) ==
    LET a == RealAlignment(alignment)
        nb == request2size(bytes)
    IN  IF bytes >= MaxRequest - a * UNIT THEN Ret(s, 0)
        ELSE AlignResult(dlmalloc(s, nb * UNIT + a * UNIT + MIN_CHUNK_SIZE * UNIT - CHUNK_OVERHEAD), a, nb)

(* HAVE_MREMAP is 0: mremap always fails.                                  *)
mmap_resize(s, p, nb) ==
    Ret(s, IF ~is_small(nb) /\ s.mem[p].size >= nb + 1 /\ s.mem[p].size - nb <= 2 * Granularity THEN p ELSE 0)

GrowIntoDv(s, p, nb) ==
    LET all == s.mem[p].size + s.dvsize
        r == p + nb
    IN  Ret(IF all - nb >= MIN_CHUNK_SIZE
            THEN SetDv(set_free_with_pinuse(set_inuse(s, p, nb), r, all - nb, p + all), r, all - nb)
            ELSE SetDv(set_inuse(s, p, all), 0, 0), p)

(* The resized chunk, or 0 when it must move.                              *)
try_realloc_chunk(s, p, nb) ==
    LET w == s.mem[p]
        next == p + w.size
        n == s.mem[next]
        joined == set_inuse(unlink_chunk(s, next, n.size), p, w.size + n.size)
    IN  IF ~(ok_address(s, p) /\ is_inuse(w) /\ n.p) THEN Halt(s, "abort")
        ELSE IF is_mmapped(w) THEN mmap_resize(s, p, nb)
        ELSE IF w.size >= nb
        THEN Ret(IF w.size - nb >= MIN_CHUNK_SIZE THEN CutChunk(s, p, nb) ELSE s, p)
        ELSE IF next = s.top
        THEN IF w.size + s.topsize > nb
             THEN Ret(SetTop(set_inuse(s, p, nb), p + nb, w.size + s.topsize - nb), p) ELSE Ret(s, 0)
        ELSE IF next = s.dv
        THEN IF w.size + s.dvsize >= nb THEN GrowIntoDv(s, p, nb) ELSE Ret(s, 0)
        ELSE IF ~n.c /\ w.size + n.size >= nb
        THEN Ret(IF w.size + n.size - nb < MIN_CHUNK_SIZE THEN joined ELSE CutChunk(joined, p, nb), p)
        ELSE Ret(s, 0)

(* Without a new block the old one stays.                                  *)
FreeOld(new, p) == IF new.halt # "no" \/ new.ret = 0 THEN new ELSE Ret(dlfree(new, p), new.ret)

MoveBlock(r, p, bytes) ==
    IF r.halt # "no" \/ r.ret # 0 THEN r ELSE FreeOld(dlmalloc(r, bytes), p)

dlrealloc(s, p, bytes) ==
    IF bytes >= MaxRequest THEN Ret(s, 0)
    ELSE MoveBlock(try_realloc_chunk(s, p, request2size(bytes)), p, bytes)

(***************************************************************************)
(* independent_comalloc and bulk_free.                                     *)
(***************************************************************************)
(* Elements of the given sizes and the array of their addresses, cut out   *)
(* of one chunk which may not be one of its own pages. s.ret is the first; *)
(* the array is the chunk behind the elements and takes what is left over. *)
SumOf(need) == FoldLeft(LAMBDA x, y : x + y, 0, need)

Elements(got, p, need) ==
    IF got.halt # "no" \/ p = 0 THEN got
    ELSE FoldLeft(LAMBDA x, i : set_size_and_pinuse_of_inuse_chunk(x, p + SumOf(SubSeq(need, 1, i - 1)), need[i]),
                  set_size_and_pinuse_of_inuse_chunk(got, p + SumOf(need), got.mem[p].size - SumOf(need)),
                  [i \in DOMAIN need |-> i])

SplitElements(got, need) == [Elements(got, got.ret, need) EXCEPT !.use_mmap = TRUE]

ialloc(s, sizes) ==
    LET need == [i \in DOMAIN sizes |-> request2size(sizes[i])]
        array == request2size(Len(sizes) * SIZE_T_SIZE)
    IN  SplitElements(dlmalloc([s EXCEPT !.use_mmap = FALSE], (SumOf(need) + array) * UNIT - CHUNK_OVERHEAD), need)

(* One round of bulk_free: a chunk whose right neighbour is the next one   *)
(* of the array joins it, any other is disposed of.                        *)
BulkStep(acc, k) ==
    LET s == acc.s
        p == acc.array[k]
        w == s.mem[p]
        next == p + w.size
    IN  IF s.halt # "no" THEN acc
        ELSE IF ~(ok_address(s, p) /\ is_inuse(w)) THEN [acc EXCEPT !.s = Halt(s, "abort")]
        ELSE IF k < Len(acc.array) /\ acc.array[k + 1] = next
        THEN [s |-> set_inuse(s, p, w.size + s.mem[next].size), array |-> [acc.array EXCEPT ![k + 1] = p]]
        ELSE [acc EXCEPT !.s = dispose_chunk(s, p, w.size)]

TrimAfter(done) == IF done.halt = "no" /\ should_trim(done) THEN sys_trim(done) ELSE done

internal_bulk_free(s, array) ==
    TrimAfter(FoldLeft(BulkStep, [s |-> s, array |-> array], [k \in DOMAIN array |-> k]).s)

(***************************************************************************)
(* The calls. What the program holds is recorded in live.                  *)
(***************************************************************************)
Block(p, bytes, align) == [p |-> p, bytes |-> bytes, align |-> align]

(* Nothing comes after what stops the machine.                             *)
Call(s, now) ==
    /\ m.halt = "no" /\ load.calls > 0
    /\ load' = [load EXCEPT !.calls = @ - 1]
    /\ IF s.halt = "no"
       THEN m' = [s EXCEPT !.ret = 0, !.binned = 0, !.got = 0] /\ live' = now
       ELSE m' = Halt(m, s.halt) /\ UNCHANGED live

Taken(s, bytes, align) == IF s.ret = 0 THEN {} ELSE {Block(s.ret, bytes, align)}
Room(n) == Cardinality(live) + n <= load.blocks

MallocCall(bytes) ==
    /\ Room(1)
    /\ \E s \in {dlmalloc(m, bytes)} : Call(s, live \cup Taken(s, bytes, 1))

FreeCall(b) == Call(dlfree(m, b.p), live \ {b})

MemalignCall(align, bytes) ==
    /\ Room(1)
    /\ \E s \in {internal_memalign(m, align, bytes)} : Call(s, live \cup Taken(s, bytes, align))

(* A realloc that fails leaves the old block alone.                        *)
ReallocCall(b, bytes) ==
    \E s \in {dlrealloc(m, b.p, bytes)} :
        Call(s, IF s.ret = 0 THEN live ELSE (live \ {b}) \cup Taken(s, bytes, 1))

IndependentCall(b1, b2) ==
    /\ Room(3)
    /\ \E s \in {ialloc(m, <<b1, b2>>)} :
          LET second == s.ret + request2size(b1)
          IN  Call(s, live \cup
                   (IF s.ret = 0 THEN {} ELSE {Block(s.ret, b1, 1), Block(second, b2, 1),
                                               Block(second + request2size(b2), 2 * SIZE_T_SIZE, 1)}))

BulkFreeCall(a, b) ==
    /\ a # b
    /\ Call(internal_bulk_free(m, <<a.p, b.p>>), live \ {a, b})

(* mem_init has made a range_t for each range; its mallocs are the first   *)
(* ones and come out of early_memory.                                      *)
Empty(l) ==
    [mem |-> <<>>, small |-> [z \in MIN_CHUNK_SIZE .. MIN_LARGE_SIZE - 1 |-> <<>>],
     tree |-> [i \in 0 .. compute_tree_index(MemEnd) |-> <<>>],
     dv |-> 0, dvsize |-> 0, top |-> 0, topsize |-> 0, least_addr |-> 0, trim_check |-> 0,
     release_checks |-> 0, segs |-> <<>>, ret |-> 0, halt |-> "no", use_mmap |-> TRUE,
     binned |-> 0, ranges |-> l, got |-> 0, pages |-> {}, nodes |-> {}]

NewNode(s, r) == [AddNode(dlmalloc(s, RANGE_T)) EXCEPT !.ret = 0, !.got = 0]

Init ==
    /\ load \in Workloads
    /\ m = FoldLeft(NewNode, Empty(load.ranges), load.ranges)
    /\ live = {}

Freed == {b \in live : b.bytes \notin load.keep}

Next ==
    \/ \E bytes \in load.malloc : MallocCall(bytes)
    \/ \E b \in Freed : FreeCall(b)
    \/ \E r \in load.memalign : MemalignCall(r.align, r.bytes)
    \/ \E b \in Freed, bytes \in load.realloc : ReallocCall(b, bytes)
    \/ \E e \in load.elements : IndependentCall(e[1], e[2])
    \/ load.bulk /\ \E a, b \in Freed : BulkFreeCall(a, b)

Spec == Init /\ [][Next]_vars

-----------------------------------------------------------------------------
Going == m.halt = "no"
Heads(k) == {a \in DOMAIN m.mem : Holds(m.segs[k], a)}
TopEnd == m.top + m.topsize
End(k) == IF Holds(m.segs[k], m.top) THEN TopEnd
          ELSE CHOOSE a \in Heads(k) : m.mem[a] = Fencepost
Chunks(k) == {a \in Heads(k) : a < End(k)}
AllChunks == UNION {Chunks(k) : k \in DOMAIN m.segs}
FreeChunks == {a \in AllChunks \ {m.top} : ~m.mem[a].c}
Mapped == {b \in live : is_mmapped(m.mem[b.p])}

(* Every segment is cut into chunks without gaps up to its end, the bits   *)
(* and feet of neighbours agree about which of them are free, and no free  *)
(* chunk lies next to another or to top: what free, realloc and memalign   *)
(* rely on when they look at the chunks before and behind.                 *)
BoundaryTags ==
    Going => \A k \in DOMAIN m.segs :
        LET chunks == Chunks(k)
        IN
        /\ m.segs[k].base \in chunks
        /\ \A a \in chunks :
              LET w == m.mem[a]
                  next == a + w.size
              IN  /\ next \in chunks \cup {End(k)}
                  /\ \A x \in chunks : ~(a < x /\ x < next)
                  /\ a = m.segs[k].base => w.p
                  /\ a # m.top => (m.mem[next].p <=> w.c)
                  /\ a # m.top /\ ~w.c =>
                        w.p /\ w.size >= MIN_CHUNK_SIZE /\ m.mem[next].foot = w.size /\ next # m.top
        /\ Holds(m.segs[k], m.top) => m.mem[m.top].size = m.topsize /\ TopEnd + TOP_FOOT_SIZE = m.segs[k].base + m.segs[k].size

(* The bins and dv hold the free chunks, each once and where the searches  *)
(* look for it: a small one in the bin of its size, a large one in a tree  *)
(* of its index, on the path of its size, one node per size.               *)
BinsExact ==
    LET free == FreeChunks IN Going =>
        /\ (m.dvsize = 0) = (m.dv = 0)
        /\ m.dv # 0 => m.dv \in free /\ m.mem[m.dv].size = m.dvsize
        /\ \A z \in DOMAIN m.small :
              /\ ToSet(m.small[z]) = {a \in free \ {m.dv} : m.mem[a].size = z}
              /\ IsInjective(m.small[z])
        /\ \A i \in DOMAIN m.tree :
              LET t == m.tree[i]
              IN  /\ UNION {ToSet(t[q]) : q \in DOMAIN t} =
                        {a \in free \ {m.dv} : /\ ~is_small(m.mem[a].size)
                                                     /\ compute_tree_index(m.mem[a].size) = i}
                  /\ \A q \in DOMAIN t :
                        /\ q # <<>> => Front(q) \in DOMAIN t
                        /\ t[q] # <<>> /\ IsInjective(t[q])
                        /\ \A n \in DOMAIN t[q] : m.mem[t[q][n]].size = NodeSize(m, t, q)
                        /\ q = Path(i, NodeSize(m, t, q), Len(q))
                        /\ \A u \in DOMAIN t \ {q} : NodeSize(m, t, u) # NodeSize(m, t, q)

(* The chunks in use are those the program, the page allocator and the     *)
(* segment list hold, so no two holders share one and none is lost; every  *)
(* block has the room and the alignment it was asked for.                  *)
BlocksSafe ==
    Going =>
        /\ AllChunks \ (FreeChunks \cup {m.top}) =
              {b.p : b \in live \ Mapped} \cup m.nodes \cup {m.segs[k].rec : k \in 2 .. Len(m.segs)}
        /\ Cardinality({b.p : b \in live} \cup m.nodes) = Cardinality(live) + Cardinality(m.nodes)
        /\ \A b \in live :
              /\ \E k \in 0 .. 7 : 2 ^ k >= b.align /\ (b.p + 1) % 2 ^ k = 0
              /\ m.mem[b.p].size * UNIT - (IF b \in Mapped THEN 2 ELSE 1) * SIZE_T_SIZE >= b.bytes
        /\ \A n \in m.nodes : m.mem[n].size * UNIT - SIZE_T_SIZE >= RANGE_T

(* All pages of mem_get_pages are in segments or under a chunk of their    *)
(* own, and nothing else is: no memory is lost and none is made up, also   *)
(* when malloc is entered again while it waits for pages.                  *)
PagesAccounted ==
    Going =>
        LET regions == {[base |-> m.segs[k].base, size |-> m.segs[k].size] : k \in DOMAIN m.segs}
                       \cup {[base |-> b.p - m.mem[b.p].foot,
                              size |-> m.mem[b.p].foot + m.mem[b.p].size + MMAP_FOOT_PAD] : b \in Mapped}
            Units(S) == UNION {g.base .. g.base + g.size - 1 : g \in S}
        IN  /\ Units(regions) = Units(m.pages)
            /\ \A g, h \in regions : g = h \/ Units({g}) \cap Units({h}) = {}

(* With blocks freed once and only by their holder no runtime check fires. *)
NoAbort == m.halt # "abort"

(* malloc of a large size takes the best fitting free chunk, dv included,  *)
(* and no call of malloc asks for pages while a free chunk or top has room.*)
BestFit ==
    [][\A b \in live' : b.align = 1 /\ live' = live \cup {b} /\ b \notin live =>
         LET nb == request2size(b.bytes)
             fits == {a \in FreeChunks : m.mem[a].size >= nb}
         IN  /\ fits # {} \/ nb < m.topsize => m'.pages = m.pages
             /\ fits # {} /\ ~is_small(nb) =>
                    b.p \in fits /\ \A a \in fits : m.mem[b.p].size <= m.mem[a].size]_vars
=============================================================================
