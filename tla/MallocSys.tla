------------------------------ MODULE MallocSys ------------------------------
(***************************************************************************)
(* How dlmalloc gets memory from the system, as this build configures it:  *)
(* HAVE_MORECORE 0, HAVE_MREMAP 0, no footprint limit, MMAP and            *)
(* DIRECT_MMAP are mem_get_pages and MUNMAP is mem_put_pages.              *)
(*                                                                         *)
(* mem_get_pages answers from early_memory while mem_init runs, where the  *)
(* heap begins, and then from the first of the free ranges (m.ranges, see  *)
(* module Mem) that has room. When the pages do not begin where the range  *)
(* begins it splits the range, and the range_t for the other part comes    *)
(* from mem_malloc: malloc is entered again while sys_alloc waits for its  *)
(* pages (MMAP in Malloc). Out of memory it answers NULL, which is not     *)
(* MFAIL: malloc goes on to write to address 0 (halt "null").              *)
(* mem_put_pages stops the machine (halt "unmap").                         *)
(*   m.got      the answer of mem_get_pages                                *)
(*   m.pages    what it gave away                                          *)
(*   m.nodes    the chunks of its range_t structures                       *)
(***************************************************************************)
EXTENDS MallocBins

CONSTANTS
    PageSize,       \* mparams.page_size, in units
    Granularity,    \* mparams.granularity
    MmapThreshold,  \* mparams.mmap_threshold
    TrimThreshold,  \* mparams.trim_threshold
    ReleaseRate,    \* MAX_RELEASE_CHECK_RATE
    EarlyMemory,    \* early_memory
    MemEnd          \* the end of memory

ASSUME MallocAssumption ==
    /\ {PageSize, Granularity, MmapThreshold, TrimThreshold, ReleaseRate} \subseteq Nat \ {0}
    /\ Granularity % PageSize = 0 /\ MemEnd \in Nat

MAX_SIZE_T == 2 ^ 20            \* above every size
RANGE_T == 32                   \* sizeof(range_t), in bytes
SEGMENT_SIZE == 3               \* pad_request(sizeof(struct malloc_segment))
TOP_FOOT_SIZE == SEGMENT_SIZE + MIN_CHUNK_SIZE
MMAP_FOOT_PAD == 2

AlignUp(x, a) == ((x + a - 1) \div a) * a
Ret(s, p) == [s EXCEPT !.ret = p]
Halt(s, why) == IF s.halt = "no" THEN [s EXCEPT !.halt = why] ELSE s

(***************************************************************************)
(* mem_get_pages(size), its answer in got.                                 *)
(***************************************************************************)
(* The last page of a range is never used.                                 *)
Fits(r, size) ==
    LET lo == AlignUp(r.base, PageSize)
        hi == r.limit - (r.limit % PageSize)
    IN  lo < hi /\ hi - lo >= size

(* range_add of what lies before the pages, in order.                      *)
AddRange(s, r) ==
    LET k == Least({i \in 1 .. Len(s.ranges) + 1 : i > Len(s.ranges) \/ s.ranges[i].base > r.limit})
    IN  [s EXCEPT !.ranges = InsertAt(@, k, r)]

Give(s, base, size) == [s EXCEPT !.got = base, !.pages = @ \cup {[base |-> base, size |-> size]}]

(***************************************************************************)
(* Segments and top.                                                       *)
(***************************************************************************)
Holds(g, a) == g.base <= a /\ a < g.base + g.size
segment_holding(s, a) == CHOOSE k \in DOMAIN s.segs : Holds(s.segs[k], a)
has_segment_link(s, g) == \E k \in 2 .. Len(s.segs) : Holds(g, s.segs[k].rec)

(* The size of the fake chunk behind top is TOP_FOOT_SIZE.                 *)
init_top(s, p, size) ==
    LET t == SetTop(s, p, size)
    IN  [t EXCEPT !.mem = PutWord(@, p + size, [Blank EXCEPT !.size = TOP_FOOT_SIZE]),
                  !.trim_check = TrimThreshold]

SplitTop(s, nb) ==
    Ret(set_size_and_pinuse_of_inuse_chunk(SetTop(s, s.top + nb, s.topsize - nb), s.top, nb), s.top)

Fencepost == [size |-> 0, c |-> TRUE, p |-> TRUE, foot |-> 0]

(* The rest of the old top becomes an ordinary free chunk.                 *)
BinOldTop(s, p, size) == insert_chunk(set_free_with_pinuse(s, p, size, p + size), p, size)

(* The record of the old segment goes to the end of that segment, with     *)
(* fenceposts behind it (the model keeps the first), over the foot of the  *)
(* old top or, when top is too small for a chunk, over top itself.         *)
add_segment(s, tbase, tsize) ==
    LET old == s.segs[segment_holding(s, s.top)]
        asp == old.base + old.size - (SEGMENT_SIZE + MIN_CHUNK_SIZE)
        csp == IF asp < s.top + MIN_CHUNK_SIZE THEN s.top ELSE asp
        moved == init_top(s, tbase, tsize - TOP_FOOT_SIZE)
        rec == set_size_and_pinuse_of_inuse_chunk(moved, csp, SEGMENT_SIZE)
        linked == [rec EXCEPT
                     !.segs = <<[base |-> tbase, size |-> tsize, rec |-> 0],
                                [Head(@) EXCEPT !.rec = csp]>> \o Tail(@),
                     !.mem = PutWord(@, csp + SEGMENT_SIZE, Fencepost)]
    IN  IF csp # s.top THEN BinOldTop(linked, s.top, csp - s.top) ELSE linked

(* The rest of the new pages joins the first chunk of the segment.         *)
PrependRest(s, q, qsize, old) ==
    LET w == s.mem[old]
    IN  IF old = s.top THEN SetTop(s, q, s.topsize + qsize)
        ELSE IF old = s.dv
        THEN SetDv(set_size_and_pinuse_of_free_chunk(s, q, s.dvsize + qsize), q, s.dvsize + qsize)
        ELSE IF ~is_inuse(w)
        THEN insert_chunk(set_free_with_pinuse(unlink_chunk(s, old, w.size), q, qsize + w.size, old + w.size),
                          q, qsize + w.size)
        ELSE insert_chunk(set_free_with_pinuse(s, q, qsize, old), q, qsize)

(* Pages right below a segment: the chunk is cut from their start.         *)
prepend_alloc(s, newbase, oldbase, nb) ==
    Ret(PrependRest(set_size_and_pinuse_of_inuse_chunk(s, newbase, nb),
                    newbase + nb, oldbase - newbase - nb, oldbase), newbase)

(***************************************************************************)
(* Memory from the system.                                                 *)
(***************************************************************************)
(* Bug: only the first pages set it.                                       *)
Lower_First(s, a) == [s EXCEPT !.least_addr = IF @ = 0 THEN a ELSE @]

(* least_addr is the lowest address ever obtained.                         *)
Lower(s, a) == [s EXCEPT !.least_addr = IF @ = 0 \/ a < @ THEN a ELSE @]

(* The segment that ends where the new memory begins, if it holds top.     *)
Above(s, tbase) ==
    {k \in DOMAIN s.segs : s.segs[k].base + s.segs[k].size = tbase /\ Holds(s.segs[k], s.top)}

NewSegment(s, tbase, tsize) ==
    init_top(Lower([s EXCEPT !.segs = <<[base |-> tbase, size |-> tsize, rec |-> 0]>>,
                             !.release_checks = ReleaseRate], tbase),
             tbase, tsize - TOP_FOOT_SIZE)

(* A segment that is one free chunk is unmapped.                           *)
release_unused_segments(s) ==
    IF \E k \in 2 .. Len(s.segs) :
          LET g == s.segs[k]
              w == s.mem[g.base]
          IN  ~is_inuse(w) /\ w.size >= g.size - TOP_FOOT_SIZE
    THEN Halt(s, "unmap")
    ELSE [s EXCEPT !.release_checks = IF Len(s.segs) - 1 > ReleaseRate THEN Len(s.segs) - 1 ELSE ReleaseRate]

sys_trim(s) ==
    LET g == s.segs[segment_holding(s, s.top)]
        extra == ((s.topsize - TOP_FOOT_SIZE + Granularity - 1) \div Granularity - 1) * Granularity
        done == release_unused_segments(s)
    IN  IF s.topsize > TOP_FOOT_SIZE /\ g.size >= extra /\ ~has_segment_link(s, g)
        THEN Halt(s, "unmap")
        ELSE [done EXCEPT !.trim_check = IF s.topsize > @ THEN MAX_SIZE_T ELSE @]

should_trim(s) == s.topsize > s.trim_check
=============================================================================
