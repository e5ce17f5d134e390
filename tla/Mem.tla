-------------------------------- MODULE Mem ---------------------------------
(***************************************************************************)
(* The hypervisor's page allocator (mem.c over lib/ranges.c). Its list of  *)
(* free ranges is made of nodes that come from mem_malloc, and mem_malloc  *)
(* (dlmalloc) gets its own memory from mem_get_pages: splitting a range    *)
(* may call the allocator again, in the middle of range_remove's loop over *)
(* the same list. The call stack is explicit so that this is visible.      *)
(*                                                                         *)
(* dlmalloc is external: an allocation of a node is served from its pool   *)
(* or makes it ask for Chunk more bytes first, and either may happen.      *)
(***************************************************************************)
EXTENDS Ranges, FiniteSets

CONSTANTS
    Page,           \* PAGE_SIZE
    Chunk,          \* what dlmalloc asks for when its pool is empty
    Lengths,        \* page multiples that larger allocations ask for
    Nodes,          \* memory nodes of the device tree: a sequence of intervals
    Image,          \* the program itself, _start to _end
    Vectors,        \* the exception vectors, copied to address 0
    Fdt,            \* the device tree: [base, size_dt_struct, totalsize]
    Reservations,   \* sequences of firmware reservations followed by the initrd
    EarlyChunks     \* how many chunks early_memory holds

(* The BUG_ONs of mem_get_pages on a length.                               *)
ASSUME PageAssumption ==
    /\ Page \in Nat /\ Page >= 2 /\ EarlyChunks \in Nat
    /\ \A l \in Lengths \cup {Chunk} : l \in Nat \ {0} /\ l % Page = 0

ListHead == 0                   \* &mem_free_ranges, where every loop ends
Ids == Nat \ {0}                \* addresses of range_t structures

VARIABLES
    list,       \* mem_free_ranges: a sequence of [id, base, limit]
    stack,      \* active range_remove calls, innermost last
    mem_early,  \* mem_early
    sbrk,       \* chunks of early_memory used
    nodes,      \* memory nodes still to be added by mem_init
    resv,       \* intervals still to be removed by mem_init
    reserved,   \* intervals removed by mem_init so far
    taken,      \* intervals mem_get_pages has returned, in order
    halt        \* "no", or what stopped the machine

vars == <<list, stack, mem_early, sbrk, nodes, resv, reserved, taken, halt>>
boot == <<mem_early, sbrk, nodes, resv>>

ALIGN(x) == x - (x % Page)
ALIGN_UP(x) == ALIGN(x + Page - 1)

Range2Set(i) == i[1] .. i[2]
RAM == UNION {Range2Set(i) : i \in ToSet(Nodes)}

Live == {list[i].id : i \in DOMAIN list}
At(id) == CHOOSE i \in DOMAIN list : list[i].id = id

(* A structure that is not in the list, the lowest.                        *)
FreshId ==
    LET unused == 1 .. Len(list) + 1 \ Live
    IN  CHOOSE id \in unused : \A j \in unused : id <= j

(* list->next of a node, or of the head.                                   *)
NextOf(l, id) ==
    LET pos == IF id = ListHead THEN 0 ELSE CHOOSE i \in DOMAIN l : l[i].id = id
    IN  IF pos < Len(l) THEN l[pos + 1].id ELSE ListHead

InList(l, id) == id = ListHead \/ \E i \in DOMAIN l : l[i].id = id

Frame(base, limit, kind) ==
    [base |-> base, limit |-> limit, kind |-> kind, left |-> <<>>, node |-> "none",
     cur |-> NextOf(list, ListHead), n |-> NextOf(list, NextOf(list, ListHead))]

Top == stack[Len(stack)]
Running == halt = "no" /\ stack # <<>>

(* Bug: the loop does not move on.                                         *)
Advance_Stay(l, f) == [f EXCEPT !.left = <<>>, !.node = "none"]

(* pos = n, n = n->next of list_for_each_entry_safe on list l.             *)
Advance(l, f) == [f EXCEPT !.cur = f.n, !.n = NextOf(l, f.n), !.left = <<>>, !.node = "none"]

(* Ends a round of range_remove: reading n->next of a node that is no      *)
(* longer in the list reads poison or freed memory.                        *)
EndRound(l) ==
    /\ list' = l
    /\ IF InList(l, Top.n)
       THEN stack' = ReplaceAt(stack, Len(stack), Advance(l, Top)) /\ UNCHANGED halt
       ELSE halt' = "dangling" /\ UNCHANGED stack

(***************************************************************************)
(* mem_get_pages after mem_init: the first range with enough whole pages.  *)
(* limit is the last address of a range, so its last page is never used.   *)
(***************************************************************************)
(* Bug: the last page is used as well, which can consume a whole range.    *)
Fits_WholeRange(r, length) ==
    LET lo == ALIGN_UP(r.base)
        hi == ALIGN(r.limit + 1)
    IN  lo < hi /\ hi - lo >= length

Fits(r, length) ==
    LET lo == ALIGN_UP(r.base)
        hi == ALIGN(r.limit)
    IN  lo < hi /\ hi - lo >= length

(* Bug: the base is rounded down.                                          *)
PagesAt_Down(length) ==
    IF \E i \in DOMAIN list : Fits(list[i], length)
    THEN <<ALIGN(list[CHOOSE i \in DOMAIN list :
              Fits(list[i], length) /\ \A j \in 1 .. i - 1 : ~Fits(list[j], length)].base)>>
    ELSE <<>>

(* The aligned base of the first fit as a sequence of one, or none.        *)
PagesAt(length) ==
    IF \E i \in DOMAIN list : Fits(list[i], length)
    THEN <<ALIGN_UP(list[CHOOSE i \in DOMAIN list :
              Fits(list[i], length) /\ \A j \in 1 .. i - 1 : ~Fits(list[j], length)].base)>>
    ELSE <<>>

mem_get_pages(length, kind, frames) ==
    IF PagesAt(length) = <<>>
    THEN halt' = "null" /\ UNCHANGED stack      \* BUG_ON(NULL, ...), return NULL
    ELSE /\ stack' = Append(frames, Frame(PagesAt(length)[1], PagesAt(length)[1] + length - 1, kind))
         /\ UNCHANGED halt

(* A larger allocation: dlmalloc needs a segment or a direct mapping.      *)
MallocPages(length) ==
    /\ halt = "no" /\ stack = <<>> /\ ~mem_early
    /\ mem_get_pages(length, "pages", stack)
    /\ UNCHANGED <<list, boot, reserved, taken>>

(***************************************************************************)
(* mem_init.                                                               *)
(***************************************************************************)
(* What mem_init removes, in order. Of the device tree it removes the size *)
(* of the structure block only.                                            *)
FdtRemoved == <<Fdt.base, Fdt.base + Fdt.size_dt_struct - 1>>
ToReserve(others) == <<Image, Vectors, FdtRemoved>> \o others

(* Where free memory can begin before anything is allocated.               *)
FreeStarts(others) ==
    {c[1] : c \in ToSet(Nodes)} \cup {c[2] + 1 : c \in ToSet(ToReserve(others))}

(* What the firmware describes: memory nodes that do not overlap, and no   *)
(* interval of fewer than two addresses. Free memory does not begin one    *)
(* address before a reservation or a page does: the split that takes that  *)
(* reservation or page would leave a range of one address, which range_add *)
(* refuses with a BUG.                                                     *)
ASSUME FirmwareAssumption ==
    /\ Nodes \in Seq(Nat \X Nat) /\ Image \in Nat \X Nat /\ Vectors \in Nat \X Nat
    /\ Fdt.base \in Nat /\ Fdt.size_dt_struct \in Nat \ {0}
    /\ \A i, j \in DOMAIN Nodes : i # j => Nodes[i][2] < Nodes[j][1] \/ Nodes[j][2] < Nodes[i][1]
    /\ \A others \in Reservations :
        /\ others \in Seq(Nat \X Nat)
        /\ \A c \in ToSet(Nodes) \cup ToSet(ToReserve(others)) : c[1] < c[2]
        /\ \A a \in FreeStarts(others) :
            /\ \A c \in ToSet(ToReserve(others)) : a + 1 # c[1]
            /\ (a + 1) % Page # 0

(* range_add of a memory node. Its range_t comes out of early memory.      *)
AddMemory ==
    /\ halt = "no" /\ stack = <<>> /\ mem_early /\ nodes # <<>>
    /\ LET base == nodes[1][1]
           limit == nodes[1][2]
       IN  IF AddBug(list, base, limit)
           THEN halt' = "range" /\ UNCHANGED list
           ELSE /\ list' = InsertAt(list, AddPosition(list, limit),
                                    [id |-> FreshId, base |-> base, limit |-> limit])
                /\ UNCHANGED halt
    /\ nodes' = Tail(nodes)
    /\ UNCHANGED <<stack, mem_early, sbrk, resv, reserved, taken>>

(* range_remove of the image, the vectors, the device tree, a firmware     *)
(* reservation or the initrd.                                              *)
Reserve ==
    /\ halt = "no" /\ stack = <<>> /\ mem_early /\ nodes = <<>> /\ resv # <<>>
    /\ IF resv[1][1] >= resv[1][2]
       THEN halt' = "range" /\ UNCHANGED stack
       ELSE stack' = <<Frame(resv[1][1], resv[1][2], "reserve")>> /\ UNCHANGED halt
    /\ resv' = Tail(resv)
    /\ UNCHANGED <<list, mem_early, sbrk, nodes, reserved, taken>>

EndInit ==
    /\ halt = "no" /\ stack = <<>> /\ mem_early /\ nodes = <<>> /\ resv = <<>>
    /\ mem_early' = FALSE
    /\ UNCHANGED <<list, stack, sbrk, nodes, resv, reserved, taken, halt>>

(***************************************************************************)
(* range_remove, one round at a time.                                      *)
(***************************************************************************)
Round ==
    /\ Running /\ Top.node = "none" /\ Top.cur # ListHead
    /\ LET pos == At(Top.cur)
           r == list[pos]
           cut == Cut(r, Top.base, Top.limit)
       IN  \/ cut = "skip" /\ EndRound(list)
           \/ cut = "delete" /\ EndRound(RemoveAt(list, pos))
           \/ cut = "trim_base" /\ EndRound(ReplaceAt(list, pos, CutRight(r, Top.limit)))
           \/ cut = "trim_limit" /\ EndRound(ReplaceAt(list, pos, CutLeft(r, Top.base)))
           \/ /\ cut = "split"
              /\ list' = ReplaceAt(list, pos, CutRight(r, Top.limit))
              /\ stack' = ReplaceAt(stack, Len(stack),
                    [Top EXCEPT !.left = <<r.base, Top.base - 1>>, !.node = "wanted"])
              /\ UNCHANGED halt
    /\ UNCHANGED <<boot, reserved, taken>>

(* range_alloc's mem_malloc finds its pool empty and asks for a chunk: of  *)
(* early memory during mem_init, through mem_get_pages afterwards.         *)
MoreHeap ==
    /\ Running /\ Top.node = "wanted"
    /\ LET frames == ReplaceAt(stack, Len(stack), [Top EXCEPT !.node = "granted"]) IN
       \/ /\ mem_early
          /\ sbrk' = sbrk + 1
          /\ IF sbrk' > EarlyChunks
             THEN halt' = "early" /\ UNCHANGED stack
             ELSE stack' = frames /\ UNCHANGED halt
       \/ /\ ~mem_early
          /\ mem_get_pages(Chunk, "heap", frames)
          /\ UNCHANGED sbrk
    /\ UNCHANGED <<list, mem_early, nodes, resv, reserved, taken>>

(* Bug: the left part is linked at the tail.                               *)
AddLeft_Tail ==
    /\ Running /\ Top.node \in {"wanted", "granted"}
    /\ EndRound(Append(list, [id |-> FreshId, base |-> Top.left[1], limit |-> Top.left[2]]))
    /\ UNCHANGED <<boot, reserved, taken>>

(* mem_malloc returns a node: range_add links the left part of a split.    *)
AddLeft ==
    /\ Running /\ Top.node \in {"wanted", "granted"}
    /\ IF AddBug(list, Top.left[1], Top.left[2])
       THEN halt' = "range" /\ UNCHANGED <<list, stack>>
       ELSE EndRound(InsertAt(list, AddPosition(list, Top.left[2]),
                        [id |-> FreshId, base |-> Top.left[1], limit |-> Top.left[2]]))
    /\ UNCHANGED <<boot, reserved, taken>>

(* range_remove is done; mem_get_pages returns what it removed.            *)
Return ==
    /\ Running /\ Top.node = "none" /\ Top.cur = ListHead
    /\ stack' = Front(stack)
    /\ IF Top.kind = "reserve"
       THEN reserved' = Append(reserved, <<Top.base, Top.limit>>) /\ UNCHANGED taken
       ELSE taken' = Append(taken, <<Top.base, Top.limit>>) /\ UNCHANGED reserved
    /\ UNCHANGED <<list, boot, halt>>

(* BUG_ON hangs. After a NULL from mem_get_pages dlmalloc goes on with a   *)
(* segment at address 0, which is not modelled.                            *)
Halted == halt # "no" /\ UNCHANGED vars

Init ==
    /\ list = <<>> /\ stack = <<>> /\ mem_early = TRUE /\ sbrk = 0
    /\ nodes = Nodes /\ resv \in {ToReserve(others) : others \in Reservations}
    /\ reserved = <<>> /\ taken = <<>> /\ halt = "no"

Step == AddMemory \/ Reserve \/ EndInit \/ Round \/ MoreHeap \/ AddLeft \/ Return
Next == Step \/ Halted \/ \E l \in Lengths : MallocPages(l)

(* The CPU goes on executing the calls it has begun.                       *)
Spec == Init /\ [][Next]_vars /\ WF_vars(Step)

-----------------------------------------------------------------------------
Kinds == {"reserve", "pages", "heap"}

(* Every variable has its type, and each range a structure of its own.     *)
TypeOK ==
    /\ \A i \in DOMAIN list : list[i].id \in Ids
    /\ \A i, j \in DOMAIN list : i # j => list[i].id # list[j].id
    /\ \A i \in DOMAIN stack : stack[i].kind \in Kinds /\ stack[i].node \in {"none", "wanted", "granted"}
    /\ mem_early \in BOOLEAN /\ sbrk \in 0 .. EarlyChunks + 1
    /\ halt \in {"no", "null", "range", "early", "dangling"}

(* In the middle of any nest of calls the list is sorted by address, its   *)
(* ranges are disjoint and in structures of their own, and no BUG of       *)
(* range_add or range_remove fires.                                        *)
ListOrdered == TypeOK /\ Ordered(list) /\ halt # "range"

(* No loop over the free list is ever left holding a node that a nested    *)
(* call has deleted, so every pointer range_remove follows is good.        *)
IteratorsLive ==
    /\ halt # "dangling"
    /\ \A i \in DOMAIN stack : InList(list, stack[i].cur) /\ InList(list, stack[i].n)

(* Memory that was handed out is page aligned, is RAM, was not reserved,   *)
(* is not free any more and was not handed out twice, the pages of calls   *)
(* that interrupted the search of another included.                        *)
PagesExclusive ==
    \A i \in DOMAIN taken :
        LET mine == Range2Set(taken[i]) IN
        /\ taken[i][1] % Page = 0
        /\ mine \subseteq RAM
        /\ mine \cap Covered(list) = {}
        /\ \A j \in DOMAIN reserved : mine \cap Range2Set(reserved[j]) = {}
        /\ \A j \in DOMAIN taken : j # i => mine \cap Range2Set(taken[j]) = {}

(* Between calls every address of RAM is free, reserved or handed out: a   *)
(* split, trim or nested call loses nothing.                               *)
NothingLost ==
    stack = <<>> /\ nodes = <<>> /\ halt = "no" =>
        RAM \subseteq Covered(list) \cup UNION {Range2Set(i) : i \in ToSet(reserved) \cup ToSet(taken)}

(* However deep the allocator re-enters itself, every call returns.        *)
CallsReturn == stack # <<>> ~> (stack = <<>> \/ halt # "no")

(* "Remove fdt itself": no page that holds a part of the device tree,      *)
(* which rom_init still reads, is handed out.                              *)
FdtKept ==
    \A i \in DOMAIN taken : Range2Set(taken[i]) \cap (Fdt.base .. Fdt.base + Fdt.totalsize - 1) = {}

(* "no more free memory": exhaustion is caught by the BUG_ON that stands   *)
(* at the end of mem_get_pages and NULL is never handed out as memory.     *)
ExhaustionCaught == halt # "null"
=============================================================================
