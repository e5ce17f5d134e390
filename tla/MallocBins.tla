----------------------------- MODULE MallocBins -----------------------------
(***************************************************************************)
(* The chunks and bins of dlmalloc (lib/malloc.c), the allocator behind    *)
(* mem_malloc, mem_memalign and mem_free. USE_LOCKS, FOOTERS and DEBUG are *)
(* 0 and one thread calls it, so the functions are operators on a record m *)
(* of malloc_state and of the memory it manages:                           *)
(*   m.mem      chunk address -> [size, c, p, foot]: the head word (chunk  *)
(*              size, CINUSE_BIT, PINUSE_BIT) and prev_foot                *)
(*   m.small    chunk size -> smallbin, as the sequence of its fd links    *)
(*   m.tree     tree index -> treebin: the node reached from the root by   *)
(*              the child indices <<0,1,..>> -> the ring of chunks of its  *)
(*              size, the tree member first and then along fd              *)
(*   m.dv, m.dvsize, m.top, m.topsize, m.least_addr, m.trim_check,         *)
(*   m.release_checks                                                      *)
(*   m.segs     the segment list, from the embedded record m->seg:         *)
(*              [base, size, rec], rec where the record lies (0: embedded) *)
(*   m.ret      the chunk of the result, 0 for a null pointer              *)
(*   m.halt     "no", or what stopped the machine                          *)
(*   m.use_mmap USE_MMAP_BIT of mflags                                     *)
(*   m.binned   the size of the chunk that free put into a bin, or 0       *)
(*   m.ranges, m.got, m.pages, m.nodes    see MallocSys                    *)
(* Addresses and chunk sizes count MALLOC_ALIGNMENT (16 bytes), of which   *)
(* every one is a multiple; requests count bytes. A head inside a chunk is *)
(* stale and a foot before a chunk in use belongs to its owner, who writes *)
(* over it: the model forgets both, so that using one is an error.         *)
(***************************************************************************)
EXTENDS Integers, SequencesExt

CONSTANT TREEBIN_SHIFT      \* 4 in units of 16 bytes (8 in bytes)

UNIT == 16                  \* MALLOC_ALIGNMENT
SIZE_T_SIZE == 8
CHUNK_OVERHEAD == SIZE_T_SIZE
MIN_CHUNK_SIZE == 2         \* sizeof(struct malloc_chunk) is 32
MIN_REQUEST == MIN_CHUNK_SIZE * UNIT - CHUNK_OVERHEAD - 1
MIN_LARGE_SIZE == 2 ^ TREEBIN_SHIFT
MAX_SMALL_REQUEST == MIN_LARGE_SIZE * UNIT - 1 - (UNIT - 1) - CHUNK_OVERHEAD

(* Bug: the chunk's own header is not counted.                             *)
request2size_NoOverhead(bytes) ==
    IF bytes < MIN_REQUEST THEN MIN_CHUNK_SIZE ELSE (bytes + UNIT - 1) \div UNIT

request2size(bytes) ==
    IF bytes < MIN_REQUEST THEN MIN_CHUNK_SIZE ELSE (bytes + CHUNK_OVERHEAD + UNIT - 1) \div UNIT

is_small(s) == s < MIN_LARGE_SIZE
is_inuse(w) == w.c \/ ~w.p
is_mmapped(w) == ~w.c /\ ~w.p

(***************************************************************************)
(* Heads and feet.                                                         *)
(***************************************************************************)
Blank == [size |-> 0, c |-> FALSE, p |-> FALSE, foot |-> 0]
Word(mem, a) == IF a \in DOMAIN mem THEN mem[a] ELSE Blank
PutWord(mem, a, w) == [x \in DOMAIN mem \cup {a} |-> IF x = a THEN w ELSE mem[x]]

(* A chunk [p, p + s): no other head lies in it.                           *)
PutHead(mem, p, s, c, pin) ==
    PutWord([x \in DOMAIN mem \ (p + 1 .. p + s - 1) |-> mem[x]], p,
            [Word(mem, p) EXCEPT !.size = s, !.c = c, !.p = pin])

set_pinuse(mem, n, pin) == PutWord(mem, n, [Word(mem, n) EXCEPT !.p = pin])
set_foot(mem, n, s) == PutWord(mem, n, [Word(mem, n) EXCEPT !.foot = s])
LoseFoot(mem, n) == IF n \in DOMAIN mem THEN set_foot(mem, n, 0) ELSE mem

set_size_and_pinuse_of_inuse_chunk(m, p, s) ==
    [m EXCEPT !.mem = LoseFoot(PutHead(@, p, s, TRUE, TRUE), p + s)]

set_inuse(m, p, s) ==
    [m EXCEPT !.mem = LoseFoot(set_pinuse(PutHead(@, p, s, TRUE, Word(@, p).p), p + s, TRUE), p + s)]

(* Bug: the next chunk is not told.                                        *)
set_inuse_and_pinuse_NoNext(m, p, s) == set_size_and_pinuse_of_inuse_chunk(m, p, s)

set_inuse_and_pinuse(m, p, s) ==
    [m EXCEPT !.mem = LoseFoot(set_pinuse(PutHead(@, p, s, TRUE, TRUE), p + s, TRUE), p + s)]

set_size_and_pinuse_of_free_chunk(m, p, s) ==
    [m EXCEPT !.mem = set_foot(PutHead(@, p, s, FALSE, TRUE), p + s, s)]

set_free_with_pinuse(m, p, s, n) ==
    set_size_and_pinuse_of_free_chunk([m EXCEPT !.mem = set_pinuse(@, n, FALSE)], p, s)

SetTop(m, p, s) ==
    [m EXCEPT !.top = p, !.topsize = s, !.mem = PutHead(@, p, s, FALSE, TRUE)]

SetDv(m, p, s) == [m EXCEPT !.dv = p, !.dvsize = s]

(***************************************************************************)
(* Small bins.                                                             *)
(***************************************************************************)
insert_small_chunk(m, p, s) == [m EXCEPT !.small[s] = <<p>> \o @]
unlink_small_chunk(m, p, s) == [m EXCEPT !.small[s] = SelectSeq(@, LAMBDA x : x # p)]

(* replace_dv: the old victim, known to be small, goes to its bin.         *)
replace_dv(m, p, s) ==
    SetDv(IF m.dvsize # 0 THEN insert_small_chunk(m, m.dv, m.dvsize) ELSE m, p, s)

(***************************************************************************)
(* Tree bins. Index i holds the sizes with one leading bit and the bit     *)
(* after it; the bits below, from SplitBit(i) down, choose the children.   *)
(***************************************************************************)
compute_tree_index(s) ==
    LET k == CHOOSE k \in 0 .. s : 2 ^ k <= s \div MIN_LARGE_SIZE /\ s \div MIN_LARGE_SIZE < 2 ^ (k + 1)
    IN  2 * k + ((s \div 2 ^ (k + TREEBIN_SHIFT - 1)) % 2)

SplitBit(i) == (i \div 2) + TREEBIN_SHIFT - 2
Bit(i, s, d) == (s \div 2 ^ (SplitBit(i) - d + 1)) % 2

(* The first d child indices that size s takes in bin i.                   *)
Path(i, s, d) == [j \in 1 .. d |-> Bit(i, s, j)]
Depths(i) == 0 .. SplitBit(i) + 1

Least(S) == CHOOSE x \in S : \A y \in S : x <= y

(* Down the path of s to a free place, or to the node of size s, whose     *)
(* ring x enters right behind the tree member.                             *)
Place(m, i, s) ==
    LET t == m.tree[i]
    IN  Path(i, s, Least({d \in Depths(i) : \/ Path(i, s, d) \notin DOMAIN t
                                            \/ m.mem[Head(t[Path(i, s, d)])].size = s}))

Enter(t, q, x) == (q :> IF q \in DOMAIN t THEN <<Head(t[q]), x>> \o Tail(t[q]) ELSE <<x>>) @@ t

insert_large_chunk(m, x, s) ==
    LET i == compute_tree_index(s) IN [m EXCEPT !.tree[i] = Enter(@, Place(m, i, s), x)]

Below(t, q) == {u \in DOMAIN t : IsStrictPrefix(q, u)}
Parent(u, j) == SubSeq(u, 1, j - 1)

(* The leaf below q that is reached by going right where one can.          *)
RightmostLeaf(t, q) ==
    CHOOSE u \in Below(t, q) :
        /\ Below(t, u) = {}
        /\ \A j \in Len(q) + 1 .. Len(u) : u[j] = 1 \/ Append(Parent(u, j), 1) \notin DOMAIN t

(* Bug: an inner node is replaced by any child, which loses the other.     *)
Replacement_Child(t, q) == CHOOSE u \in Below(t, q) : Len(u) = Len(q) + 1

Replacement(t, q) == RightmostLeaf(t, q)

(* A chunk that is not alone in its ring leaves it, the oldest one taking  *)
(* over as tree member; the last one is replaced by a leaf below it.       *)
Leave(ring, x) ==
    IF Head(ring) = x THEN <<Last(ring)>> \o Tail(Front(ring)) ELSE SelectSeq(ring, LAMBDA y : y # x)

MoveNode(t, r, q) == [u \in DOMAIN t \ {r} |-> IF u = q THEN t[r] ELSE t[u]]

Unlink(t, q, x) ==
    IF Len(t[q]) > 1 THEN [t EXCEPT ![q] = Leave(@, x)]
    ELSE MoveNode(t, IF Below(t, q) = {} THEN q ELSE Replacement(t, q), q)

unlink_large_chunk(m, x) ==
    LET i == CHOOSE i \in DOMAIN m.tree : \E q \in DOMAIN m.tree[i] : Contains(m.tree[i][q], x)
    IN  [m EXCEPT !.tree[i] = Unlink(@, CHOOSE q \in DOMAIN @ : Contains(@[q], x), x)]

insert_chunk(m, p, s) == IF is_small(s) THEN insert_small_chunk(m, p, s) ELSE insert_large_chunk(m, p, s)
unlink_chunk(m, p, s) == IF is_small(s) THEN unlink_small_chunk(m, p, s) ELSE unlink_large_chunk(m, p)

(***************************************************************************)
(* Searching a tree: the nodes from t on by leftmost_child, and the one of *)
(* least size among some nodes.                                            *)
(***************************************************************************)
LeftWalk(t, q) ==
    {u \in DOMAIN t : /\ IsPrefix(q, u)
                      /\ \A j \in Len(q) + 1 .. Len(u) :
                            u[j] = 0 \/ Append(Parent(u, j), 0) \notin DOMAIN t}

NodeSize(m, t, u) == m.mem[Head(t[u])].size
Smallest(m, t, nodes) ==
    Head(t[CHOOSE u \in nodes : \A w \in nodes : NodeSize(m, t, u) <= NodeSize(m, t, w)])

(* The treebins after index i that hold something.                         *)
MarkedFrom(m, i) == {j \in DOMAIN m.tree : j >= i /\ DOMAIN m.tree[j] # {}}

(* What tmalloc_large finds for nb, as a set of at most one chunk: the     *)
(* path of nb gives the fitting nodes on it and the deepest right subtree  *)
(* not taken, whose leftmost path is searched as well; with neither, the   *)
(* next treebin is.                                                        *)
LargeFit(m, nb) ==
    LET i == compute_tree_index(nb)
        t == m.tree[i]
        seen == {d \in Depths(i) : Path(i, nb, d) \in DOMAIN t}
        onpath == {u \in {Path(i, nb, d) : d \in seen} : NodeSize(m, t, u) >= nb}
        rights == {d \in seen : /\ d + 1 \in Depths(i) /\ Bit(i, nb, d + 1) = 0
                                /\ Append(Path(i, nb, d), 1) \in DOMAIN t}
        rst == IF rights = {} THEN {}
               ELSE LeftWalk(t, Append(Path(i, nb, CHOOSE d \in rights : \A e \in rights : e <= d), 1))
        First(nodes) ==
            IF nodes # {} THEN {Smallest(m, t, nodes)}
            ELSE IF MarkedFrom(m, i + 1) = {} THEN {}
            ELSE LET u == m.tree[Least(MarkedFrom(m, i + 1))] IN {Smallest(m, u, LeftWalk(u, <<>>))}
    IN  First(onpath \cup rst)
=============================================================================
