------------------------------ MODULE MCMalloc ------------------------------
(* The workloads of the run.                                                *)
EXTENDS Malloc

(* Two ranges that begin in the middle of a page: the allocator runs out    *)
(* of room, is entered again and gets pages next to older ones.             *)
Growing ==
    [ranges |-> <<[base |-> 42, limit |-> 66], [base |-> 90, limit |-> 154]>>,
     malloc |-> {10, 60, 130, 220, 1000},
     memalign |-> {[align |-> a, bytes |-> n] : a \in {3, 8}, n \in {10, 130}},
     realloc |-> {10, 60, 220}, elements |-> {}, keep |-> {}, bulk |-> FALSE,
     blocks |-> 3, calls |-> 5]

(* Large chunks of three sizes of one tree, kept apart by small blocks.      *)
Trees ==
    [ranges |-> <<[base |-> 96, limit |-> 354]>>,
     malloc |-> {110, 142}, memalign |-> {}, realloc |-> {},
     elements |-> {<<n, 10>> : n \in {110, 142, 158}}, keep |-> {10, 16}, bulk |-> FALSE,
     blocks |-> 9, calls |-> 7]

(* Blocks cut out of one chunk, freed in pairs and resized.                 *)
Arrays ==
    [ranges |-> <<[base |-> 90, limit |-> 186]>>,
     malloc |-> {10}, memalign |-> {}, realloc |-> {30, 60, 90},
     elements |-> {<<30, 60>>, <<60, 30>>}, keep |-> {}, bulk |-> TRUE,
     blocks |-> 6, calls |-> 4]

MCWorkloads == {Growing, Trees, Arrays}
=============================================================================
