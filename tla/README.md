# PRePHV: TLA+ models, checks and proofs

PRePHV is a small 64-bit hypervisor for PowerNV that runs one 32-bit
little-endian guest (the ARC veneer and the NT loader of a PReP machine) in
problem state. It boots on one CPU, builds its own page table and SLB, and then
lives in exception handlers: segment faults, privileged instructions, the
decrementer, and the system call behind the Open Firmware client interface it
pretends to have.

This directory holds models of its state machines, of the FAT library and the
heap it brings along, the TLC runs that check them on small instances, and TLAPS
proofs of the safety properties of seven of them for every size. Paths such as
`mmu.c` are relative to the repository's root.
`PROJECT.json` maps every definition to the lines it models.

## 1. Inventory

| Component | State | Operations | Talks to |
|---|---|---|---|
| Segment side of the shadow MMU (`mmu.c`, `guest.c`) | SLB slots, `guest->msr`, `guest->srr1` | `slb_init`, `mmu_guest_update`, `mmu_guest_fault_seg`, `guest_update_msr`, mtmsr, rfi, sc | the hardware's SLB lookup; `ea_2_*`, from which the page side computes |
| Page side of the MMU (`mmu.c`) | hashed page table, TLB | `mmu_map`, `mmu_unmap`, `mmu_map_range`, `mmu_init` | the hardware walk; called by boot, storage faults, client "map" |
| Page allocator (`mem.c`) | `mem_free_ranges`, `mem_early` | `mem_init`, `mem_get_pages` | dlmalloc, in both directions |
| Ranges (`lib/ranges.c`, `list.h`) | lists of `range_t` | `range_add`, `range_remove` | `mem.c`, `rom.c`; allocates its nodes with dlmalloc |
| Timers (`time.c`, `main.c`) | `reqs`, decrementer, MSR.EE | `time_enqueue`, `time_dequeue`, `time_handle`, `opal_timer_cb` | callbacks that enqueue again; the decrementer interrupt |
| Client interface (`rom.c`) | available ranges, arena pointer, `cur_file`, disk offset | claim, getprop, map, open, read, seek, close | ranges, page side, FAT library |
| Guest state (`guest.c`) | SPRs, BATs, SRs | emulation of privileged instructions | segment side |
| Exception entry (`exc-vecs.S`, `exc.c`) | HSPRG1, SRR0/1, HSRR0/1, the frame at `unrec_sp`, stacks, MSR.RI | vectors, `exc_handler`, `exc_rfi` | everything |
| Boot (`entry.S`, `main.c`) | - | `c_main`, `cpu_init` | everything |
| FAT library (`fat/`) | FAT buffers, `currentsector`, open files | `fl_fopen`, `fl_fread`, `fl_fwrite`, `fl_fseek`, `fl_remove`, `fl_readdir`, ... | `guest_disk_read` |
| dlmalloc (`lib/malloc.c`) | chunks with boundary tags, bins, `dv`, `top`, segments | `malloc`, `free`, `realloc`, `memalign`, ... | `mem_get_pages`, in both directions |
| libfdt, string, vsprintf | vendored | | |
| Console, log | - | output through OPAL | |

What is hard here, and what makes each part correct:

- **Segments.** The SLB is rewritten one instruction at a time whenever the
  guest switches translation. At no instruction may two entries translate one
  address (a machine check); the software's idea of size and VSID must equal the
  entry's, or pages are entered where the hardware does not look; no sequence of
  switches and faults may lead to the hang in `exc_handler`.
- **Pages.** Entries are written half by half while the hardware walks the
  table and caches what it sees. The hash and the abbreviated page number both
  drop bits. Only primary groups exist, so a full group stops the machine.
- **Allocator.** `range_remove` allocates a list node in the middle of its loop
  over the free list, and that allocation may come back into `range_remove` on
  the same list.
- **Timers.** The timebase moves between any two instructions of `time_handle`,
  callbacks enqueue while its loop holds pointers into the queue, and the
  decrementer reaches less far than timers do.
- **Client interface.** Long sequences of guest calls; memory is tracked in
  pages and claimed in bytes; two ways to claim share one memory; static state
  for the one open file.

- **Exceptions.** The vector has a handful of registers and one static save area
  before it has a stack. Nested faults are ordinary (the hypervisor pages itself
  in), so each step of entry and return must either not fault or be restartable.
- **FAT.** Three kinds of buffer lie between a write and the medium, cluster
  chains grow in any order until the volume is full, and a long name is several
  directory slots.
- **Heap.** Consolidation, size trees and segments; `mem_get_pages` may call
  `malloc` while `malloc` waits for its pages.

`PROJECT.json` lists these as hazards, each at its line, with the properties
that cover it, or a note where none does yet.

## 2. Modules

| Module | Models |
|---|---|
| `GuestMmu`, `MCGuestMmu` | segment side of the shadow MMU |
| `GuestMmuProofs` | theorems about `GuestMmu` |
| `Htab`, `MCHtab` | page side, with the hardware's search and the TLB |
| `Ranges` | `lib/ranges.c` as operators |
| `RangeSet` | what ranges promise: a set of addresses |
| `RangeList` | a range list under any sequence of calls, refining `RangeSet` |
| `Mem`, `MCMem` | `mem.c` with `range_remove` step by step and dlmalloc re-entering |
| `Time` | `time.c`, the decrementer, the heartbeat of `main.c` |
| `Rom`, `MCRom` | claims, files and disk of `rom.c` |
| `Exc` | exception entry, dispatch and return |
| `FatTable` | the allocation table, its buffers, sectors |
| `FatDir` | directories: search, long names, free slots, listing |
| `FatFile` | an open file: cluster lookup, sector buffer, growth |
| `FatLib`, `MCFat` | the calls of `fat_filelib.c`, refining `FileStore` |
| `FileStore` | what files promise: named sequences of bytes |
| `MallocBins` | chunk headers, small bins, size trees |
| `MallocSys` | segments, the top chunk, trimming and the segment release |
| `Malloc`, `MCMalloc` | the calls of dlmalloc |
| `ListLemmas` | lemmas about sequences and about `Ranges` |
| `HtabProofs`, `RangeListProofs`, `MemProofs`, `TimeProofs`, `RomProofs`, `ExcProofs` | theorems about `Htab`, `RangeList`, `Mem`, `Time`, `Rom`, `Exc` |

### GuestMmu

`cpu` says where the CPU is: a point of boot, inside `mmu_guest_update`, in the
segment fault handler (`seg`), or in one of the contexts that use guest
addresses (`rom_init`, `guest`, `rom_call`). An address is the 256MB segment it
lies in. `slbie` and `slbmte` are steps of their own (`SlbieSr`, `SlbmteGrm`,
`SlbieGrm`), so every state between two of them is checked. Each privileged
instruction, fault and client call is an action; `why` names the BUG or hang
that stopped the machine. Initially the SLB holds whatever firmware left there.
The SLB instructions follow the Power ISA and are marked external.

### Htab

Addresses count 4K pages with all sizes scaled down; the ratios that the
encodings rely on (a 16M page is two AVPN units, segments are whole large pages,
the group count is a power of two) are `HtabAssumption`. The exclusive or of the
hash is the recursive function `xor` on the low bits that a number of hash
values keeps. `MapR`/`MapV` are the two stores of
`mmu_map_vpn`, `UnmapV`/`Tlbie` the store and invalidation of
`mmu_unmap_vpn`; between any two steps the TLB may cache what a walk finds
(`TlbFill`). `script` holds the calls boot or `mmu_map_range` has yet to make.
`HwGroup`, `HwMatch` and `HwEntry` restate the architecture's search
independently of `vpn_hash` and `avpn_encode`. Nothing in the program calls
`mmu_unmap` or maps 16M pages in a 4K segment; both are checked as the interface
they are (`mmu_unmap`, `MapMixed`). Protection bits are left out.

The guest may ask "map" (`rom_call_map`) for any range: with translation off, of
pages that are mapped already, at addresses that are not those of pages, with an
end that wraps in 32 bits. The code checks none of this. What it does then is in
the model (a BUG of `mmu_map`, or a second entry for the page), and the ghost
`misused` remembers that it happened: the properties of `Htab` are about guests
that have not done it. How many segments the guest uses is not restricted; when
more of them have mappings than a group has entries, a group may overflow, and
the BUG for that is the only one that `NoBug` admits.

### Ranges, RangeList, Mem

`Ranges` has both operations as functions of the list. `RangeList` checks them
against `RangeSet` through the mapping `free <- Meaning` (the covered addresses; a list out of order or cut short
by a BUG stands for no set). `Mem` opens
`range_remove` up: `stack` holds a frame per active call with its iterators
`cur` and `n`, and when a split needs a node, `MoreHeap` (dlmalloc asks for
pages: a nested `mem_get_pages`) may happen before `AddLeft`. dlmalloc is
external; either may always happen. A new node gets the smallest number that no
range has, so the number of nodes is not bounded.

### Time

Instants are relative to the timebase, so `Tick` lowers them all and the state
space is finite. `stack` holds the loop variables of `time_handle`; `Expire`,
`OneShot`/`Recurring`, `SetDec` are its steps with ticks between them.
Interrupts are taken only with EE on, and `Trap`/`exc_rfi` model the other
exceptions, which run with EE off. `time_enqueue` is called with EE off, as by
its one caller, `cpu_init`, and with EE on. In a call with EE on the decrementer
may interrupt `time_handle` and run it again on the same list; following or
unlinking a timer that the inner loop has unlinked is the halt `dangling`. The
ghost `nested` says that this interrupt has happened. The properties of `Time`
are about everything before it, since nothing about the queue holds after it.

### Rom

One action per client call that changes state; each runs to its end with
interrupts off. The guest uses handles it was given. It may claim any address,
offered or not, in the arena too (`claim_fixed`), run the arena dry or open a
second file; what stops the machine in the code stops it here. `kinds` is a
ghost that says how each claim was made: by `rom_init`, out of the arena, or by
address, of bytes that were all available (`free`) or not (`taken`).

`guest_disk_offset` is an int: `seek_disk` cuts its 64-bit offset to one
(`Signed`), and `read_disk` compares a sum of 32 bits. `TwoTo31` scales the
widths down; `position` is a ghost, the place the guest means. A read of the
file asks `guest_disk_read` for some sectors of the volume; `buffer` is what its
rounds leave in memory.

### Exc

The CPU runs boot code, the guest or `rom_call`, or is at a step of the exception
path; registers other than r1 hold a token of the code that set them, so that a
lost or mixed-up register shows. The steps are `DEF_EXC` (stash to `unrec_sp`),
`exc_sys`/`exc_hv`, `exc_cont` (choice of stack), `exc_more_save`, the outcomes
of `exc_handler`, and `exc_rfi` in three steps around HSRR0. A data access to a
16M page that is not mapped faults and nests; a machine check may come at every
step. A handler may decline what it is asked for (`Declined`): an instruction or
register `guest_exc_try` does not know, a segment that is not to be entered, a
storage fault outside the hypervisor's region or of a page that is mapped
(`page` is then `none`); `exc_handler` hangs on those, as the code does. `ctxs` is a ghost: the contexts as they were interrupted.

### FatTable, FatDir, FatFile, FatLib, FileStore

The library is not concurrent, so its functions are operators on the record `fs`
(the medium and the buffers in front of it), and one action is one call. A slot
of a sector is a byte or a directory entry. The build of the repository compiles
writing, long names and formatting out and allows one open file; the model has
them on and two handles, because that is the code there is to check. The library
implements `FileStore` until the volume is full; afterwards nothing is promised
about contents (`fl_fwrite` answers the full count all the same), but the
structure of the volume still is. Opening with "w" keeps the old content, in
`FileStore` too, since that is what the code does.

`fl_fseek` drops the sector buffer of its file, also when it is dirty. The model
does the same; `lost` holds the paths for which that happened with data in the
buffer. `FileStore` has this as a step (`Lose`): the content of that one file
may become anything from then on, and all other files keep theirs.

The table covers more clusters than the volume has (`VolClusters`), because its
size is rounded up to sectors. The medium ends where the volume does, as
`fatfs_format` lays it out: a sector behind it cannot be read or written
(`WriteMedia`). `fs.past` says that such a cluster was handed out. A failed
erasure makes `fl_createdirectory` return with its cluster allocated
(`fat_filelib.c:223`); in the model that is always a cluster behind the volume.
One condition on callers: a FAT16 root directory is large enough (on a full one,
`fatfs_find_free_dir_offset` appends to the chain of cluster 2, which may be a
file's).

### MallocBins, MallocSys, Malloc

Sizes count 16 bytes. Functions are operators on the record `m`; heads and feet
that a function leaves stale are forgotten, so that reading one is an error of
the run. Failures of the `RTCHECK`s of `free` and its like stop the model
(`abort`); those inside the insertion and unlinking of chunks are left out. `mem_get_pages` is
composed in: it looks for the first range that fits, and when it splits one it
allocates a `range_t` from the heap that is being extended (`NewNode`). That
makes visible what neither side shows alone: `prepend_alloc` is reached only
through this re-entrance. Two ends of the program are kept as halts: NULL from
`mem_get_pages` is not `MFAIL` (`null`), and `mem_put_pages` stops the machine
(`unmap`), so that freeing a directly mapped block, trimming, or releasing a
segment does; no caller in the tree frees a block of that size.

## 3. Runs

| Run | Result | What it shows |
|---|---|---|
| `guest_mmu` | holds | one translation per address, SLB discipline, software and hardware agree, slbie unambiguous, hypervisor entries in place, every segment fault resolves |
| `htab` | holds | the walk finds exactly what was mapped; the TLB caches nothing else, in the middle of an update too; pages of one segment do not compete for a group; boot, faults and "map" of new pages meet no BUG but the overflow of a group, and that only with more segments mapped than it has entries |
| `range_list` | holds | a range list is a set of addresses; no BUG for legal calls |
| `mem` | holds | the free list is sound in the middle of nested calls; pages exclusive; nothing lost; every call returns |
| `mem_null` | violated | `BUG_ON(NULL, "no more free memory")` never fires |
| `mem_fdt` | violated | `mem_init` reserves `size_dt_struct` bytes of the device tree instead of its total size |
| `time` | holds | until `time_handle` is interrupted by itself: queue sorted; decrementer armed for the first timer; every timer fires; `time_handle` returns |
| `rom` | holds | nothing claimed is offered; what is offered is nobody's; the arena never repeats itself; "available" stays in whole pages; handle and `cur_file` agree; a disk read that starts below 2 GB and ends below 4 GB copies what was asked for; every sector of a file read arrives in its place |
| `rom_buffer` | violated | `guest_disk_read` for n sectors writes 2n - 1 of them: `memcpy` copies `sector_count` sectors in every round |
| `exc` | holds | whatever returns finds its registers, stack and protected zone as it left them; only exceptions without a handler and those a handler declines hang; every exception ends |
| `fat` | holds | chains disjoint and ended, no cluster lost, buffers coherent, names unique, every file found, listings complete, and the library implements `FileStore` |
| `malloc` | holds | boundary tags and bins exact, blocks inside the heap and disjoint, pages accounted for, no false corruption alarm, best fit |

Disagreements met while modelling that no run is spent on. The models of `Rom`,
`Time` and FAT do what the code does in the first six; the properties say what
still holds.

- The arena moves on without looking at the available ranges (`rom.c:129-142`),
  so bytes of the arena that "available" offered and a guest claimed by address
  are handed out again, though `rom.c:146` says "Internally we keep track of all
  allocations at page granularity". `ClaimsDisjoint` leaves out that pair.
- `time_enqueue` calls `time_handle` after `exc_restore_ee` (`time.c:142`); with a
  caller that has EE on, an interrupt there makes the outer loop follow a link
  that `list_del` has poisoned. The one caller has EE off.
- A file opened with "w" keeps its content: `FILE_ERASE` is set
  (`fat_filelib.c:728`) and never read, while line 703 says that "its content is
  erased and the file is treated as a new empty file".
- `fl_fseek` drops written data that is still in the sector buffer
  (`fat_filelib.c:1124`), on an "a+" handle too, for which line 713 says that one
  can "reposition (fseek, rewind) the internal pointer to anywhere in the file
  for reading".
- `fatfs_find_blank_cluster` stops at the end of the table, not of the volume
  (`fat_table.c:303`), and `fatfs_format` rounds the table up to sectors
  (`fat_format.c:186-187`, `276-277`): clusters behind the volume are handed out
  before it is full.
- A directory whose cluster cannot be erased leaves it allocated
  (`fat_filelib.c:223`).
- `layout.h:27-44` places SR#0 in slot 2 and says 4K pages always, where the code
  has the real-mode segment with 16M pages; the BUG text at `mmu.c:310` says the
  opposite of its condition.
- `cpu_init` asks libfdt about node -1, so the OPAL heartbeat is never armed
  (`main.c:91`).
- "map" over a mapped address answers success and leaves the old translation in
  force (`rom.c:480`).
- `fl_shutdown` does not write the sector buffers of open files.

Each module has one type invariant, `TypeOK`, which is the first conjunct of one
of its structural invariants (`SlbDiscipline`, `ListOrdered`, `NoBug`,
`QueueSorted`, `AvailableWellFormed`, `ChainsDisjoint`, `OnlyFatalHangs`). The
heap has none: an ill-typed chunk violates `BoundaryTags`.

Every property of a passing run has a mutant in `PROJECT.json`: a plausible slip
in one definition (defined just before it, commented "Bug:") that TLC must catch.

### Bounds

- `guest_mmu`: 4 segment registers, 8 slots, so that the loop has a first, a
  middle and a last round and one slot stays unused. The theorems remove the bound.
- `htab`: 16M = 4 pages, 8 groups of 4, a terabyte of 16 pages: each address
  space has several pages per group and per AVPN, the entries of all spaces meet
  in a group, and there are five segments for its four entries, so that a group
  overflows; 32 hash values, so that `vsid << 25` is in the hash; two segments of
  the guest. The calls of "map" include a range of two pages, one that wraps, one
  of equal addresses and one that is not aligned, each made in either mode and
  more than once. A TLB of one entry that is replaced at will can hold each stale
  entry in turn. The theorems remove these bounds.
- `range_list`: 6 grains of 2 addresses: every relation of two intervals, and
  lists of up to three ranges.
- `mem`: two memory nodes with a hole, every reservation of up to 12 bytes at
  every even position, pages of 4 bytes, until memory is exhausted. The theorems
  remove the bounds of this run and of `range_list`, `time`, `rom` and `exc`.
- `time`: 3 timers, delays beyond the decrementer (`DEC_DISABLE` = 3), one tick
  per `time_handle`.
- `rom`: 16 pages, up to 3 claims besides those of boot, aligned and not, inside a
  page and across pages, inside and outside the arena, until the arena is full;
  ints of 3 bits (`TwoTo31` = 4) and a disk of 3, so that offsets beyond the disk,
  beyond an int and beyond 32 bits are few; reads of up to 3 sectors, so that the
  copying loop has a first, a middle and a last round.
- `rom_buffer`: the same reads, without claims; ints of 4 bits and a disk of 6.
- `exc`: a stack of 13 cells, deep enough for the deepest nesting the code
  allows (a fault inside a fault inside `rom_call`) plus a machine check; pages
  of heap, guest, save area and disk, of which only the save area is premapped.
- `fat`: sectors of 2 slots, 2 sectors per cluster, 4 clusters, a table of 2
  sectors with entries for 6 clusters behind one buffer, 2 handles, FAT16 and FAT32; names a and b (which
  collide in their short form and differ in the number of slots) and a directory
  d; writes of 1 and 5 bytes, so inside a sector and across a cluster; 4 calls
  that change something on FAT16, 5 on FAT32. A full volume, clusters behind it, growth of a
  directory, reuse of freed slots and a file in a directory are all reached.
- `malloc`: smallest page, granularity and thresholds that keep their order
  (page 8, granularity 16, mmap threshold 14, trim threshold 20, release every
  2nd check). Three workloads: growing into two unaligned ranges, so that
  `mem_get_pages` splits (5 calls); three sizes of one tree, so that nodes of
  depth 2, rings and inner nodes are unlinked (7 calls); arrays, bulk free and
  realloc (4 calls). Several segments, directly mapped blocks and both halts are
  reached; `trim_check` at its maximum is not.

Deadlock is checked in every run but `exc`, where an unrecoverable exception
hangs the machine, and `fat` and `malloc`, whose calls are bounded.

### Fairness

- `GuestMmu`: weak fairness of the hypervisor's own steps: the CPU executes its
  next instruction. The guest owes nothing.
- `Mem`: weak fairness of the steps of calls that were begun.
- `Exc`: weak fairness of the processor's next step on the exception path. Code
  that was interrupted owes nothing.
- `Time`: weak fairness of ticks and of `time_handle`; strong fairness of
  `exc_rfi` and of the decrementer interrupt, which is level triggered: it stays
  pending while EE is off and is taken when EE is on again. `TimeAssumption`
  says that callbacks count periods longer than one `time_handle` run, which is
  true of milliseconds and needed: otherwise the loop would never end.

## 4. Proofs

Each proof module names an inductive invariant `IInv`, has a lemma per action
that shows the action preserves it, and derives the properties from it. The
properties are those the runs check.

| Module | Proved | For every |
|---|---|---|
| `GuestMmuProofs` | `TypeOK`, `SlbDiscipline`, `FaultsRecoverable`, `SingleTranslation`, `SoftwareAgrees`, `SlbieUnambiguous`, `BootMapsBothModes`; the action property `HvEntriesPinned` | number of segment registers, size of the SLB, content firmware left in it |
| `HtabProofs` | `TranslationCorrect`, `TlbCoherent`, `OnePerSegment`, `NoBug` | size of pages, segments, table, groups, TLB and memory, number of guest segments, segment numbers, ranges that the guest maps, addresses that are unmapped |
| `ExcProofs` | `ContextRestored`, `OnlyFatalHangs` | stack, protected zone, set of pages, set of guest exceptions |
| `TimeProofs` | `QueueSorted`, `DecArmed` | set of timers, delays, periods, decrementer |
| `RangeListProofs` | `ImplementsSet`: `RangeList` refines `RangeSet` | address space, grain |
| `MemProofs` | `ListOrdered`, `IteratorsLive`, `PagesExclusive`, `NothingLost` | memory map, reservations, page size, depth of nesting |
| `RomProofs` | `AvailableWellFormed`, `ClaimedNotAvailable`, `ClaimsDisjoint`, `FileAgrees`, `ReadsRight` | memory, page and disk size, width of an int, claims by address and in the arena, offsets, sectors per read |

### GuestMmu

`SingleTranslation` is not inductive: that two entries do not meet says nothing
about which entry the next `slbmte` finds. The inductive invariant is
`IInv == TypeOK /\ SlbShape /\ Modes /\ FaultsRecoverable`. `SlbShape` says what
each slot may hold; `Modes` says, for each point of the program, which of them
are valid: below the loop index no SR entry is left, the real-mode segment
enters only when none is, and a segment fault is only ever under way with the
MMU on and its slot empty. `TypeStep`, `ShapeStep` and `ModesStep` go through
the actions one by one; `InvalidateSr` and `InvalidateGrm` say what `slbie` does
to a table of the right shape; `HitCases` derives from the shape which slots can
translate an address, from which the theorems about translations and `slbie`
follow.

### Htab

`TranslationCorrect` speaks of the instants between calls and says nothing about
an update half done. `IInv` (`HtabProofs`) says it of every instant: each valid
entry is a part of a mapping that was asked for (`OnlyWanted`), and each part of
such a mapping is in the table (`AllWanted`), but for the parts that the call in
progress has still to enter or has removed already (`Pending`). The mappings are
whole pages inside a segment that is in use and do not overlap (`WantedOK`). The
TLB holds mappings and, once the last part of one is removed, no longer that one
(`TlbOK`): after the last `tlbie` no entry is left from which it could come back.

That this says something about the hardware rests on the arithmetic of the two
encodings:

- Exclusive or is one to one in each argument, also when only the low bits are
  kept (`XorLow`, `XorOneToOne`, `XorGroup`). Since a segment has no more pages
  than the table has groups, two pages of one segment never meet in a group
  (`OneGroup`). So the group tells which page of the segment an entry is for,
  which the abbreviated page number does not (`SameEntry`).
- A group holds at most one entry of each segment (`Spread`), so a group with
  at least as many entries as segments in use has a free one (`SpillOnly`).
- `mmu_unmap_vpn` compares abbreviated page numbers only, without the segment
  size. It finds its own entry because segments of either size do not overlap as
  virtual addresses (`OtherSize`, `FindsOwn`).

The last part of `IInv` is about calls that have not been made: those that boot
and "map" have still to make overlap neither each other nor what is mapped
(`ScriptOK`). `BootScript` shows this of the ranges that `mmu_init` and
`guest_init` map, in the mode that the guest is in at each point. All of this
holds until the guest misuses "map" or a group overflows (`Spilled`); the
invariant of the specification, `Inv`, puts the three together.

### Exc

`ContextRestored` speaks of the last step of `exc_rfi` only. `IInv` follows the
interrupted context to that point: for each step of the way in (`Enters`) and out
(`Leaves`) it says in which register, in which word of the save area or in which
cell of the stack each part of it is. `Nesting` says how deep this can go: only
`rom_call` runs with an exception open, and the frame of the guest below it stays
as it is. A machine check may come at any of these points and need not be
survived; `Dies` keeps it from being taken for something that has a handler. An
exception that a handler declines ends in the hang and needs no context.

### Time

While `time_handle` runs, its locals are the first two timers of the queue or,
during a callback, `n` is the first and `t` is out of the queue (`FrameOK`). That
makes its pointers good and is preserved because a callback enqueues its timer
no earlier than the `now` of the loop. `DecArmed` needs that `now` is at most one
run old. All of this holds while at most one `time_handle` is active
(`OneHandler`); an interrupt inside a call with EE on ends that, and the invariant
of the specification is `Inv == nested \in BOOLEAN /\ (~nested => IInv)`.

### Ranges and RangeList

`range_remove` is a recursive function, a state after each round of the loop.
`RoundStep` proves what a round does in each of the five cases (out of the
interval, delete, two trims, split); `RemovesRange` carries it through the loop.
Where a fact about all rounds is needed, the proof takes the least round that
does not have it (`NatMin`), since no induction theorem can be instantiated here.
`RoundsExist` shows in the same way that the recursion defines a function.
`Refinement` maps every call to one step of `RangeSet`.

### Mem

The hard case is a `range_remove` that waits for its node while nested calls work
on the same list. `IInv` (`MemProofs`) rests on these facts:

- Free memory is what the list covers and the left parts of waiting splits
  (`Free`). With this, nothing is ever lost or twice free, at any depth.
- After `mem_init` a call removes pages that lie in one range and end before its
  limit (`Whole`), because `mem_get_pages` rounds the inclusive limit down. So a
  nested call may trim or split, but it never deletes a node, and the iterators
  of the calls that wait stay in the list.
- A waiting call has nothing left to remove: its pages are out of every range
  (`AllApart`), so what the nested calls did to the list does not matter to the
  rest of its loop.
- `mem_init` takes its nodes out of early memory, so its calls do not nest;
  they may delete nodes.
- A range begins at an edge that the firmware described or at a page (`Edges`),
  never one address before the next removal, so no split leaves one address.

### Rom

What `rom_init` and the arena gave out is below the arena pointer, and what is
claimed is not available (`MemoryOK`); so the arena, which only moves up, meets
neither, and an address that "available" offers meets nothing. Claims are in
bytes and the available ranges in pages; `TakesPages` shows that the rounding
covers the claim. `DiskReads` shows what the rounds of `guest_disk_read` leave in
the buffer: each round overwrites what is behind it, and the next one repairs it.
For the disk, the int stands for the place the guest means as long as that is
below 2^31, and the sum does not wrap as long as it stays below 2^32.

### Assumptions

- `SrCountAssumption`, `SlbSizeAssumption`, `StaleAssumption`: there are segment
  registers, the SLB has room for them, firmware left an SLB there.
- `ExcAssumption`, `StackAssumption`, `UnrecAssumption`: the stack has room for the
  frame of a client call, `rom_call` and the frame of a fault of `rom_call`; the
  page of the save area is among those that `mmu_init` maps. The code checks
  neither; a vector that faults on its own save area never ends.
- `HtabAssumption`, `GroupAssumption`: page, segment and table sizes as the
  architecture has them; the table has as many groups as a segment has pages, and
  so few that the term `vsid << 25` of the hash changes no group (`VSID_STEP` is a
  multiple of the groups). `mmu_init` is called with a constant 4GB
  (`main.c:100`), which gives 2^19 groups; a size that is no power of two would
  leave groups that the mask of the hash never selects. Nothing is assumed about
  the entries of a group or the number of guest segments.
- `VsidAssumption`: the segments of the hypervisor, the vectors and the guest do
  not overlap as virtual addresses. With the constants of the source this holds up
  to 78GB of memory, since `AIL_VSID` begins with the digits of `HV_VSID`; nothing
  checks it.
- `PlaceAssumption`: no 16M page holds both the page table and the program, the
  guest's memory is whole 16M pages. `mmu_init` does not check the first.
- `CallerAssumption`: a range that the guest maps begins in its address space;
  its size and what it maps to are any.
- `TimeAssumption`: section 3, fairness.
- `GrainAssumption`, `TopAssumption`: callers' intervals begin and end at multiples
  of two addresses or more.
- `PageAssumption`, `FirmwareAssumption`: memory nodes do not overlap, no interval
  has fewer than two addresses, and free memory does not begin one address before
  a reservation or a page. The last is not checked by the code. An initrd whose
  last byte is the third last of a page leaves that page's last two bytes free and
  is fine; one that ends at the second last leaves one byte, the first allocation
  that splits there links a range of one address, and `range_add` stops the
  machine with its BUG.
- `RomAssumption`, `LayoutAssumption`, `ClaimAssumption`: RAM, arena and stack are
  whole pages and fit; the veneer is above the trampoline and below the stack,
  which `rom_init` does not check; the guest claims addresses of its RAM, the
  arena included, and no claim is empty.
- `FatAssumption`: the table has an entry for every cluster of the volume.

### Only model-checked

- Liveness (`FaultResolves`, `CallsReturn`, `TimersFire`, `HandlerReturns`,
  `ExceptionsEnd`) and everything under fairness, which the prover does not do.
- The FAT modules and the heap use RECURSIVE operators for chains, directories and
  trees. What those compute for every input needs induction over data, and the
  prover has no SMT backend in their presence. `FatLib` implements `FileStore` in
  the run only.

## 5. Not modelled

- FAT: mounting and formatting (the layout of the boot sector), dates, the
  comparison of names character by character, `fat_cache.c` (compiled out), media
  that fail (`guest_disk_read` always answers 1), and power failures: the library
  neither orders its writes for one nor repairs a volume.
- dlmalloc: `calloc` (which does not clear directly mapped blocks, since
  `MMAP_CLEARS` is 1 and `mem_get_pages` does not clear), `realloc_in_place`,
  mspaces, statistics, locks, MORECORE, the DEBUG checks.
- libfdt, string functions, formatting: vendored and stateless. Of libfdt,
  `fdt_node_check_compatible` is in `Time` because its failure matters.
- Known and left alone, since no component depends on it: `prev_c` of `rom_stdin`
  is reset in every round, so the character after a lone escape is lost
  (`rom.c:58`); `cr & !0xf0000000` clears all of CR (`guest.c:321`); a disk read
  beyond the end leaves `*outlen` alone and answers 0 (`rom.c:411`); a claim of 0
  bytes on a page boundary is a BUG of `range_remove` (`rom.c:149`).
- Guest SPRs, BATs and the rtc counter: stores read back by the guest only.
- Device tree queries of the client interface, the escape sequences of the
  console.
- Console, log, cache flushing, firmware calls: input and output.
- Page protection and cache attributes.

## 6. Plan

Done, in this order: `GuestMmu` and its proofs; `Ranges`, `RangeSet`,
`RangeList`, `Mem`; `Time`; `Htab`; `Rom`; the FAT modules; `Exc`; the heap; the
proofs of `Exc`, `Time`, `RangeList`, `Rom`, `Mem` and `Htab`.

Left:

1. Composition of `GuestMmu` and `Htab`: an access by the guest succeeds exactly
   if it was mapped in the mode it runs in.
2. The rest of `Rom`: property buffers and their sizes, escape sequences.
3. Mounting and formatting of a FAT volume.
