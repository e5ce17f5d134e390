------------------------------ MODULE FatTable ------------------------------
(***************************************************************************)
(* The allocation table of a FAT volume and the buffers in front of it     *)
(* (fat_table.c), and the sectors of the volume (fat_access.c).            *)
(*                                                                         *)
(* The library is called by one thread and every call runs to its end, so  *)
(* its functions are operators on the record fs:                           *)
(*   fs.type   16 or 32                                                    *)
(*   fs.fat    the table on the medium: FAT sector -> entry -> cluster     *)
(*   fs.data   the sectors behind it: LBA -> SectorSize slots              *)
(*   fs.bufs   the FAT buffers, most recent first: address, data, dirty    *)
(*   fs.cur    currentsector: address and data                             *)
(*   fs.hint   next_free_cluster                                           *)
(*   fs.wild   a sector outside the table or the volume was asked for      *)
(*   fs.past   a cluster behind the end of the volume was handed out       *)
(*   fs.full   data that was written found no sector                       *)
(* A slot holds a byte or a directory entry; a zeroed slot is both the     *)
(* byte 0 and a blank entry. LBAs count from the first sector behind the   *)
(* table. The table has entries for more clusters than the volume has:     *)
(* its size is rounded up to sectors. The medium ends where the volume     *)
(* does, as fatfs_format lays it out: it refuses a sector behind the end   *)
(* and does what it is asked for every other one.                          *)
(***************************************************************************)
EXTENDS Integers, SequencesExt

CONSTANTS
    SectorSize,     \* FAT_SECTOR_SIZE, and FAT_DIR_ENTRIES_PER_SECTOR
    SPC,            \* sectors_per_cluster
    EntriesPerFatSector,    \* 256 or 128
    FatSectors,     \* fat_sectors
    VolClusters,    \* count_of_clusters: those that the volume has
    RootSectors,    \* rootdir_sectors of a FAT16 volume
    FAT_BUFFERS

ASSUME FatAssumption ==
    /\ {SectorSize, SPC, FatSectors, VolClusters, FAT_BUFFERS} \subseteq Nat \ {0}
    /\ VolClusters + 2 <= FatSectors * EntriesPerFatSector
    /\ RootSectors \in Nat
    /\ EntriesPerFatSector \in Nat /\ EntriesPerFatSector > 2

LAST_CLUSTER == 1000        \* FAT32_LAST_CLUSTER, above every cluster
INVALID == -1               \* FAT32_INVALID_CLUSTER, no sector's address

Zero == [k |-> "byte", v |-> 0]
ZeroSector == [i \in 0 .. SectorSize - 1 |-> Zero]

(* The clusters that have an entry, and those that have sectors.           *)
Clusters == 2 .. FatSectors * EntriesPerFatSector - 1
VolumeClusters == 2 .. VolClusters + 1
rootdir_first_cluster(fs) == IF fs.type = 16 THEN 0 ELSE 2

(* fatfs_fat_init: every buffer is invalid.                                *)
fatfs_fat_init == [i \in 1 .. FAT_BUFFERS |-> [address |-> INVALID, data |-> <<>>, dirty |-> FALSE]]

(***************************************************************************)
(* The buffers.                                                            *)
(***************************************************************************)
(* Bug: a buffer is reused without being written back.                     *)
fatfs_fat_writeback_Lost(fs, b) == fs

fatfs_fat_writeback(fs, b) ==
    IF b.dirty THEN [fs EXCEPT !.fat[b.address] = b.data] ELSE fs

Buffered(fs, sector) == {i \in DOMAIN fs.bufs : fs.bufs[i].address = sector}

(* The oldest buffer is written back and takes the sector, unless some     *)
(* buffer holds it already. A hit does not make a buffer more recent.      *)
fatfs_fat_read_sector(fs, sector) ==
    IF sector >= FatSectors THEN [fs EXCEPT !.wild = TRUE]
    ELSE IF Buffered(fs, sector) # {} THEN fs
    ELSE LET done == fatfs_fat_writeback(fs, Last(fs.bufs))
         IN  [done EXCEPT !.bufs = <<[address |-> sector, data |-> done.fat[sector], dirty |-> FALSE]>>
                                   \o Front(fs.bufs)]

Buffer(fs, sector) == CHOOSE i \in Buffered(fs, sector) : TRUE

(* Writes every dirty buffer.                                              *)
fatfs_fat_purge(fs) ==
    LET done == FoldLeft(fatfs_fat_writeback, fs, fs.bufs)
    IN  [done EXCEPT !.bufs = [i \in DOMAIN @ |-> [@[i] EXCEPT !.dirty = FALSE]]]

(***************************************************************************)
(* Entries.                                                                *)
(***************************************************************************)
FatSector(c) == c \div EntriesPerFatSector
InTable(c) == FatSector(c) < FatSectors
Entry(fs, c) == fs.bufs[Buffer(fs, FatSector(c))].data[c % EntriesPerFatSector]

(* The result is [fs, c]: the entry of a cluster, LAST_CLUSTER for every   *)
(* end mark. Cluster 0 stands for the root of a FAT32 volume. An entry     *)
(* outside the table is whatever the medium holds there; the chain ends.   *)
fatfs_find_next_cluster(fs, cluster) ==
    LET c == IF cluster = 0 THEN 2 ELSE cluster
        Answer(read) == [fs |-> read, c |-> IF InTable(c) THEN Entry(read, c) ELSE LAST_CLUSTER]
    IN  Answer(fatfs_fat_read_sector(fs, FatSector(c)))

fatfs_fat_set_cluster(fs, c, next) ==
    LET Set(read, b) ==
            [read EXCEPT !.bufs[b].data[c % EntriesPerFatSector] = next, !.bufs[b].dirty = TRUE]
        Change(read) == IF InTable(c) THEN Set(read, Buffer(read, FatSector(c))) ELSE read
    IN  Change(fatfs_fat_read_sector(fs, FatSector(c)))

(* The hint in the FSINFO sector of a FAT32 volume goes through the oldest *)
(* FAT buffer, which is invalid afterwards.                                *)
fatfs_set_fs_info_next_free_cluster(fs, value) ==
    IF fs.type = 16 THEN fs
    ELSE LET done == fatfs_fat_writeback(fs, Last(fs.bufs))
         IN  [done EXCEPT !.hint = value,
                          !.bufs = <<[address |-> INVALID, data |-> <<>>, dirty |-> FALSE]>> \o Front(@)]

(* The first free entry from cluster c on, as far as there are sectors of  *)
(* the table, wherever the volume ends: [fs, ok, c].                       *)
RECURSIVE fatfs_find_blank_cluster(_, _)
fatfs_find_blank_cluster(fs, c) ==
    LET Check(read) == IF Entry(read, c) = 0
                       THEN [fs |-> [read EXCEPT !.past = @ \/ c \notin VolumeClusters], ok |-> TRUE, c |-> c]
                       ELSE fatfs_find_blank_cluster(read, c + 1)
    IN  IF InTable(c) THEN Check(fatfs_fat_read_sector(fs, FatSector(c)))
        ELSE [fs |-> fs, ok |-> FALSE, c |-> c]

(* Frees a chain, each link read before it is cleared.                     *)
RECURSIVE fatfs_free_cluster_chain(_, _)
fatfs_free_cluster_chain(fs, c) ==
    LET Clear(next) == fatfs_free_cluster_chain(fatfs_fat_set_cluster(next.fs, c, 0), next.c)
    IN  IF c \in {LAST_CLUSTER, 0} THEN fs ELSE Clear(fatfs_find_next_cluster(fs, c))

(* The last cluster of a chain: [fs, ok, c], not ok when a link is 0.      *)
RECURSIVE ChainTail(_, _)
ChainTail(fs, c) ==
    LET Step(next) == IF next.c \in {0, LAST_CLUSTER}
                      THEN [fs |-> next.fs, ok |-> next.c = LAST_CLUSTER, c |-> c]
                      ELSE ChainTail(next.fs, next.c)
    IN  Step(fatfs_find_next_cluster(fs, c))

(* [fs, ok]: a new cluster behind the tail of a chain.                     *)
fatfs_fat_add_cluster_to_chain(fs, start, new) ==
    LET Add(tail) ==
            IF start = LAST_CLUSTER \/ ~tail.ok THEN [fs |-> tail.fs, ok |-> FALSE]
            ELSE [fs |-> fatfs_fat_set_cluster(fatfs_fat_set_cluster(tail.fs, tail.c, new), new, LAST_CLUSTER),
                  ok |-> TRUE]
    IN  Add(ChainTail(fs, start))

(* fatfs_count_free_clusters: [fs, n], every FAT sector through a buffer.  *)
fatfs_count_free_clusters(fs) ==
    LET Count(read, n, s) ==
            LET free == {c \in s * EntriesPerFatSector .. (s + 1) * EntriesPerFatSector - 1 : Entry(read, c) = 0}
            IN  [fs |-> read, n |-> n + Cardinality(free)]
        scan(st, s) == Count(fatfs_fat_read_sector(st.fs, s), st.n, s)
    IN  FoldLeft(scan, [fs |-> fs, n |-> 0], [s \in 1 .. FatSectors |-> s - 1])

(***************************************************************************)
(* Sectors.                                                                *)
(***************************************************************************)
(* fatfs_lba_of_cluster: the clusters follow the root of a FAT16 volume.   *)
fatfs_lba_of_cluster(fs, c) == (IF fs.type = 16 THEN RootSectors ELSE 0) + (c - 2) * SPC

Volume(fs) == DOMAIN fs.data

(* Sector number offset of the chain that starts at a cluster, the root of *)
(* a FAT16 volume being cluster 0: [fs, ok, lba].                          *)
RECURSIVE ChainSector(_, _, _)
ChainSector(fs, c, offset) ==
    IF fs.type = 16 /\ c = 0 THEN [fs |-> fs, ok |-> offset < RootSectors, lba |-> offset]
    ELSE IF c = LAST_CLUSTER /\ offset < SPC THEN [fs |-> fs, ok |-> FALSE, lba |-> INVALID]
    ELSE IF offset < SPC THEN [fs |-> fs, ok |-> TRUE, lba |-> fatfs_lba_of_cluster(fs, c) + offset]
    ELSE LET Step(next) == ChainSector(next.fs, next.c, offset - SPC)
         IN  Step(fatfs_find_next_cluster(fs, c))

(* Loads a sector of a chain into currentsector, unless it is there. The   *)
(* address is set before the sector is read.                               *)
fatfs_sector_reader(fs, start, offset) ==
    LET Load(at) ==
            IF ~at.ok \/ at.lba = fs.cur.address THEN [fs |-> at.fs, ok |-> at.ok]
            ELSE IF at.lba \notin Volume(fs)
            THEN [fs |-> [at.fs EXCEPT !.cur.address = at.lba, !.wild = TRUE], ok |-> FALSE]
            ELSE [fs |-> [at.fs EXCEPT !.cur = [address |-> at.lba, data |-> at.fs.data[at.lba]]], ok |-> TRUE]
    IN  Load(ChainSector(fs, start, offset))

(* write_media of sectors from lba on: all of them, or none.               *)
WriteMedia(fs, lba, sectors) ==
    [fs |-> IF lba \in Volume(fs)
            THEN [fs EXCEPT !.data = [l \in DOMAIN @ |-> IF l \in lba .. lba + Len(sectors) - 1
                                                         THEN sectors[l - lba + 1] ELSE @[l]]]
            ELSE fs,
     ok |-> lba \in Volume(fs)]

(* write_media of currentsector, at its address.                           *)
WriteCurrent(fs) == WriteMedia(fs, fs.cur.address, <<fs.cur.data>>)

(* fatfs_write_sector of zeros to every sector of a cluster: from          *)
(* currentsector, whose address follows, or from a buffer of the caller.   *)
(* The first sector that is refused ends it.                               *)
EraseCluster(fs, c, target) ==
    LET first == fatfs_lba_of_cluster(fs, c)
        erased == WriteMedia(fs, first, [i \in 1 .. SPC |-> ZeroSector])
        last == IF erased.ok THEN first + SPC - 1 ELSE first
    IN  IF target THEN erased
        ELSE [erased EXCEPT !.fs.cur = [address |-> last, data |-> ZeroSector]]

(* fatfs_erase_fat and the erased root: what fatfs_format leaves.          *)
Formatted(type) ==
    [type |-> type,
     fat |-> [s \in 0 .. FatSectors - 1 |-> [e \in 0 .. EntriesPerFatSector - 1 |->
                IF s = 0 /\ e < (IF type = 16 THEN 2 ELSE 3) THEN LAST_CLUSTER ELSE 0]],
     data |-> [l \in 0 .. (IF type = 16 THEN RootSectors ELSE 0)
                          + VolClusters * SPC - 1 |-> ZeroSector],
     bufs |-> fatfs_fat_init, cur |-> [address |-> INVALID, data |-> ZeroSector],
     hint |-> 0, wild |-> FALSE, past |-> FALSE, full |-> FALSE]
=============================================================================
