------------------------------ MODULE FatFile -------------------------------
(***************************************************************************)
(* Reading and writing an open file (fat_filelib.c, fat_write.c), with     *)
(* FATFS_INC_WRITE_SUPPORT. The operators work on fs and on h, the FL_FILE:*)
(* its place in the tree, bytenum and filelength, the sector buffer (data, *)
(* address, dirty), last_fat_lookup and the flags read, write and append.  *)
(***************************************************************************)
EXTENDS FatDir

Lower(x, y) == IF x <= y THEN x ELSE y

Closed ==
    [path |-> <<>>, name |-> "", parent |-> 0, start |-> 0, sfn |-> <<>>, bytenum |-> 0, filelength |-> 0,
     changed |-> FALSE, lookup |-> [idx |-> INVALID, c |-> INVALID], data |-> ZeroSector,
     address |-> INVALID, dirty |-> FALSE, r |-> FALSE, w |-> FALSE, a |-> FALSE]

(***************************************************************************)
(* Free space (fat_write.c).                                               *)
(***************************************************************************)
ForgetHint(f) ==
    IF f.hint # LAST_CLUSTER THEN fatfs_set_fs_info_next_free_cluster(f, LAST_CLUSTER) ELSE f

(* Bug: the new cluster is linked but not marked as the end.               *)
Extend_NoEnd(f, c, new) == fatfs_fat_set_cluster(f, c, new)

Extend(f, c, new) == fatfs_fat_set_cluster(fatfs_fat_set_cluster(f, c, new), new, LAST_CLUSTER)

RECURSIVE AddClusters(_, _, _)
AddClusters(f, c, n) ==
    LET Add(blank) ==
            IF ~blank.ok THEN [fs |-> blank.fs, ok |-> FALSE, c |-> c]
            ELSE [AddClusters(Extend(blank.fs, c, blank.c), blank.c, n - 1) EXCEPT !.c = blank.c]
    IN  IF n = 0 THEN [fs |-> f, ok |-> TRUE, c |-> c]
        ELSE Add(fatfs_find_blank_cluster(f, rootdir_first_cluster(f)))

(* [fs, ok, c]: n clusters behind c; c is then the first of them.          *)
fatfs_add_free_space(f, c, n) == AddClusters(ForgetHint(f), c, n)

(* The first cluster of a new file; its callers ask for one.               *)
fatfs_allocate_free_space(f) ==
    LET Take(blank) == IF ~blank.ok THEN blank
                       ELSE [blank EXCEPT !.fs = fatfs_fat_set_cluster(@, blank.c, LAST_CLUSTER)]
    IN  Take(fatfs_find_blank_cluster(ForgetHint(f), rootdir_first_cluster(f)))

(***************************************************************************)
(* Sectors of a file.                                                      *)
(***************************************************************************)
(* Follows n links; the cluster before the last one reached is prev. A     *)
(* writer stops at the end of the chain, a reader does not.                *)
RECURSIVE Follow(_, _, _, _, _)
Follow(f, prev, c, n, stop) ==
    LET Step(next) == Follow(next.fs, c, next.c, n - 1, stop)
    IN  IF n = 0 \/ (stop /\ c = LAST_CLUSTER) THEN [fs |-> f, prev |-> prev, c |-> c]
        ELSE Step(fatfs_find_next_cluster(f, c))

(* Cluster number idx of a file: last_fat_lookup, the one after it, or the *)
(* chain from its start.                                                   *)
Locate(f, h, idx, stop) ==
    IF idx = h.lookup.idx THEN [fs |-> f, prev |-> LAST_CLUSTER, c |-> h.lookup.c]
    ELSE IF idx # 0 /\ idx = h.lookup.idx + 1 THEN Follow(f, LAST_CLUSTER, h.lookup.c, 1, stop)
    ELSE Follow(f, LAST_CLUSTER, h.start, idx, stop)

Remember(h, idx, c) == [h EXCEPT !.lookup = [idx |-> idx, c |-> c]]

(* Up to count sectors, as far as the cluster goes: [fs, h, data].         *)
_read_sectors(f, h, offset, count) ==
    LET idx == offset \div SPC
        sector == offset % SPC
        n == Lower(count, SPC - sector)
        ReadAt(at, lba) ==
            IF at.c = LAST_CLUSTER THEN [fs |-> at.fs, h |-> h, data |-> <<>>]
            ELSE IF ~(lba .. lba + n - 1 \subseteq Volume(f))
            THEN [fs |-> [at.fs EXCEPT !.wild = TRUE], h |-> Remember(h, idx, at.c), data |-> <<>>]
            ELSE [fs |-> at.fs, h |-> Remember(h, idx, at.c), data |-> [i \in 1 .. n |-> at.fs.data[lba + i - 1]]]
        Found(at) == ReadAt(at, fatfs_lba_of_cluster(f, at.c) + sector)
    IN  Found(Locate(f, h, idx, FALSE))

(* As many sectors as the cluster has left.                                *)
SectorsInCluster(count, sector) == Lower(count, SPC - sector)

(* Up to Len(data) sectors; a chain that ends is extended first: [fs, h, n]*)
_write_sectors(f, h, offset, data) ==
    LET idx == offset \div SPC
        sector == offset % SPC
        n == SectorsInCluster(Len(data), sector)
        Space(at) == IF at.c = LAST_CLUSTER
                     THEN fatfs_add_free_space(at.fs, at.prev, (Len(data) + SPC - 1) \div SPC)
                     ELSE [fs |-> at.fs, ok |-> TRUE, c |-> at.c]
        Wrote(done, c) == [fs |-> [done.fs EXCEPT !.full = @ \/ ~done.ok], h |-> Remember(h, idx, c),
                           n |-> IF done.ok THEN n ELSE 0]
        WriteTo(there) ==
            IF ~there.ok THEN [fs |-> [there.fs EXCEPT !.full = TRUE], h |-> h, n |-> 0]
            ELSE Wrote(WriteMedia(there.fs, fatfs_lba_of_cluster(f, there.c) + sector, SubSeq(data, 1, n)), there.c)
    IN  WriteTo(Space(Locate(f, h, idx, TRUE)))

(* fl_fflush: [fs, h]; the data stays dirty when it could not be written.  *)
Flush(f, h) ==
    LET Clean(wrote) == [fs |-> wrote.fs, h |-> [wrote.h EXCEPT !.dirty = (wrote.n = 0)]]
    IN  IF h.dirty THEN Clean(_write_sectors(f, h, h.address, <<h.data>>)) ELSE [fs |-> f, h |-> h]

Bytes(sectors) == FlattenSeq([i \in DOMAIN sectors |-> [j \in 1 .. SectorSize |-> sectors[i][j - 1]]])

(* What was read, if anything was, into the sector buffer.                 *)
FillBuffer(r, sector) ==
    [fs |-> r.fs, ok |-> r.data # <<>>,
     h |-> IF r.data = <<>> THEN r.h
           ELSE [r.h EXCEPT !.data = r.data[1], !.address = sector, !.dirty = FALSE]]


(* Another sector into the sector buffer, the old one flushed first.       *)
LoadSector(f, h, sector) ==
    LET Load(flushed) == FillBuffer(_read_sectors(flushed.fs, flushed.h, sector, 1), sector)
    IN  Load(Flush(f, h))

(* The loop of fl_fread: whole sectors go to the caller's buffer, others   *)
(* through the sector buffer. [fs, h, got].                                *)
RECURSIVE ReadLoop(_, _, _, _, _, _)
ReadLoop(f, h, sector, offset, left, got) ==
    LET n == Lower(SectorSize - offset, left)
        moved(x, k) == [x EXCEPT !.bytenum = @ + k]
        Whole(r, k) ==
            IF k = 0 THEN [fs |-> r.fs, h |-> r.h, got |-> got]
            ELSE ReadLoop(r.fs, moved(r.h, k * SectorSize), sector + k, 0,
                          left - k * SectorSize, got \o Bytes(r.data))
        Direct(r) == Whole(r, Len(r.data))
        Part(r) ==
            IF ~r.ok THEN [fs |-> r.fs, h |-> r.h, got |-> got]
            ELSE ReadLoop(r.fs, moved(r.h, n), sector + 1, 0, left - n,
                          got \o [i \in 1 .. n |-> r.h.data[offset + i - 1]])
    IN  IF left = 0 THEN [fs |-> f, h |-> h, got |-> got]
        ELSE IF offset = 0 /\ left >= SectorSize
        THEN Direct(_read_sectors(f, h, sector, left \div SectorSize))
        ELSE Part(IF h.address = sector THEN [fs |-> f, h |-> h, ok |-> TRUE] ELSE LoadSector(f, h, sector))

(* Nothing is read past the end of the file.                               *)
Read(f, h, count) ==
    IF ~h.r \/ count = 0 \/ h.bytenum >= h.filelength THEN [fs |-> f, h |-> h, got |-> <<>>]
    ELSE ReadLoop(f, h, h.bytenum \div SectorSize, h.bytenum % SectorSize,
                  Lower(count, h.filelength - h.bytenum), <<>>)

(* The sector buffer for a partial write: the old sector, if there is one. *)
SectorToChange(f, h, sector) ==
    LET OrZero(loaded) ==
            [fs |-> loaded.fs,
             h |-> IF loaded.ok THEN loaded.h
                   ELSE [loaded.h EXCEPT !.data = ZeroSector, !.address = sector, !.dirty = FALSE]]
    IN  IF h.address = sector THEN [fs |-> f, h |-> h] ELSE OrZero(LoadSector(f, h, sector))

(* The loop of fl_fwrite: whole sectors past the sector buffer, which is   *)
(* flushed and dropped; others into it. [fs, h].                           *)
RECURSIVE WriteLoop(_, _, _, _, _)
WriteLoop(f, h, sector, offset, bytes) ==
    LET sectors == [i \in 1 .. Len(bytes) \div SectorSize |->
                        [j \in 0 .. SectorSize - 1 |-> bytes[(i - 1) * SectorSize + j + 1]]]
        n == Lower(SectorSize - offset, Len(bytes))
        rest(k) == SubSeq(bytes, k + 1, Len(bytes))
        Direct(x) ==
            IF x.n = 0 THEN [fs |-> x.fs, h |-> x.h]
            ELSE WriteLoop(x.fs, [x.h EXCEPT !.bytenum = @ + x.n * SectorSize],
                           sector + x.n, 0, rest(x.n * SectorSize))
        Dropped(x) == [x EXCEPT !.h.address = INVALID, !.h.dirty = FALSE]
        WriteWhole(x) == _write_sectors(x.fs, x.h, sector, sectors)
        Part(x) ==
            WriteLoop(x.fs,
                      [x.h EXCEPT !.data = [i \in 0 .. SectorSize - 1 |-> IF i \in offset .. offset + n - 1
                                                                         THEN bytes[i - offset + 1] ELSE @[i]],
                                  !.dirty = TRUE, !.bytenum = @ + n],
                      sector + 1, 0, rest(n))
    IN  IF bytes = <<>> THEN [fs |-> f, h |-> h]
        ELSE IF offset = 0 /\ Len(bytes) >= SectorSize
        THEN Direct(WriteWhole(IF h.address = INVALID THEN [fs |-> f, h |-> h] ELSE Dropped(Flush(f, h))))
        ELSE Part(SectorToChange(f, h, sector))

(* Where a write starts.                                                   *)
WriteAt(h) == IF h.a THEN h.filelength ELSE h.bytenum

Write(f, h, bytes) ==
    LET at == WriteAt(h)
        Lengthen(x) == [x EXCEPT !.filelength = IF x.bytenum > @ THEN x.bytenum ELSE @,
                                 !.changed = @ \/ x.bytenum > x.filelength]
    IN  [WriteLoop(f, [h EXCEPT !.bytenum = at], at \div SectorSize, at % SectorSize, bytes)
            EXCEPT !.h = Lengthen(@)]
=============================================================================
