------------------------------- MODULE FatDir -------------------------------
(***************************************************************************)
(* Directories of a FAT volume (fat_access.c, fat_write.c, fat_misc.c),    *)
(* with long file names.                                                   *)
(*                                                                         *)
(* A name is a member of Names; it takes Parts[name] long name entries     *)
(* and its short name is <<Base[name], tail>>. A slot of a directory is    *)
(*   Zero                                       blank                      *)
(*   [k |-> "del"]                              deleted                    *)
(*   [k |-> "lfn", text, part]                  part of a long name        *)
(*   [k |-> "sfn", name, dir, start, size]      a file or a directory      *)
(* Characters, checksums and time stamps are left out: two names compare   *)
(* equal when they are the same member of Names.                           *)
(***************************************************************************)
EXTENDS FatTable

CONSTANTS
    Names,
    Parts,          \* fatfs_lfn_entries_required
    Base,           \* what fatfs_lfn_create_sfn makes of a name
    MaxParts,       \* MAX_LONGFILENAME_ENTRIES
    MaxTail         \* 9999

None == [k |-> "none"]
Deleted == [k |-> "del"]

(***************************************************************************)
(* The long name collected in front of a short entry.                      *)
(***************************************************************************)
NoLfn == [n |-> 0, str |-> [i \in 1 .. MaxParts |-> <<>>]]

(* fatfs_lfn_cache_init(lfn, 0): the texts stay, the count goes.           *)
fatfs_lfn_cache_init(lfn) == [lfn EXCEPT !.n = 0]

(* The first entry seen is the last part of the name and gives the count.  *)
fatfs_lfn_cache_entry(lfn, e) ==
    IF e.part > MaxParts THEN lfn
    ELSE [n |-> IF lfn.n = 0 THEN e.part ELSE lfn.n, str |-> [lfn.str EXCEPT ![e.part] = e.text]]

(* fatfs_lfn_cache_get: parts 1 to n, read as one string.                  *)
fatfs_lfn_cache_get(lfn) ==
    {name \in Names : Parts[name] = lfn.n /\ \A i \in 1 .. lfn.n : lfn.str[i] = <<name, i>>}

(***************************************************************************)
(* Searching. want says what for: a long name, a short one or any entry.   *)
(***************************************************************************)
(* Bug: the long name of a deleted entry is kept for the next one.         *)
Examine_KeepLfn(want, lfn, e) ==
    CASE e.k = "lfn" -> [lfn |-> fatfs_lfn_cache_entry(lfn, e), hit |-> FALSE]
      [] e.k = "sfn" ->
            [lfn |-> fatfs_lfn_cache_init(lfn),
             hit |-> CASE want.k = "long"  -> IF lfn.n # 0 THEN want.name \in fatfs_lfn_cache_get(lfn)
                                              ELSE e.name = <<want.name, 0>>
                       [] want.k = "short" -> e.name = want.name
                       [] want.k = "any"   -> TRUE]
      [] OTHER -> [lfn |-> lfn, hit |-> FALSE]

(* One slot: fatfs_entry_lfn_text, _lfn_invalid, _lfn_exists, _sfn_only.   *)
Examine(want, lfn, e) ==
    CASE e.k = "lfn" -> [lfn |-> fatfs_lfn_cache_entry(lfn, e), hit |-> FALSE]
      [] e.k = "sfn" ->
            [lfn |-> fatfs_lfn_cache_init(lfn),
             hit |-> CASE want.k = "long"  -> IF lfn.n # 0 THEN want.name \in fatfs_lfn_cache_get(lfn)
                                              ELSE e.name = <<want.name, 0>>
                       [] want.k = "short" -> e.name = want.name
                       [] want.k = "any"   -> TRUE]
      [] OTHER -> [lfn |-> fatfs_lfn_cache_init(lfn), hit |-> FALSE]

(* The slots of a loaded sector from item on: where the first hit is, the  *)
(* long name in front of it, and the cache for the next sector.            *)
SearchSector(want, lfn0, sector, item) ==
    LET step(st, i) ==
            IF st.at # INVALID \/ i < item THEN st
            ELSE LET r == Examine(want, st.lfn, sector[i])
                 IN  [lfn |-> r.lfn, at |-> IF r.hit THEN i ELSE INVALID,
                      name |-> IF r.hit THEN fatfs_lfn_cache_get(st.lfn) ELSE {}]
    IN  FoldLeft(step, [lfn |-> lfn0, at |-> INVALID, name |-> {}], [i \in 1 .. SectorSize |-> i - 1])

(* The loop over the sectors of a directory from sector x, slot item, on:  *)
(* [fs, ok, x, item, e, name]. currentsector is left at the hit.           *)
RECURSIVE Scan(_, _, _, _, _, _)
Scan(fs, dir, x, item, lfn, want) ==
    LET Found(f, r) ==
            IF r.at = INVALID THEN Scan(f, dir, x + 1, 0, r.lfn, want)
            ELSE [fs |-> f, ok |-> TRUE, x |-> x, item |-> r.at, e |-> f.cur.data[r.at], name |-> r.name]
        Search(read) ==
            IF ~read.ok THEN [fs |-> read.fs, ok |-> FALSE, x |-> x, item |-> item, e |-> None, name |-> {}]
            ELSE Found(read.fs, SearchSector(want, lfn, read.fs.cur.data, item))
    IN  Search(fatfs_sector_reader(fs, dir, x))

fatfs_get_file_entry(fs, dir, name) == Scan(fs, dir, 0, 0, NoLfn, [k |-> "long", name |-> name])

fatfs_sfn_exists(fs, dir, sfn) == Scan(fs, dir, 0, 0, NoLfn, [k |-> "short", name |-> sfn])

(* The entry that was found is changed in currentsector and written back.  *)
RewriteEntry(at, e) ==
    IF at.ok THEN WriteCurrent([at.fs EXCEPT !.cur.data[at.item] = e]).fs ELSE at.fs

fatfs_update_file_length(fs, dir, sfn, length) ==
    LET Resize(at) == RewriteEntry(at, [at.e EXCEPT !.size = length])
    IN  Resize(fatfs_sfn_exists(fs, dir, sfn))

(* The long name entries stay.                                             *)
fatfs_mark_file_deleted(fs, dir, sfn) == RewriteEntry(fatfs_sfn_exists(fs, dir, sfn), Deleted)

(* fatfs_list_directory_start and _next: dirls is [cluster, sector,        *)
(* offset]; the result has the entry after it.                             *)
fatfs_list_directory_start(start) == [cluster |-> start, sector |-> 0, offset |-> 0]

(* Bug: the next call starts at the entry that was returned.               *)
NextSlot_Same(r) == IF r.ok THEN r.item ELSE 0

(* Where the next call starts.                                             *)
NextSlot(r) == IF r.ok THEN r.item + 1 ELSE 0

fatfs_list_directory_next(fs, dirls) ==
    LET Answer(r) == [fs |-> r.fs, ok |-> r.ok, e |-> r.e, name |-> r.name,
                      dirls |-> [dirls EXCEPT !.sector = r.x, !.offset = NextSlot(r)]]
    IN  Answer(Scan(fs, dirls.cluster, dirls.sector, dirls.offset, NoLfn, [k |-> "any"]))

(***************************************************************************)
(* Adding an entry.                                                        *)
(***************************************************************************)
(* A run of free slots is of deleted and blank ones and of long name       *)
(* entries, which count in case their file turns out to be deleted; only   *)
(* a deleted or a blank slot can complete it.                              *)
CountSlot(st, e, x, i, count) ==
    IF st.done THEN st
    ELSE IF e.k = "sfn" THEN [spaces |-> 0, done |-> FALSE, start |-> <<>>]
    ELSE [spaces |-> st.spaces + 1, done |-> e.k # "lfn" /\ st.spaces + 1 >= count,
          start |-> IF st.spaces = 0 THEN <<x, i>> ELSE st.start]

(* A directory without room grows by an erased cluster. [fs, ok, start].   *)
RECURSIVE FindFrom(_, _, _, _, _)
FindFrom(fs, dir, count, x, run) ==
    LET Counted(f, next) ==
            IF next.done THEN [fs |-> f, ok |-> TRUE, start |-> next.start]
            ELSE FindFrom(f, dir, count, x + 1, next)
        Count(f) ==
            Counted(f, FoldLeft(LAMBDA st, i : CountSlot(st, f.cur.data[i], x, i, count), run,
                                [i \in 1 .. SectorSize |-> i - 1]))
        Erased(done) == [fs |-> done.fs, ok |-> done.ok,
                         start |-> IF run.start = <<>> THEN <<x, 0>> ELSE run.start]
        Linked(added, c) == IF added.ok THEN Erased(EraseCluster(added.fs, c, FALSE))
                            ELSE [fs |-> added.fs, ok |-> FALSE, start |-> <<>>]
        Grow(blank) ==
            IF ~blank.ok THEN [fs |-> blank.fs, ok |-> FALSE, start |-> <<>>]
            ELSE Linked(fatfs_fat_add_cluster_to_chain(blank.fs, dir, blank.c), blank.c)
        Look(read) == IF read.ok THEN Count(read.fs)
                      ELSE Grow(fatfs_find_blank_cluster(read.fs, rootdir_first_cluster(fs)))
    IN  Look(fatfs_sector_reader(fs, dir, x))

fatfs_find_free_dir_offset(fs, dir, count) ==
    FindFrom(fs, dir, count, 0, [spaces |-> 0, done |-> FALSE, start |-> <<>>])

(* Stores entries from sector x, slot item, on, sector by sector: [fs, ok] *)
RECURSIVE Store(_, _, _, _, _)
Store(fs, dir, x, item, entries) ==
    LET n == IF Len(entries) <= SectorSize - item THEN Len(entries) ELSE SectorSize - item
        Put(f) == WriteCurrent([f EXCEPT !.cur.data =
                      [i \in 0 .. SectorSize - 1 |-> IF i \in item .. item + n - 1 THEN entries[i - item + 1]
                                                     ELSE @[i]]])
        Wrote(done) == IF ~done.ok THEN done
                       ELSE Store(done.fs, dir, x + 1, 0, SubSeq(entries, n + 1, Len(entries)))
        Step(read) == IF ~read.ok THEN [fs |-> read.fs, ok |-> FALSE] ELSE Wrote(Put(read.fs))
    IN  IF entries = <<>> THEN [fs |-> fs, ok |-> TRUE] ELSE Step(fatfs_sector_reader(fs, dir, x))

(* fatfs_filename_to_lfn: the last part of the name comes first.           *)
fatfs_filename_to_lfn(name) ==
    [i \in 1 .. Parts[name] |->
        [k |-> "lfn", text |-> <<name, Parts[name] + 1 - i>>, part |-> Parts[name] + 1 - i]]

fatfs_sfn_create_entry(sfn, size, start, dir) ==
    [k |-> "sfn", name |-> sfn, dir |-> dir, start |-> start, size |-> size]

fatfs_add_file_entry(fs, dir, name, sfn, start, size, isDir) ==
    LET Enter(room) ==
            IF ~room.ok THEN [fs |-> room.fs, ok |-> FALSE]
            ELSE Store(room.fs, dir, room.start[1], room.start[2],
                       Append(fatfs_filename_to_lfn(name), fatfs_sfn_create_entry(sfn, size, start, isDir)))
    IN  Enter(fatfs_find_free_dir_offset(fs, dir, Parts[name] + 1))

(* The first short name with a tail that the directory does not have.      *)
RECURSIVE PickSfn(_, _, _, _)
PickSfn(fs, dir, name, tail) ==
    LET Try(at) == IF ~at.ok THEN [fs |-> at.fs, ok |-> TRUE, sfn |-> <<Base[name], tail>>]
                   ELSE IF tail + 1 >= MaxTail THEN [fs |-> at.fs, ok |-> FALSE, sfn |-> <<>>]
                   ELSE PickSfn(at.fs, dir, name, tail + 1)
    IN  Try(fatfs_sfn_exists(fs, dir, <<Base[name], tail>>))
=============================================================================
