------------------------------- MODULE FatLib -------------------------------
(***************************************************************************)
(* The interface of the FAT library (fat_filelib.c) with writing and long  *)
(* names compiled in. One action per call: calls are not concurrent and    *)
(* run to their end. A path is a sequence of names. fl_fputc and fl_fputs  *)
(* are fl_fwrite, fl_fgetc is fl_fread; fl_ftell, fl_fgetpos and fl_feof   *)
(* read the position and change nothing.                                   *)
(***************************************************************************)
EXTENDS FatFile

CONSTANTS
    Handles,        \* _files, FATFS_MAX_OPEN_FILES of them
    Types,          \* the kinds of volume: 16, 32
    FilePaths,      \* paths that are opened, created and removed
    DirPaths,       \* paths that are created as directories and listed
    Modes,          \* of "r", "w", "a", "r+", "w+", "a+"
    Writes,         \* sequences of bytes that are written
    Reads,          \* lengths that are read
    Seeks,          \* <<offset, origin>>
    MaxSize,        \* bound on the size of a file
    MaxCalls        \* bound on the number of calls, for each type of volume

VARIABLES
    fs,             \* _fs and the medium
    file,           \* _files
    open,           \* the handles in _open_file_list; the others are free
    out,            \* what the last call read
    listing,        \* the FL_DIR, what fl_readdir returned and what it must
    calls,          \* calls made so far, of those that count
    lost,           \* auxiliary: paths whose written data a seek dropped
    content         \* auxiliary: ContentOf the others

vars == <<fs, file, open, out, listing, calls, lost, content>>

NL == 2             \* the byte that ends a line
Byte(v) == [k |-> "byte", v |-> v]
Written == {[i \in DOMAIN s |-> Byte(s[i])] : s \in Writes}

(***************************************************************************)
(* Handles and paths.                                                      *)
(***************************************************************************)
PathOf(h) == Append(file[h].path, file[h].name)

(* Some open handle has the path.                                          *)
_check_file_open(path) == \E h \in open : PathOf(h) = path

(* _allocate_file finds a handle; which one makes no difference.           *)
SomeFree == open # Handles
_allocate_file == CHOOSE h \in Handles \ open : TRUE

(* The start cluster of a directory: [fs, ok, c].                          *)
RECURSIVE OpenFrom(_, _, _)
OpenFrom(f, c, path) ==
    LET Enter(at) ==
            IF ~at.ok THEN [fs |-> at.fs, ok |-> FALSE, c |-> INVALID]
            ELSE IF ~at.e.dir THEN [fs |-> at.fs, ok |-> FALSE, c |-> INVALID]
            ELSE OpenFrom(at.fs, at.e.start, Tail(path))
    IN  IF path = <<>> THEN [fs |-> f, ok |-> TRUE, c |-> c]
        ELSE Enter(fatfs_get_file_entry(f, c, Head(path)))

_open_directory(f, path) == OpenFrom(f, rootdir_first_cluster(f), path)

NewHandle(path, parent, sfn, start, length) ==
    [Closed EXCEPT !.path = Front(path), !.name = Last(path), !.parent = parent, !.sfn = sfn,
                   !.start = start, !.filelength = length]

Failed(f) == [fs |-> f, ok |-> FALSE, h |-> Closed]

(* [fs, ok, h]: an existing file that is not open.                         *)
_open_file(f, path) ==
    LET Use(dir, at) ==
            IF ~at.ok THEN Failed(at.fs)
            ELSE IF at.e.dir THEN Failed(at.fs)
            ELSE [fs |-> fatfs_fat_purge(at.fs), ok |-> TRUE,
                  h |-> NewHandle(path, dir, at.e.name, at.e.start, at.e.size)]
        Look(parent) == IF ~parent.ok THEN Failed(parent.fs)
                        ELSE Use(parent.c, fatfs_get_file_entry(parent.fs, parent.c, Last(path)))
    IN  IF ~SomeFree \/ _check_file_open(path) THEN Failed(f) ELSE Look(_open_directory(f, Front(path)))

(* Bug: the cluster of an entry that could not be added is kept.           *)
Undo_Keep(f, c) == f

(* The cluster of an entry that could not be added is freed.               *)
Undo(f, c) == fatfs_free_cluster_chain(f, c)

(* A new file or, its cluster erased, a new directory: [fs, ok, h]. A      *)
(* cluster that cannot be erased is not freed.                             *)
Create(f, path, isDir) ==
    LET Added(dir, c, sfn, added) ==
            IF ~added.ok THEN Failed(Undo(added.fs, c))
            ELSE [fs |-> fatfs_fat_purge(added.fs), ok |-> TRUE, h |-> NewHandle(path, dir, sfn, c, 0)]
        Named(dir, c, short) ==
            IF ~short.ok THEN Failed(Undo(short.fs, c))
            ELSE Added(dir, c, short.sfn, fatfs_add_file_entry(short.fs, dir, Last(path), short.sfn, c, 0, isDir))
        Erased(dir, c, done) == IF ~done.ok THEN Failed(done.fs)
                                ELSE Named(dir, c, PickSfn(done.fs, dir, Last(path), 0))
        Space(dir, space) ==
            IF ~space.ok THEN Failed(space.fs)
            ELSE Erased(dir, space.c, IF isDir THEN EraseCluster(space.fs, space.c, TRUE) ELSE space)
        Absent(dir, at) == IF at.ok THEN Failed(at.fs) ELSE Space(dir, fatfs_allocate_free_space(at.fs))
        Look(parent) == IF ~parent.ok THEN Failed(parent.fs)
                        ELSE Absent(parent.c, fatfs_get_file_entry(parent.fs, parent.c, Last(path)))
    IN  IF ~SomeFree \/ _check_file_open(path) THEN Failed(f) ELSE Look(_open_directory(f, Front(path)))

_create_file(f, path) == Create(f, path, FALSE)
_create_directory(f, path) == Create(f, path, TRUE)

(* The flags of a mode. "+" after "a" takes the branch of "w".             *)
flags(mode) ==
    [r |-> mode \notin {"w", "a"}, w |-> mode # "r", a |-> mode \in {"a", "a+"},
     create |-> mode \notin {"r", "r+"}]

(***************************************************************************)
(* The calls.                                                              *)
(***************************************************************************)
May == calls < MaxCalls[fs.type] /\ calls' = calls + 1

fl_fopen(path, mode) ==
    LET fl == flags(mode)
        Made(x) == IF ~x.ok /\ fl.create THEN _create_file(x.fs, path) ELSE x
        Opened(x) == IF ~fl.r /\ fl.create /\ ~x.ok THEN _open_file(x.fs, path) ELSE x
    IN  /\ May
        /\ \E done \in {Opened(Made(IF fl.r THEN _open_file(fs, path) ELSE Failed(fs)))} :
              /\ fs' = done.fs
              /\ IF done.ok
                 THEN LET h == _allocate_file
                      IN  /\ open' = open \cup {h}
                          /\ file' = [file EXCEPT ![h] = [done.h EXCEPT !.r = fl.r, !.w = fl.w, !.a = fl.a]]
                 ELSE UNCHANGED <<open, file>>
        /\ out' = <<>> /\ UNCHANGED <<listing, lost>>

(* What closing does to the volume.                                        *)
CloseFile(f, x) ==
    LET Update(v) == IF x.changed THEN fatfs_update_file_length(v, x.parent, x.sfn, x.filelength) ELSE v
    IN  fatfs_fat_purge(Update(Flush(f, x).fs))

fl_fclose(h) ==
    /\ h \in open
    /\ fs' = CloseFile(fs, file[h])
    /\ file' = [file EXCEPT ![h] = Closed]
    /\ open' = open \ {h}
    /\ out' = <<>> /\ UNCHANGED <<listing, calls, lost>>

fl_fflush(h) ==
    /\ h \in open /\ file[h].dirty
    /\ \E done \in {Flush(fs, file[h])} : fs' = done.fs /\ file' = [file EXCEPT ![h] = done.h]
    /\ out' = <<>> /\ UNCHANGED <<open, listing, calls, lost>>

fl_fread(h, count) ==
    /\ h \in open /\ May
    /\ \E done \in {Read(fs, file[h], count)} :
          fs' = done.fs /\ file' = [file EXCEPT ![h] = done.h] /\ out' = done.got
    /\ UNCHANGED <<open, listing, lost>>

(* Bytes one at a time, to the end of a line or of the file.               *)
RECURSIVE GetLine(_, _, _, _)
GetLine(f, x, n, line) ==
    LET Step(c) == IF c.got = <<>> \/ c.got = <<Byte(NL)>> THEN [c EXCEPT !.got = line \o @]
                   ELSE GetLine(c.fs, c.h, n - 1, line \o c.got)
    IN  IF n = 0 THEN [fs |-> f, h |-> x, got |-> line] ELSE Step(Read(f, x, 1))

fl_fgets(h, n) ==
    /\ h \in open /\ May
    /\ \E done \in {GetLine(fs, file[h], n - 1, <<>>)} :
          fs' = done.fs /\ file' = [file EXCEPT ![h] = done.h] /\ out' = done.got
    /\ UNCHANGED <<open, listing, lost>>

fl_fwrite(h, bytes) ==
    /\ h \in open /\ file[h].w /\ May
    /\ WriteAt(file[h]) + Len(bytes) <= MaxSize
    /\ \E done \in {Write(fs, file[h], bytes)} : fs' = done.fs /\ file' = [file EXCEPT ![h] = done.h]
    /\ out' = <<>> /\ UNCHANGED <<open, listing, lost>>

(* Only "end" itself can be sought from the end; positions are clipped.    *)
Target(x, offset, origin) ==
    CASE origin = "set" -> Lower(offset, x.filelength)
      [] origin = "cur" -> IF offset >= 0 THEN Lower(x.bytenum + offset, x.filelength)
                           ELSE IF -offset > x.bytenum THEN 0 ELSE x.bytenum + offset
      [] origin = "end" -> x.filelength

(* The sector buffer is invalidated, written to or not.                    *)
fl_fseek(h, offset, origin) ==
    /\ h \in open /\ May
    /\ origin = "end" => offset = 0
    /\ lost' = IF file[h].dirty THEN lost \cup {PathOf(h)} ELSE lost
    /\ file' = [file EXCEPT ![h].address = INVALID, ![h].dirty = FALSE,
                            ![h].bytenum = Target(file[h], offset, origin)]
    /\ out' = <<>> /\ UNCHANGED <<fs, open, listing>>

(* Opens the file to see that nobody has it open, frees its clusters,      *)
(* marks its entry and closes it.                                          *)
fl_remove(path) ==
    /\ May
    /\ \E x \in {_open_file(fs, path)} :
          LET gone == fatfs_mark_file_deleted(fatfs_free_cluster_chain(x.fs, x.h.start), x.h.parent, x.h.sfn)
          IN  /\ fs' = IF x.ok THEN CloseFile(gone, x.h) ELSE x.fs
              /\ listing' = IF x.ok THEN [listing EXCEPT !.must = @ \ {x.h.start}] ELSE listing
    /\ out' = <<>> /\ UNCHANGED <<file, open, lost>>

fl_createdirectory(path) ==
    /\ May
    /\ fs' = _create_directory(fs, path).fs
    /\ out' = <<>> /\ UNCHANGED <<file, open, listing, lost>>

fl_shutdown ==
    /\ \E i \in DOMAIN fs.bufs : fs.bufs[i].dirty
    /\ fs' = fatfs_fat_purge(fs)
    /\ out' = <<>> /\ UNCHANGED <<file, open, listing, calls, lost>>

(***************************************************************************)
(* What is on the volume, read without the library: tab is the table, fd   *)
(* the sectors.                                                            *)
(***************************************************************************)
(* The table with what the buffers hold.                                   *)
View(f) == [s \in DOMAIN f.fat |-> IF Buffered(f, s) # {} THEN f.bufs[Buffer(f, s)].data ELSE f.fat[s]]

Link(tab, c) == tab[FatSector(c)][c % EntriesPerFatSector]

(* The chain from c on, cut where it leaves the table or grows too long.   *)
RECURSIVE ChainFrom(_, _, _)
ChainFrom(tab, c, max) ==
    IF c \notin Clusters \/ max = 0 THEN <<>> ELSE <<c>> \o ChainFrom(tab, Link(tab, c), max - 1)
Chain(tab, c) == ChainFrom(tab, c, Cardinality(Clusters) + 1)

(* There is nothing to read behind the end of the volume.                  *)
SectorAt(f, lba) == IF lba \in Volume(f) THEN f.data[lba] ELSE ZeroSector

SectorsOf(f, tab, c) ==
    IF f.type = 16 /\ c = 0 THEN [i \in 1 .. RootSectors |-> f.data[i - 1]]
    ELSE LET chain == Chain(tab, c)
         IN  [i \in 1 .. Len(chain) * SPC |->
                SectorAt(f, fatfs_lba_of_cluster(f, chain[((i - 1) \div SPC) + 1]) + ((i - 1) % SPC))]

(* The entries of a directory: short entries with the name in front.       *)
EntriesOf(f, tab, c) ==
    LET named(slots, i) == IF i > 1 /\ slots[i - 1].k = "lfn" THEN slots[i - 1].text[1] ELSE slots[i].name[1]
        Short(slots) == {[name |-> named(slots, i), e |-> slots[i]] :
                            i \in {j \in DOMAIN slots : slots[j].k = "sfn"}}
    IN  Short(Bytes(SectorsOf(f, tab, c)))

Root(f) == rootdir_first_cluster(f)
RootEntries(f, tab) == EntriesOf(f, tab, Root(f))

(* Every file and directory with its path, two levels deep.                *)
Tree(f, tab) ==
    LET top == RootEntries(f, tab)
        below(d) == {[path |-> <<d.name, x.name>>, e |-> x.e] : x \in EntriesOf(f, tab, d.e.start)}
    IN  {[path |-> <<x.name>>, e |-> x.e] : x \in top} \cup UNION {below(d) : d \in {x \in top : x.e.dir}}

(***************************************************************************)
(* What a caller sees of the files. An open file is the sectors of its        *)
(* chain with the sector buffer over them; a closed one is what the medium *)
(* alone holds.                                                            *)
(***************************************************************************)
Prefix(s, n) == [i \in 1 .. n |-> IF i <= Len(s) THEN s[i] ELSE Zero]

OpenContent(f, x) ==
    LET stored == SectorsOf(f, View(f), x.start)
        n == (x.filelength + SectorSize - 1) \div SectorSize
    IN  Prefix(Bytes([i \in 1 .. n |-> IF x.dirty /\ x.address = i - 1 THEN x.data
                                       ELSE IF i <= Len(stored) THEN stored[i] ELSE ZeroSector]),
               x.filelength)

(* fl is file, op is open.                                                 *)
ContentOf(f, fl, op) ==
    LET onDisk == {x \in Tree(f, f.fat) : ~x.e.dir}
        openAt(p) == {h \in op : Append(fl[h].path, fl[h].name) = p}
    IN  [p \in {x.path : x \in onDisk} |->
            IF openAt(p) # {} THEN OpenContent(f, fl[CHOOSE h \in openAt(p) : TRUE])
            ELSE LET x == CHOOSE y \in onDisk : y.path = p
                 IN  Prefix(Bytes(SectorsOf(f, f.fat, x.e.start)), x.e.size)]

(***************************************************************************)
(* Listing a directory.                                                    *)
(***************************************************************************)
fl_opendir(path) ==
    /\ May
    /\ \E at \in {_open_directory(fs, path)} :
          /\ fs' = at.fs
          /\ listing' = IF ~at.ok THEN listing
                        ELSE [on |-> TRUE, dirls |-> fatfs_list_directory_start(at.c), seen |-> <<>>,
                              must |-> {x.e.start : x \in EntriesOf(fs, View(fs), at.c)}]
    /\ out' = <<>> /\ UNCHANGED <<file, open, lost>>

fl_readdir ==
    /\ listing.on
    /\ \E next \in {fatfs_list_directory_next(fs, listing.dirls)} :
          /\ fs' = next.fs
          /\ listing' = [listing EXCEPT !.dirls = next.dirls, !.on = next.ok,
                                        !.seen = IF next.ok THEN Append(@, next.e.start) ELSE @]
    /\ out' = <<>> /\ UNCHANGED <<file, open, calls, lost>>

Init ==
    /\ \E type \in Types : fs = Formatted(type)
    /\ file = [h \in Handles |-> Closed]
    /\ open = {} /\ out = <<>> /\ calls = 0 /\ lost = {} /\ content = ContentOf(fs, file, open)
    /\ listing = [on |-> FALSE, dirls |-> fatfs_list_directory_start(0), seen |-> <<>>, must |-> {}]

Call ==
    \/ \E p \in FilePaths : fl_remove(p) \/ \E m \in Modes : fl_fopen(p, m)
    \/ \E p \in DirPaths : fl_createdirectory(p)
    \/ fl_opendir(<<>>)
    \/ fl_readdir \/ fl_shutdown
    \/ \E h \in Handles :
          \/ fl_fclose(h) \/ fl_fflush(h)
          \/ \E n \in Reads : fl_fread(h, n) \/ fl_fgets(h, n)
          \/ \E s \in Written : fl_fwrite(h, s)
          \/ \E t \in Seeks : fl_fseek(h, t[1], t[2])

Next == Call /\ content' = ContentOf(fs', file', open')

Spec == Init /\ [][Next]_vars

-----------------------------------------------------------------------------
(* Every variable has its type.                                            *)
TypeOK ==
    /\ fs.type \in Types /\ open \subseteq Handles /\ calls \in 0 .. MaxCalls[fs.type]
    /\ \A h \in Handles : file[h].bytenum \in 0 .. MaxSize /\ file[h].filelength \in 0 .. MaxSize
    /\ \A i \in DOMAIN fs.bufs : fs.bufs[i].address \in {INVALID} \cup 0 .. FatSectors - 1
    /\ fs.cur.address \in INVALID .. RootSectors + Cardinality(Clusters) * SPC - 1
    /\ lost \subseteq FilePaths

(* The first clusters of all files and directories, with repetition.       *)
Owners == {<<Root(fs), <<>>>>} \cup {<<x.e.start, x.path>> : x \in Tree(fs, View(fs))}
ChainOf(o) == Chain(View(fs), o[1])

(* fatfs_fat_set_cluster and its callers keep the chains of all files and  *)
(* directories apart: none meets another or itself, and each ends in an    *)
(* end mark, while files grow, are removed and reuse clusters and          *)
(* directories grow, also when clusters behind the end of the volume are   *)
(* handed out and when none is left. Before that, and unless a seek has    *)
(* dropped the end of a file, no chain is followed past its end and no     *)
(* sector outside the volume is asked for.                                 *)
ChainsDisjoint ==
    /\ TypeOK
    /\ fs.wild => fs.full \/ fs.past \/ lost # {}
    /\ \A o \in Owners : LET c == ChainOf(o)
                         IN  /\ IsInjective(c)
                             /\ o[1] # 0 => c # <<>> /\ Link(View(fs), Last(c)) = LAST_CLUSTER
    /\ \A o, p \in Owners : o # p => Range(ChainOf(o)) \cap Range(ChainOf(p)) = {}

(* A cluster of the volume is free exactly when no file and no directory   *)
(* has it: none is lost by a call that fails half way, on a full volume    *)
(* neither. fatfs_count_free_clusters counts those and the entries behind  *)
(* the end of the volume.                                                  *)
NoLostClusters ==
    LET owned == UNION {Range(ChainOf(o)) : o \in Owners}
    IN  /\ {c \in VolumeClusters : Link(View(fs), c) = 0} = VolumeClusters \ owned
        /\ ~fs.past => fatfs_count_free_clusters(fs).n = Cardinality(Clusters \ owned)

(* What is buffered is what is stored: a clean FAT buffer, currentsector   *)
(* and the remembered cluster of an open file are never stale.             *)
BuffersCoherent ==
    /\ fs.cur.address \in Volume(fs) => fs.cur.data = fs.data[fs.cur.address]
    /\ \A i \in DOMAIN fs.bufs :
          LET b == fs.bufs[i] IN b.address # INVALID /\ ~b.dirty => b.data = fs.fat[b.address]
    /\ \A h \in open : ~fs.full /\ PathOf(h) \notin lost /\ file[h].lookup.idx # INVALID =>
          /\ file[h].lookup.idx < Len(Chain(View(fs), file[h].start))
          /\ file[h].lookup.c = Chain(View(fs), file[h].start)[file[h].lookup.idx + 1]

(* No two entries of a directory have the same name, long or short, after  *)
(* slots have been reused and tails picked.                                *)
NamesUnique ==
    \A d \in {Root(fs)} \cup {x.e.start : x \in {y \in Tree(fs, View(fs)) : y.e.dir}} :
        \A x, y \in EntriesOf(fs, View(fs), d) : x # y => x.name # y.name /\ x.e.name # y.e.name

(* Names in a directory are distinct, and every file is found under its    *)
(* path, whatever its neighbours' long names and deleted entries are.      *)
FilesFound ==
    /\ NamesUnique
    /\ \A x \in Tree(fs, View(fs)) :
        LET Same(at) == at.ok /\ at.e.start = x.e.start
        IN  Same(fatfs_get_file_entry(fs, _open_directory(fs, Front(x.path)).c, Last(x.path)))

(* A complete listing has every entry that was there from fl_opendir on    *)
(* exactly once, with other files created and removed in between.          *)
ListingComplete ==
    /\ \A c \in listing.must : Cardinality({i \in DOMAIN listing.seen : listing.seen[i] = c}) <= 1
    /\ listing.seen # <<>> /\ ~listing.on => listing.must \subseteq Range(listing.seen)

-----------------------------------------------------------------------------
handleBar == [h \in open |-> [path |-> PathOf(h), pos |-> file[h].bytenum]]

FS == INSTANCE FileStore WITH Paths <- FilePaths, HandleIds <- Handles, MaxLength <- MaxSize,
                              handle <- handleBar, got <- out, full <- fs.full

=============================================================================
