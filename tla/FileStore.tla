----------------------------- MODULE FileStore ------------------------------
(***************************************************************************)
(* What a caller of the FAT library relies on: a store of named sequences  *)
(* of bytes and handles with a position. No clusters, no sectors, no       *)
(* buffers. A file is what was written to it, from the write on, and stays *)
(* so when it is closed. A seek may lose what was written (fl_fseek drops  *)
(* a dirty sector buffer): nothing is promised about that file from then   *)
(* on, and everything about the others. Nothing is promised about contents *)
(* once the volume has run out of space.                                   *)
(***************************************************************************)
EXTENDS Integers, Sequences

CONSTANTS Paths, HandleIds, MaxLength

VARIABLES
    content,    \* the bytes of the files that exist
    handle,     \* the open handles: path and position
    got,        \* what the last call read
    lost,       \* files that lost what was written to them
    full

storeVars == <<content, handle, got, lost, full>>

Exists(p) == p \in DOMAIN content
InUse(h) == h \in DOMAIN handle
IsOpen(p) == \E h \in DOMAIN handle : handle[h].path = p

With(f, x, y) == [z \in DOMAIN f \cup {x} |-> IF z = x THEN y ELSE f[z]]
Without(f, x) == [z \in DOMAIN f \ {x} |-> f[z]]

(* s with bytes written over it from position at on.                       *)
Overwrite(s, at, bytes) ==
    [i \in 1 .. IF at + Len(bytes) > Len(s) THEN at + Len(bytes) ELSE Len(s) |->
        IF i \in at + 1 .. at + Len(bytes) THEN bytes[i - at] ELSE s[i]]

StoreInit == content = <<>> /\ handle = <<>> /\ got = <<>> /\ lost = {} /\ full = FALSE

(* An existing file keeps its content, in mode "w" too: the comment on     *)
(* fl_fopen says that "w" erases it, but nothing reads FILE_ERASE.         *)
Open(h, p) ==
    /\ ~InUse(h) /\ ~IsOpen(p)
    /\ handle' = With(handle, h, [path |-> p, pos |-> 0])
    /\ got' = <<>> /\ UNCHANGED <<lost, full>>
    /\ content' = IF Exists(p) THEN content ELSE With(content, p, <<>>)

(* The position of a handle moves to pos.                                  *)
MoveTo(h, pos) == InUse(h) /\ handle' = [handle EXCEPT ![h].pos = pos]

(* A write starts at the position or, appending, at the end.               *)
Put(h, bytes, at) ==
    /\ MoveTo(h, at + Len(bytes))
    /\ got' = <<>> /\ UNCHANGED <<lost, full>>
    /\ LET p == handle[h].path
       IN  /\ at \in {handle[h].pos, Len(content[p])}
           /\ content' = [content EXCEPT ![p] = Overwrite(@, at, bytes)]

Get(h, n) ==
    /\ MoveTo(h, handle[h].pos + n)
    /\ UNCHANGED <<lost, full>>
    /\ n <= Len(content[handle[h].path]) - handle[h].pos
    /\ got' = SubSeq(content[handle[h].path], handle[h].pos + 1, handle[h].pos + n)
    /\ UNCHANGED content

Seek(h, pos) ==
    /\ MoveTo(h, pos)
    /\ pos <= Len(content[handle[h].path])
    /\ got' = <<>> /\ UNCHANGED <<lost, full, content>>

Close(h) == InUse(h) /\ handle' = Without(handle, h) /\ got' = <<>> /\ UNCHANGED <<lost, full, content>>

(* Nothing happens to the other files.                                     *)
Keeps(p) == DOMAIN content' = DOMAIN content /\ \A q \in DOMAIN content \ {p} : content'[q] = content[q]

(* A seek that loses what was written.                                     *)
Lose(h, pos) ==
    /\ MoveTo(h, pos)
    /\ Keeps(handle[h].path) /\ lost' = lost \cup {handle[h].path}
    /\ got' = <<>> /\ UNCHANGED full

(* Any call on a handle of a file that lost data.                          *)
Careless(h) ==
    /\ handle' = Without(handle, h) \/ \E pos \in 0 .. MaxLength : MoveTo(h, pos)
    /\ InUse(h) /\ handle[h].path \in lost /\ Keeps(handle[h].path)
    /\ UNCHANGED <<lost, full>>

Remove(p) ==
    /\ got' = <<>> /\ UNCHANGED <<handle, lost, full>>
    /\ Exists(p) /\ ~IsOpen(p)
    /\ content' = Without(content, p)

(* Flushing, listing and calls that fail.                                  *)
Idle == got' = <<>> /\ UNCHANGED <<handle, lost, full, content>>

StoreNext(Written) ==
    \/ \E h \in HandleIds :
          \/ \E p \in Paths : Open(h, p)
          \/ \E at \in 0 .. MaxLength : Seek(h, at) \/ Lose(h, at) \/ Get(h, at) \/ \E bytes \in Written : Put(h, bytes, at)
          \/ Close(h) \/ Careless(h)
    \/ \E p \in Paths : Remove(p)
    \/ Idle \/ full'
=============================================================================
