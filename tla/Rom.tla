--------------------------------- MODULE Rom --------------------------------
(***************************************************************************)
(* The state behind the Open Firmware client interface (rom.c): the        *)
(* guest's memory claims, the one open file and the raw disk. Every call   *)
(* runs to its end before the guest goes on, with interrupts off.          *)
(*                                                                         *)
(* Device tree queries and the console keep no state here; "map" is in     *)
(* Htab. The guest uses only handles it was given, and claims at least one *)
(* byte, of its RAM.                                                       *)
(***************************************************************************)
EXTENDS Ranges, FiniteSets

CONSTANTS
    PAGE_SIZE,
    RamSize,        \* guest->ram_size
    ArenaSize,      \* MB(16)
    StackSize,      \* MB(1)
    Veneer,         \* <<address, size>> of the loaded veneer.exe
    Trampoline,     \* <<address, size>> of the client interface entry point
    FixedClaims,    \* <<address, size>> that the guest may claim
    ArenaClaims,    \* <<size, alignment>> that it may claim
    TwoTo31,        \* 2^31: one more than the largest int
    DiskLen,        \* guest_disk_len
    DiskSectors,    \* sectors of the file system on it
    MaxSectors,     \* sectors of a cluster: the most that one read asks for
    Offsets,        \* offsets that the guest seeks to, and lengths that it reads
    MaxClaims       \* bound on the number of claims

ASSUME RomAssumption ==
    /\ PAGE_SIZE \in Nat /\ PAGE_SIZE >= 2
    /\ RamSize % PAGE_SIZE = 0 /\ ArenaSize % PAGE_SIZE = 0 /\ StackSize % PAGE_SIZE = 0
    /\ ArenaSize + StackSize <= RamSize
    /\ RamSize \in Nat /\ ArenaSize \in Nat /\ StackSize \in Nat \ {0}
    /\ Offsets \subseteq Nat /\ TwoTo31 \in Nat \ {0}
    /\ DiskLen \in Nat /\ DiskSectors \in Nat /\ MaxSectors \in Nat

(* rom_init loads the veneer above the trampoline and, as it does not      *)
(* check, with enough RAM, below the stack.                                *)
ASSUME LayoutAssumption ==
    /\ Veneer \in Nat \X (Nat \ {0}) /\ Trampoline \in Nat \X (Nat \ {0})
    /\ Trampoline[1] + Trampoline[2] <= Veneer[1]
    /\ Veneer[1] + Veneer[2] <= RamSize - ArenaSize - StackSize

(* The guest's own claims: anywhere in its RAM, the arena included.        *)
ASSUME ClaimAssumption ==
    /\ FixedClaims \subseteq Nat \X (Nat \ {0}) /\ ArenaClaims \subseteq (Nat \ {0}) \X (Nat \ {0})
    /\ \A c \in FixedClaims : c[1] + c[2] <= RamSize

VARIABLES
    avail,          \* guest_mem_avail_ranges
    arena_ptr,      \* guest->rom.claim_arena_ptr
    cur_file,       \* cur_file # NULL
    disk_offset,    \* guest_disk_offset, an int
    position,       \* where the guest's seeks and reads have taken it
    handles,        \* handles the guest has been given and has not closed
    copied,         \* the last read of the disk: asked for at, copied from
    asked,          \* the sectors the FAT library last asked for
    buffer,         \* and what that put in memory, from the buffer's start on
    claims,         \* what was claimed, in order
    kinds,          \* and how: by rom_init, at an address whose pages were all
                    \* available ("free") or were not ("taken"), from the arena
    halt            \* "no", or the BUG that stopped the machine

vars == <<avail, arena_ptr, cur_file, disk_offset, position, handles, copied, asked, buffer,
          claims, kinds, halt>>
sectors == <<asked, buffer>>
disk == <<disk_offset, position, copied>>
files == <<cur_file, handles, disk, sectors>>
claimed == <<avail, arena_ptr, claims, kinds>>

arena_start == RamSize - ArenaSize
arena_end == RamSize

AlignTo(x, a) == x - (x % a)
AlignUpTo(x, a) == AlignTo(x + a - 1, a)

(***************************************************************************)
(* rom_claim.                                                              *)
(***************************************************************************)
(* Bug: claims are tracked to the byte.                                    *)
ClaimedPages_Bytes(out, size) == <<out, out + size - 1>>

(* Bug: the last page of an unaligned claim is left out.                   *)
ClaimedPages_Down(out, size) ==
    <<AlignTo(out, PAGE_SIZE), AlignTo(out, PAGE_SIZE) + AlignUpTo(size, PAGE_SIZE) - 1>>

(* The pages of a claim, which are what is tracked.                        *)
ClaimedPages(out, size) ==
    <<AlignTo(out, PAGE_SIZE), AlignUpTo(out + size, PAGE_SIZE) - 1>>

(* Takes the pages of a claim out of the available ranges, those of them   *)
(* that are in it: nothing asks whether they are.                          *)
Take(out, size, kind) ==
    LET pages == ClaimedPages(out, size)
        r == range_remove(avail, pages[1], pages[2])
    IN  IF r.bug THEN halt' = "range" /\ UNCHANGED <<avail, claims, kinds>>
        ELSE /\ avail' = r.rs
             /\ claims' = Append(claims, <<out, out + size - 1>>) /\ kinds' = Append(kinds, kind)
             /\ UNCHANGED halt

Calling == halt = "no" /\ claims # <<>> /\ Len(claims) < MaxClaims

(* Every page of a claim is available.                                     *)
Offered(addr, size) ==
    \A p \in ClaimedPages(addr, size)[1] .. ClaimedPages(addr, size)[2] : p \in Covered(avail)

(* align = 0: the caller names the address, any address.                   *)
claim_fixed(addr, size) ==
    /\ Calling
    /\ Take(addr, size, IF Offered(addr, size) THEN "free" ELSE "taken")
    /\ UNCHANGED <<arena_ptr, files>>

(* Bug: the arena moves by the alignment only.                             *)
claim_arena_NoSize(size, align) ==
    /\ Calling
    /\ LET out == AlignUpTo(arena_ptr, align)
       IN  IF out >= arena_end THEN halt' = "arena" /\ UNCHANGED claimed
           ELSE Take(out, size, "arena") /\ arena_ptr' = out + 1
    /\ UNCHANGED files

(* align # 0: the next bytes of the arena, whoever has claimed them by     *)
(* address.                                                                *)
claim_arena(size, align) ==
    /\ Calling
    /\ LET out == AlignUpTo(arena_ptr, align)
       IN  IF out >= arena_end \/ out + size > arena_end
           THEN halt' = "arena" /\ UNCHANGED claimed
           ELSE Take(out, size, "arena") /\ arena_ptr' = out + size
    /\ UNCHANGED files

(* The list without the pages of a claim, and the claim's bytes.           *)
Without(rs, c) == range_remove(rs, ClaimedPages(c[1], c[2])[1], ClaimedPages(c[1], c[2])[2]).rs
Bytes(c) == <<c[1], c[1] + c[2] - 1>>

(* rom_init: the veneer, the trampoline and the stack below the arena.     *)
rom_init ==
    LET stack == <<arena_start - StackSize, StackSize>>
    IN  /\ halt = "no" /\ claims = <<>>
        /\ avail' = Without(Without(Without(range_add(<<>>, 0, RamSize - 1), Veneer), Trampoline), stack)
        /\ claims' = <<Bytes(Veneer), Bytes(Trampoline), Bytes(stack)>>
        /\ kinds' = <<"rom", "rom", "rom">>
        /\ arena_ptr' = arena_start
        /\ UNCHANGED <<files, halt>>

(* No disk image, no file system on it, no veneer.exe, or a failed read.   *)
rom_init_fails ==
    /\ halt = "no" /\ claims = <<>>
    /\ halt' = "init"
    /\ UNCHANGED <<claimed, files>>

Ready == halt = "no" /\ claims # <<>>

(* rom_memory_getprop of "available": both BUG_ONs of its loop.            *)
getprop_available ==
    /\ Ready
    /\ halt' = IF \A i \in DOMAIN avail : /\ avail[i].base % PAGE_SIZE = 0
                                          /\ (avail[i].limit - avail[i].base + 1) % PAGE_SIZE = 0
               THEN halt ELSE "avail"
    /\ UNCHANGED <<claimed, files>>

(***************************************************************************)
(* Files and the disk.                                                     *)
(***************************************************************************)
(* Bug: a failed open leaves the old answer in place.                      *)
open_file_Leak(found) ==
    /\ Ready
    /\ IF cur_file THEN halt' = "open" /\ UNCHANGED files
       ELSE /\ cur_file' = TRUE
            /\ handles' = IF found THEN handles \cup {"file"} ELSE handles
            /\ UNCHANGED <<disk, sectors, halt>>
    /\ UNCHANGED claimed

(* open of "/fake-storage/disk:1,...": only one file at a time.            *)
open_file(found) ==
    /\ Ready
    /\ IF cur_file THEN halt' = "open" /\ UNCHANGED files
       ELSE /\ cur_file' = found
            /\ handles' = IF found THEN handles \cup {"file"} ELSE handles
            /\ UNCHANGED <<disk, sectors, halt>>
    /\ UNCHANGED claimed

(* open of "/fake-storage/disk:1"; opening it again rewinds it.            *)
open_disk ==
    /\ Ready
    /\ disk_offset' = 0 /\ position' = 0 /\ handles' = handles \cup {"disk"}
    /\ UNCHANGED <<claimed, cur_file, copied, sectors, halt>>

(* A round of guest_disk_read: every round copies count sectors, from the  *)
(* next sector to the next place.                                          *)
CopyRound(buf, sector, count, i) ==
    [o \in DOMAIN buf \cup (i .. i + count - 1) |->
        IF o >= i THEN sector + i + (o - i) ELSE buf[o]]

(* What guest_disk_read has written, counted in sectors from buffer.       *)
guest_disk_read(sector, count) ==
    LET after[k \in 0 .. count] == IF k = 0 THEN <<>> ELSE CopyRound(after[k - 1], sector, count, k - 1)
    IN  after[count]

(* read of the file: the FAT library asks for sectors of its volume;       *)
(* without a file it is a BUG.                                             *)
read_file(sector, count) ==
    /\ Ready /\ "file" \in handles
    /\ sector + count <= DiskSectors
    /\ IF cur_file
       THEN /\ asked' = [sector |-> sector, count |-> count]
            /\ buffer' = guest_disk_read(sector, count)
            /\ UNCHANGED halt
       ELSE halt' = "file" /\ UNCHANGED sectors
    /\ UNCHANGED <<claimed, cur_file, handles, disk>>

(* seek of the file, which reads no sector.                                *)
seek_file ==
    /\ Ready /\ "file" \in handles
    /\ halt' = IF cur_file THEN halt ELSE "file"
    /\ UNCHANGED <<claimed, files>>

close_file ==
    /\ Ready /\ "file" \in handles
    /\ IF cur_file THEN cur_file' = FALSE /\ handles' = handles \ {"file"} /\ UNCHANGED halt
       ELSE halt' = "file" /\ UNCHANGED <<cur_file, handles>>
    /\ UNCHANGED <<claimed, disk, sectors>>

(* What is kept of a number in an int, and in a uint32_t; a position past  *)
(* all 32-bit ones is as good as any other.                                *)
TwoTo32 == 2 * TwoTo31
Signed(x) == IF x % TwoTo32 < TwoTo31 THEN x % TwoTo32 ELSE (x % TwoTo32) - TwoTo32
Place(x) == IF x < TwoTo32 THEN x ELSE TwoTo32

(* Bug: the offset is compared without the length.                         *)
read_disk_NoLen(len) ==
    /\ Ready /\ "disk" \in handles
    /\ IF disk_offset % TwoTo32 <= DiskLen
       THEN /\ copied' = [at |-> position, len |-> len, from |-> disk_offset]
            /\ disk_offset' = Signed(disk_offset + len) /\ position' = Place(position + len)
       ELSE UNCHANGED disk
    /\ UNCHANGED <<claimed, cur_file, handles, sectors, halt>>

(* The sum of the int and the uint32_t length is a uint32_t; the copy      *)
(* starts at the int. A read that passes the end copies nothing and leaves *)
(* the offset.                                                             *)
read_disk(len) ==
    /\ Ready /\ "disk" \in handles
    /\ IF (disk_offset + len) % TwoTo32 <= DiskLen
       THEN /\ copied' = [at |-> position, len |-> len, from |-> disk_offset]
            /\ disk_offset' = Signed(disk_offset + len) /\ position' = Place(position + len)
       ELSE UNCHANGED disk
    /\ UNCHANGED <<claimed, cur_file, handles, sectors, halt>>

(* Any 64-bit offset is taken, one beyond the end too, and cut to an int.  *)
seek_disk(offset) ==
    /\ Ready /\ "disk" \in handles
    /\ disk_offset' = Signed(offset) /\ position' = Place(offset)
    /\ UNCHANGED <<claimed, cur_file, handles, copied, sectors, halt>>

close_disk ==
    /\ Ready /\ "disk" \in handles
    /\ disk_offset' = 0 /\ position' = 0 /\ handles' = handles \ {"disk"}
    /\ UNCHANGED <<claimed, cur_file, copied, sectors, halt>>

Halted == halt # "no" /\ UNCHANGED vars

Init ==
    /\ avail = <<>> /\ arena_ptr = 0 /\ cur_file = FALSE /\ disk_offset = 0 /\ position = 0
    /\ handles = {} /\ copied = [at |-> 0, len |-> 0, from |-> 0]
    /\ asked = [sector |-> 0, count |-> 0] /\ buffer = <<>>
    /\ claims = <<>> /\ kinds = <<>> /\ halt = "no"

Claim ==
    \/ \E c \in FixedClaims : claim_fixed(c[1], c[2])
    \/ \E c \in ArenaClaims : claim_arena(c[1], c[2])

Next ==
    \/ rom_init \/ rom_init_fails \/ Claim \/ getprop_available
    \/ \E found \in BOOLEAN : open_file(found)
    \/ open_disk \/ seek_file \/ close_file \/ close_disk
    \/ \E s \in 0 .. DiskSectors - 1, n \in 1 .. MaxSectors : read_file(s, n)
    \/ \E n \in Offsets : read_disk(n % TwoTo32) \/ seek_disk(n)
    \/ Halted

Spec == Init /\ [][Next]_vars

-----------------------------------------------------------------------------
Span(c) == c[1] .. c[2]

(* Every variable has its type; the arena pointer stays in the arena.      *)
TypeOK ==
    /\ arena_ptr \in {0} \cup (arena_start .. arena_end)
    /\ cur_file \in BOOLEAN /\ handles \subseteq {"file", "disk"}
    /\ disk_offset \in -TwoTo31 .. TwoTo31 - 1 /\ position \in 0 .. TwoTo32
    /\ Len(kinds) = Len(claims)
    /\ halt \in {"no", "init", "range", "arena", "avail", "open", "file"}

(* The available ranges stay sorted and disjoint, and reading the property *)
(* meets neither of rom_memory_getprop's BUG_ONs about ranges that are not *)
(* whole pages, after claims of any size and alignment.                    *)
AvailableWellFormed ==
    /\ TypeOK
    /\ Ordered(avail)
    /\ halt # "avail"

(* No byte that was claimed is still offered as available.                 *)
ClaimedNotAvailable == \A i \in DOMAIN claims : Span(claims[i]) \cap Covered(avail) = {}

(* A claim of the second kind may get bytes of an earlier one of the       *)
(* first: the guest names an address that is not available, or the arena   *)
(* passes a claim that was made by address.                                *)
MayShare(earlier, later) ==
    later = "taken" \/ (later = "arena" /\ earlier \in {"free", "taken"})

(* No other byte is claimed twice: the arena never gives out what it or    *)
(* rom_init gave out, and an address that "available" offers is nobody's,  *)
(* in the arena too, after any claims of any kind.                         *)
ClaimsDisjoint ==
    \A i, j \in DOMAIN claims :
        i < j /\ ~MayShare(kinds[i], kinds[j]) => Span(claims[i]) \cap Span(claims[j]) = {}

(* A guest that closes what it opened and reads what it opened meets none  *)
(* of the BUGs about files: cur_file is set exactly while it holds the     *)
(* handle, failed opens included.                                          *)
FileAgrees == (cur_file <=> "file" \in handles) /\ halt # "file"

(* A read of the disk that starts below 2 GB and ends below 4 GB, after    *)
(* any seeks (beyond the end of the disk and of 32 bits too), reads,       *)
(* closes and reopens, copies what the guest asked for and nothing but the *)
(* disk. A read of the file, whatever the rounds of guest_disk_read        *)
(* overwrite, leaves in each place of the caller's buffer the sector that  *)
(* belongs there.                                                          *)
ReadsRight ==
    /\ copied.at < TwoTo31 /\ copied.at + copied.len < TwoTo32 =>
           copied.from = copied.at /\ copied.at + copied.len <= DiskLen
    /\ \A i \in 0 .. asked.count - 1 : i \in DOMAIN buffer /\ buffer[i] = asked.sector + i

(* fat/Media Access API.txt describes buffer as the target for n sectors:  *)
(* guest_disk_read writes no more than the sectors it was asked for.       *)
BufferKept == DOMAIN buffer \subseteq 0 .. asked.count - 1
=============================================================================
