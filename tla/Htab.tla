-------------------------------- MODULE Htab --------------------------------
(***************************************************************************)
(* The page side of the MMU: the hashed page table that mmu_map and        *)
(* mmu_unmap of mmu.c edit entry by entry while the hardware walks it and  *)
(* caches what it finds, and the callers: mmu_init, guest_init, the        *)
(* storage faults of exc_handler and the "map" method of rom_call.         *)
(*                                                                         *)
(* Addresses are counted in 4K pages and all sizes are scaled down; the    *)
(* ratios that the encodings rely on are kept as assumptions.              *)
(***************************************************************************)
EXTENDS Integers, FiniteSets, SequencesExt

CONSTANTS
    LARGE,          \* 4K pages in a 16M page
    DROP,           \* 4K pages that one AVPN covers (23 bits of address)
    SEG,            \* 4K pages in a 256MB segment
    TERA,           \* 4K pages in a 1TB segment
    HASHES,         \* hash values: 2^39
    VSID_STEP,      \* what a VSID counts for at the top of the hash: 2^25
    PTEGS,          \* groups of the table
    PTES_PER_GROUP,
    TLB_SIZE,       \* entries the TLB holds
    HV_VSID, AIL_VSID, GRM_VSID,
    SEGMENTS,       \* segments of the guest's 32-bit addresses
    HtabPages, ImagePages,  \* <<start, end>> of the table and of the program
    AilPages,       \* <<start, end>> of the AIL vectors in their segment
    RamStart,       \* guest->ram
    RamSize,        \* guest->ram_size
    HvEnd,          \* end of real memory
    ClientMaps,     \* what the guest asks "map" for
    MixedMaps,      \* <<virt, phys>> of 16M pages in the guest's 4K segments
    Unmaps          \* <<space, page>> of the addresses that are unmapped

(* A power of two has no odd divisor but 1.                                *)
PowerOf2(n) == n \in Nat \ {0} /\ \A d \in 2 .. n : n % d = 0 => d % 2 = 0

ASSUME HtabAssumption ==
    /\ DROP \in Nat \ {0} /\ LARGE = 2 * DROP       \* 2^23 and 2^24
    /\ SEG \in Nat \ {0} /\ TERA \in Nat \ {0}
    /\ SEG % LARGE = 0 /\ TERA % LARGE = 0
    /\ PowerOf2(PTEGS) /\ PowerOf2(HASHES) /\ HASHES % PTEGS = 0
    /\ TLB_SIZE \in Nat \ {0}

(* mmu_init is called for 4GB, which makes 2^19 groups: enough for all     *)
(* pages of a segment, 2^16 in either size, and few enough that no hash    *)
(* reaches the bits of vsid << 25.                                         *)
ASSUME GroupAssumption ==
    /\ SEG <= PTEGS /\ TERA <= PTEGS * LARGE
    /\ VSID_STEP \in Nat /\ VSID_STEP % PTEGS = 0
    /\ SEGMENTS \in Nat \ {0} /\ PTES_PER_GROUP \in Nat \ {0}

(* "HV/AIL VSIDs need to be large enough not to collide with guest VSIDs": *)
(* as virtual addresses, and the segments of 1TB and of 256MB with each    *)
(* other as well, since avpn_encode gives an address of either the same    *)
(* number. AIL_VSID begins with the digits of HV_VSID, so that holds for   *)
(* the addresses of up to 78GB of memory.                                  *)
ASSUME VsidAssumption ==
    /\ HV_VSID \in Nat /\ GRM_VSID \in Nat /\ AIL_VSID \in Nat
    /\ HV_VSID # GRM_VSID /\ AIL_VSID >= SEGMENTS
    /\ HvEnd \in Nat /\ HvEnd % LARGE = 0 /\ HvEnd <= TERA
    /\ SEGMENTS * SEG <= HV_VSID * TERA /\ SEGMENTS * SEG <= GRM_VSID * TERA
    /\ (AIL_VSID + 1) * SEG <= HV_VSID * TERA \/ HV_VSID * TERA + HvEnd <= AIL_VSID * SEG
    /\ (AIL_VSID + 1) * SEG <= GRM_VSID * TERA \/ (GRM_VSID + 1) * TERA <= AIL_VSID * SEG

LargeDown(p) == p - (p % LARGE)
LargeUp(p) == LargeDown(p + LARGE - 1)

(* mmu_init does not check that no 16M page holds both the table, which    *)
(* comes from the start of free memory, and the program.                   *)
ASSUME PlaceAssumption ==
    /\ HtabPages \in Nat \X Nat /\ ImagePages \in Nat \X Nat
    /\ HtabPages[1] < HtabPages[2] /\ HtabPages[2] <= HvEnd
    /\ ImagePages[1] < ImagePages[2] /\ ImagePages[2] <= HvEnd
    /\ \/ LargeUp(HtabPages[2]) <= LargeDown(ImagePages[1])
       \/ LargeUp(ImagePages[2]) <= LargeDown(HtabPages[1])
    /\ AilPages \in Nat \X Nat /\ AilPages[1] <= AilPages[2] /\ AilPages[2] <= SEG
    /\ RamStart \in Nat /\ RamStart % LARGE = 0
    /\ RamSize \in Nat /\ RamSize % LARGE = 0 /\ RamSize <= SEGMENTS * SEG /\ RamSize <= TERA

VmPages == 0 .. SEGMENTS * SEG - 1

(* What the guest and other callers ask for.                               *)
ASSUME CallerAssumption ==
    /\ ClientMaps \subseteq [virt : VmPages, phys : Nat, size : Nat, cut : SUBSET {"virt", "phys"}]
    /\ MixedMaps \subseteq VmPages \X Nat
    /\ \A m \in MixedMaps : m[1] % LARGE = 0 /\ m[2] % LARGE = 0
    /\ Unmaps \subseteq ({"vm"} \X VmPages) \cup ({"hv"} \X (0 .. HvEnd - 1)) \cup ({"ail"} \X (0 .. SEG - 1))

Units(page) == IF page = "16M" THEN LARGE ELSE 1
SegPages(b) == IF b = "1T" THEN TERA ELSE SEG

VARIABLES
    htab,       \* the table: PTEGS groups of PTES_PER_GROUP entries
    tlb,        \* what the hardware has cached
    off,        \* guest_is_mmu_off()
    script,     \* mmu_map calls that mmu_map_range and boot still have to make
    call,       \* the mmu_map or mmu_unmap in progress
    wanted,     \* mappings that calls have asked for and not taken back
    halt,       \* "no", or the BUG that stopped the machine
    misused     \* whether a "map" was not aligned, not on, or for a mapped page

vars == <<htab, tlb, off, script, call, wanted, halt, misused>>

NoCall == [op |-> "none"]
NoPte == [v |-> FALSE, b |-> "256M", avpn |-> 0, l |-> FALSE, lp |-> "4K", ra |-> 0]

(***************************************************************************)
(* Effective to virtual addresses.                                         *)
(***************************************************************************)
Ea(space, page) == [space |-> space, page |-> page]

ea_2_seg_size(ea) ==
    IF ea.space = "hv" \/ (ea.space = "vm" /\ off) THEN "1T" ELSE "256M"

ea_2_base_size(ea) ==
    IF ea.space = "hv" \/ (ea.space = "vm" /\ off) THEN "16M" ELSE "4K"

(* guest->sr[i] is i, and the segment number in ea's high bits is or-ed to *)
(* it.                                                                     *)
ea_2_vpn(ea) ==
    CASE ea.space = "ail" -> AIL_VSID * SEG + ea.page
      [] ea.space = "hv" -> HV_VSID * TERA + ea.page
      [] OTHER -> IF off THEN GRM_VSID * TERA + ea.page ELSE ea.page

(* The exclusive or of x and y, of which n hash values keep the low bits.  *)
xor[n \in 1 .. HASHES] ==
    [x \in Nat |-> [y \in Nat |->
        IF n = 1 THEN 0 ELSE 2 * xor[n \div 2][x \div 2][y \div 2] + ((x + y) % 2)]]

Xor(x, y) == xor[HASHES][x][y]

(* Bug: the offset is counted in small pages whatever the base is.         *)
vpn_hash_Small(vpn, b, base) ==
    LET vsid == vpn \div SegPages(b) IN Xor(Xor(vsid, vsid * VSID_STEP), vpn % SegPages(b))

vpn_hash(vpn, b, base) ==
    LET vsid == vpn \div SegPages(b)
    IN  Xor(Xor(vsid, vsid * VSID_STEP), (vpn % SegPages(b)) \div Units(base))

Pteg(vpn, b, base) == vpn_hash(vpn, b, base) % PTEGS

(* Bug: one bit too many is left out.                                      *)
avpn_encode_Bit(vpn, base) == vpn \div LARGE

avpn_encode(vpn, base) ==
    LET v == vpn \div DROP IN IF base = "16M" THEN v - (v % 2) ELSE v

(* The LP field: the base size, which means something for large pages.     *)
rpn_encode(base, actual) == IF actual = "16M" THEN base ELSE "4K"

(***************************************************************************)
(* The hardware's search, as the Power ISA defines it: the primary group   *)
(* of the address, and in it the valid entries with the segment size, base *)
(* page size and abbreviated virtual page number of the address. Only the  *)
(* hash of 1TB segments has the VSID twice.                                *)
(***************************************************************************)
HwGroup(vpn, b, base) ==
    LET page == (vpn % SegPages(b)) \div Units(base)
        vsid == vpn \div SegPages(b)
    IN  Xor(IF b = "1T" THEN Xor(vsid, vsid * VSID_STEP) ELSE vsid, page) % PTEGS

HwMatch(pte, vpn, b, base) ==
    /\ pte.v /\ pte.b = b
    /\ base = IF pte.l THEN pte.lp ELSE "4K"
    /\ IF base = "16M" THEN pte.avpn \div 2 = vpn \div LARGE ELSE pte.avpn = vpn \div DROP

(* The translation that an entry gives for the page vpn.                   *)
HwEntry(pte, vpn, b, base) ==
    LET actual == IF pte.l THEN "16M" ELSE "4K"
    IN  [b |-> b, base |-> base, vpn |-> vpn - (vpn % Units(actual)), actual |-> actual, ra |-> pte.ra]

Walk(vpn, b, base) ==
    {HwEntry(pte, vpn, b, base) :
        pte \in {p \in ToSet(htab[HwGroup(vpn, b, base)]) : HwMatch(p, vpn, b, base)}}

WalkEa(ea) == Walk(ea_2_vpn(ea), ea_2_seg_size(ea), ea_2_base_size(ea))

EAs == {Ea("vm", p) : p \in VmPages} \cup {Ea("hv", p) : p \in 0 .. HvEnd - 1}
       \cup {Ea("ail", p) : p \in AilPages[1] .. AilPages[2] - 1}

(* The TLB takes what a walk finds, speculatively too; when it is full it  *)
(* drops an entry.                                                         *)
TlbFill(ea) ==
    /\ halt = "no"
    /\ \E e \in WalkEa(ea) \ tlb :
        \/ Cardinality(tlb) < TLB_SIZE /\ tlb' = tlb \cup {e}
        \/ Cardinality(tlb) = TLB_SIZE /\ \E old \in tlb : tlb' = (tlb \ {old}) \cup {e}
    /\ UNCHANGED <<htab, off, script, call, wanted, halt, misused>>

-----------------------------------------------------------------------------
(***************************************************************************)
(* mmu_map.                                                                *)
(***************************************************************************)
Call(op, ea, ra, actual) ==
    [op |-> op, stage |-> "next", b |-> ea_2_seg_size(ea), base |-> ea_2_base_size(ea), actual |-> actual,
     vpn |-> ea_2_vpn(ea), ra |-> ra, left |-> Units(actual), slot |-> 0]

Mapping(c, vpn) ==
    [b |-> c.b, base |-> c.base, vpn |-> vpn - (vpn % Units(c.actual)), actual |-> c.actual, ra |-> c.ra]

(* The checks that mmu_map, mmu_unmap and their workers make first.        *)
CallBug(c, ea) ==
    \/ ea.page % Units(c.actual) # 0
    \/ c.ra % Units(c.actual) # 0
    \/ Units(c.actual) < Units(c.base)

mmu_map(ea, ra, actual) ==
    LET c == Call("map", ea, ra, actual)
    IN  IF CallBug(c, ea)
        THEN halt' = "args" /\ UNCHANGED <<call, wanted>>
        ELSE call' = c /\ wanted' = wanted \cup {Mapping(c, c.vpn)} /\ UNCHANGED halt

Group == Pteg(call.vpn, call.b, call.base)
Free(g) == {i \in 1 .. PTES_PER_GROUP : ~htab[g][i].v}

(* One round of mmu_map_vpn: the first free entry of the group gets its    *)
(* second half, which the hardware does not look at yet.                   *)
MapR ==
    /\ halt = "no" /\ call.op = "map" /\ call.stage = "next" /\ call.left # 0
    /\ IF Free(Group) = {}
       THEN halt' = "spill" /\ UNCHANGED <<htab, call>>
       ELSE LET i == CHOOSE n \in Free(Group) : \A m \in Free(Group) : n <= m
            IN  /\ htab' = [htab EXCEPT ![Group][i].ra = call.ra,
                                        ![Group][i].lp = rpn_encode(call.base, call.actual)]
                /\ call' = [call EXCEPT !.stage = "v", !.slot = i]
                /\ UNCHANGED halt
    /\ UNCHANGED <<tlb, off, script, wanted, misused>>

NextUnit == [call EXCEPT !.stage = "next", !.left = @ - Units(call.base), !.vpn = @ + Units(call.base)]

(* ... and then the half that makes it valid.                              *)
MapV ==
    /\ halt = "no" /\ call.op = "map" /\ call.stage = "v"
    /\ htab' = [htab EXCEPT ![Group][call.slot] =
                  [v |-> TRUE, b |-> call.b, avpn |-> avpn_encode(call.vpn, call.base),
                   l |-> call.actual # "4K", lp |-> @.lp, ra |-> @.ra]]
    /\ call' = NextUnit
    /\ UNCHANGED <<tlb, off, script, wanted, halt, misused>>

(***************************************************************************)
(* mmu_unmap.                                                              *)
(***************************************************************************)
(* PTE_V_COMPARE leaves out the segment size.                              *)
Found(g) ==
    {i \in 1 .. PTES_PER_GROUP :
        htab[g][i].v /\ htab[g][i].avpn = avpn_encode(call.vpn, call.base)}

(* One round of mmu_unmap_vpn: the entry is made invalid ...               *)
UnmapV ==
    /\ halt = "no" /\ call.op = "unmap" /\ call.stage = "next" /\ call.left # 0
    /\ IF Found(Group) = {}
       THEN halt' = "not_mapped" /\ UNCHANGED <<htab, call>>
       ELSE LET i == CHOOSE n \in Found(Group) : \A m \in Found(Group) : n <= m
            IN  /\ htab' = [htab EXCEPT ![Group][i].v = FALSE]
                /\ call' = [call EXCEPT !.stage = "tlbie"]
                /\ UNCHANGED halt
    /\ UNCHANGED <<tlb, off, script, wanted, misused>>

(* Bug: the page number is not aligned to the page that is invalidated.    *)
Tlbie_Unaligned ==
    /\ halt = "no" /\ call.op = "unmap" /\ call.stage = "tlbie"
    /\ tlb' = {e \in tlb : ~(e.b = call.b /\ e.base = call.base /\ e.actual = call.base /\ e.vpn = call.vpn)}
    /\ call' = NextUnit
    /\ UNCHANGED <<htab, off, script, wanted, halt, misused>>

(* ... and the TLB drops the page it belongs to.                           *)
Tlbie ==
    /\ halt = "no" /\ call.op = "unmap" /\ call.stage = "tlbie"
    /\ tlb' = {e \in tlb : ~(/\ e.b = call.b /\ e.base = call.base /\ e.actual = call.actual
                             /\ e.vpn = call.vpn - (call.vpn % Units(call.actual)))}
    /\ call' = NextUnit
    /\ UNCHANGED <<htab, off, script, wanted, halt, misused>>

Return ==
    /\ halt = "no" /\ call.op # "none" /\ call.stage = "next" /\ call.left = 0
    /\ call' = NoCall
    /\ wanted' = IF call.op = "unmap" THEN wanted \ {Mapping(call, call.vpn - 1)} ELSE wanted
    /\ UNCHANGED <<htab, tlb, off, script, halt, misused>>

(* A page that is mapped, with the size it was mapped with. Nothing in the *)
(* program calls mmu_unmap, or maps 16M pages where the base page is 4K,   *)
(* which the loops of both functions are for.                              *)
mmu_unmap(ea) ==
    /\ halt = "no" /\ script = <<>> /\ call.op = "none"
    /\ \E m \in WalkEa(ea) :
        LET c == Call("unmap", ea, m.ra, m.actual)
        IN  ~CallBug(c, ea) /\ call' = c
    /\ UNCHANGED <<htab, tlb, off, script, wanted, halt, misused>>

(***************************************************************************)
(* The callers.                                                            *)
(***************************************************************************)
mmu_map_range(space, start, end, ra, actual) ==
    [i \in 1 .. (end - start) \div Units(actual) |->
        [do |-> "map", ea |-> Ea(space, start + (i - 1) * Units(actual)),
         ra |-> ra + (i - 1) * Units(actual), actual |-> actual]]

mmu_init ==
    mmu_map_range("hv", LargeDown(HtabPages[1]), LargeUp(HtabPages[2]), LargeDown(HtabPages[1]), "16M")
    \o mmu_map_range("hv", LargeDown(ImagePages[1]), LargeUp(ImagePages[2]), LargeDown(ImagePages[1]), "16M")
    \o mmu_map_range("ail", AilPages[1], AilPages[2], 0, "4K")

(* Bug: translation is not turned on between the two mappings.             *)
guest_init_NoMsr ==
    mmu_map_range("vm", 0, RamSize, RamStart, "16M") \o mmu_map_range("vm", 0, RamSize, RamStart, "4K")

guest_init ==
    mmu_map_range("vm", 0, RamSize, RamStart, "16M")
    \o <<[do |-> "mmu_on"]>>
    \o mmu_map_range("vm", 0, RamSize, RamStart, "4K")

(* The next call of boot or of mmu_map_range.                              *)
Begin ==
    /\ halt = "no" /\ script # <<>> /\ call.op = "none"
    /\ script' = Tail(script)
    /\ LET s == Head(script)
       IN  IF s.do = "mmu_on" THEN off' = FALSE /\ UNCHANGED <<call, wanted, halt>>
           ELSE mmu_map(s.ea, s.ra, s.actual) /\ UNCHANGED off
    /\ UNCHANGED <<htab, tlb, misused>>

Idle == halt = "no" /\ script = <<>> /\ call.op = "none"

(* exc_handler: a data or instruction storage fault on a hypervisor        *)
(* address that is not mapped maps the 16M page around it.                 *)
HvFault(p) ==
    /\ Idle /\ WalkEa(Ea("hv", p)) = {}
    /\ mmu_map(Ea("hv", LargeDown(p)), LargeDown(p), "16M")
    /\ UNCHANGED <<htab, tlb, off, script, misused>>

(* "map" by the guest: the end of the range wraps in 32 bits, and cut says *)
(* which address is not that of a page. Addresses that are the same need   *)
(* nothing; a range that is empty gets nothing.                            *)
rom_call_map(virt, phys, size, cut) ==
    /\ Idle
    /\ LET range == mmu_map_range("vm", virt, (virt + size) % (SEGMENTS * SEG), RamStart + phys, "4K")
           same == virt = phys /\ cut # {"virt"} /\ cut # {"phys"}
           bug == ~same /\ ("virt" \in cut \/ ("phys" \in cut /\ range # <<>>))
           again == \E i \in DOMAIN range : off \/ WalkEa(range[i].ea) # {}
       IN  /\ script' = IF same \/ bug THEN <<>> ELSE range
           /\ halt' = IF bug THEN "args" ELSE halt
           /\ misused' = (misused \/ bug \/ (~same /\ again))
    /\ UNCHANGED <<htab, tlb, off, call, wanted>>

MapMixed(virt, phys) ==
    /\ Idle /\ ~off
    /\ \A p \in virt .. virt + LARGE - 1 : WalkEa(Ea("vm", p)) = {}
    /\ mmu_map(Ea("vm", virt), RamStart + phys, "16M")
    /\ UNCHANGED <<htab, tlb, off, script, misused>>

(* guest_update_msr: translations of the other mode stay where they are.   *)
guest_update_msr ==
    /\ Idle
    /\ off' = ~off
    /\ UNCHANGED <<htab, tlb, script, call, wanted, halt, misused>>

Init ==
    /\ htab = [g \in 0 .. PTEGS - 1 |-> [i \in 1 .. PTES_PER_GROUP |-> NoPte]]
    /\ tlb = {} /\ off = TRUE /\ script = mmu_init \o guest_init
    /\ call = NoCall /\ wanted = {} /\ halt = "no" /\ misused = FALSE

(* After a BUG.                                                            *)
Hung == halt # "no" /\ UNCHANGED vars

Edit == Begin \/ MapR \/ MapV \/ UnmapV \/ Tlbie \/ Return

Next ==
    \/ Edit
    \/ \E ea \in EAs : TlbFill(ea)
    \/ \E u \in Unmaps : mmu_unmap(Ea(u[1], u[2]))
    \/ \E m \in MixedMaps : MapMixed(m[1], m[2])
    \/ \E p \in 0 .. HvEnd - 1 : HvFault(p)
    \/ \E m \in ClientMaps : rom_call_map(m.virt, m.phys, m.size, m.cut)
    \/ guest_update_msr
    \/ Hung

Spec == Init /\ [][Next]_vars

-----------------------------------------------------------------------------
Pages == {"4K", "16M"}
Mappings == [b : {"256M", "1T"}, base : Pages, vpn : Nat, actual : Pages, ra : Nat]

(* Every variable has its type; the loops over the parts of a large page   *)
(* never count below zero, where the code would not stop.                  *)
TypeOK ==
    /\ \A g \in DOMAIN htab : \A i \in DOMAIN htab[g] :
        htab[g][i].v \in BOOLEAN /\ htab[g][i].lp \in Pages /\ htab[g][i].avpn \in Nat
    /\ tlb \subseteq Mappings /\ Cardinality(tlb) <= TLB_SIZE
    /\ wanted \subseteq Mappings
    /\ call.op # "none" => call.left \in 0 .. LARGE /\ call.slot \in 0 .. PTES_PER_GROUP
    /\ off \in BOOLEAN /\ misused \in BOOLEAN /\ halt \in {"no", "args", "spill", "not_mapped"}

Covers(m, vpn, b, base) ==
    m.b = b /\ m.base = base /\ m.vpn = vpn - (vpn % Units(m.actual))

(* Between calls the hardware finds for every page of every address space  *)
(* exactly the mapping that was asked for, and nothing for the others: no  *)
(* two pages are confused by the bits that the hash and the abbreviated    *)
(* page number leave out. (A page that is mapped again has two entries.)   *)
TranslationCorrect ==
    call.op = "none" /\ halt = "no" /\ ~misused =>
        \A ea \in EAs :
            WalkEa(ea) = {m \in wanted : Covers(m, ea_2_vpn(ea), ea_2_seg_size(ea), ea_2_base_size(ea))}

(* Whatever the hardware has cached, at any instant of an update, is a     *)
(* mapping that was asked for; once mmu_unmap returns it is gone.          *)
TlbCoherent == ~misused => tlb \subseteq wanted

SegmentsUsed == {<<m.b, m.vpn \div SegPages(m.b)>> : m \in wanted}

(* Pages of one segment never compete for a group.                         *)
OnePerSegment ==
    ~misused => \A g \in DOMAIN htab : \A i, j \in 1 .. PTES_PER_GROUP :
        LET p == htab[g][i]
            q == htab[g][j]
        IN  i # j /\ p.v /\ q.v /\ p.b = q.b =>
                (p.avpn * DROP) \div SegPages(p.b) # (q.avpn * DROP) \div SegPages(q.b)

(* Boot, faults, mode switches and each "map" of new pages with the MMU on *)
(* run into one BUG of mmu.c only: the table spills, which it never does   *)
(* before more segments have mappings than a group has entries.            *)
NoBug ==
    ~misused =>
        /\ TypeOK
        /\ \/ halt = "no"
           \/ halt = "spill" /\ Cardinality(SegmentsUsed) > PTES_PER_GROUP
=============================================================================
