------------------------------ MODULE GuestMmu ------------------------------
(***************************************************************************)
(* The segment side of the shadow MMU: the SLB of the one CPU, the guest's *)
(* MSR[IR,DR] and the code that keeps them in step: slb_init,              *)
(* mmu_guest_update and mmu_guest_fault_seg of mmu.c, guest_init,          *)
(* guest_update_msr and guest_exc_try of guest.c, and the part of          *)
(* exc_handler that decides between resuming and hanging.                  *)
(*                                                                         *)
(* An effective address is abstracted to the 256MB segment it lies in.     *)
(* 0 .. SR_COUNT-1 are the guest's segments, one per segment register and  *)
(* all of them in one terabyte; HV_ASPACE and AIL_ASPACE stand for the     *)
(* hypervisor's terabyte and for the segment of the exception vectors.     *)
(* Virtual segment ids are abstracted to distinct numbers.                 *)
(***************************************************************************)
EXTENDS Integers

CONSTANTS
    SR_COUNT,       \* segment registers of the guest (16)
    SLB_SIZE,       \* entries of the SLB (32)
    StaleEntries    \* what firmware may have left in the SLB

Segs == 0 .. SR_COUNT - 1
LAYOUT_VM_START == 0
HV_ASPACE == SR_COUNT
AIL_ASPACE == SR_COUNT + 1
EAs == 0 .. SR_COUNT + 1

HV_VSID == SR_COUNT
AIL_VSID == SR_COUNT + 1
GRM_VSID == SR_COUNT + 2
VSIDs == 0 .. SR_COUNT + 2

HV_SLOT == 0
AIL_SLOT == 1
GRM_SLOT == 2
SR_INDEX_TO_SLB_SLOT(i) == i + 3
Slots == 0 .. SLB_SIZE - 1

SegSizes == {"256M", "1T"}
PageSizes == {"4K", "16M"}

(* ea & ESID_MASK_1T, ea & ESID_MASK_256MB: the segment at whose start the *)
(* segment of the given size that holds ea begins.                         *)
EsidOf(ea, size) == IF size = "1T" /\ ea \in Segs THEN LAYOUT_VM_START ELSE ea

SlbEntries == [v : {TRUE}, esid : EAs, b : SegSizes, vsid : VSIDs, base : PageSizes]
Invalid == [v |-> FALSE, esid |-> 0, b |-> "256M", vsid |-> 0, base |-> "4K"]

(* What slb_make_esid and slb_make_vsid encode.                            *)
SlbEntry(ea, size, vsid, base) ==
    [v |-> TRUE, esid |-> EsidOf(ea, size), b |-> size, vsid |-> vsid, base |-> base]

ASSUME SrCountAssumption == SR_COUNT \in Nat \ {0}
ASSUME SlbSizeAssumption == SLB_SIZE \in Nat /\ SLB_SIZE >= SR_COUNT + 3
ASSUME StaleAssumption == StaleEntries \subseteq SlbEntries

VARIABLES
    cpu,    \* where the CPU is
    back,   \* where it continues after mmu_guest_update or a segment fault
    k,      \* loop index of mmu_guest_update
    ea,     \* DAR or hsrr0 of the segment fault being handled
    msr,    \* guest->msr, the two translation bits
    srr1,   \* guest->srr1, the two translation bits
    slb,    \* the SLB
    why     \* what stopped the CPU for good

vars == <<cpu, back, k, ea, msr, srr1, slb, why>>

(* Contexts that touch guest effective addresses and survive a segment     *)
(* fault on them: rom_init while it loads the veneer, the guest itself,    *)
(* and rom_call, which runs with MSR[RI] set for that reason.              *)
Contexts == {"rom_init", "guest", "rom_call"}
Points == Contexts \cup {"reset", "mmu_ready", "slbie_sr", "slbmte_grm",
                         "slbie_grm", "map_grm", "map_vm", "seg", "halt"}
Reasons == {"none", "ir_dr", "seg_present", "seg_mmu_off", "map_size",
            "mtspr", "inject", "exit"}
Msrs == [ir : BOOLEAN, dr : BOOLEAN]
IrDr(on) == [ir |-> on, dr |-> on]

(* guest_is_mmu_off of a consistent MSR; an inconsistent one is a BUG.     *)
Consistent(m) == m.ir = m.dr
guest_is_mmu_off(m) == ~m.ir

(***************************************************************************)
(* The SLB instructions, as the Power ISA defines them where the program   *)
(* relies on it.                                                           *)
(***************************************************************************)
Hit(s, e) == slb[s].v /\ slb[s].esid = EsidOf(e, slb[s].b)
Hits(e) == {s \in Slots : Hit(s, e)}

slbia == [s \in Slots |-> IF s = 0 THEN slb[s] ELSE Invalid]
slbmte(table, slot, entry) == [table EXCEPT ![slot] = entry]

(* slbie drops the entry with the ESID and the size that RB names.         *)
slb_invalidate(e, size) ==
    [s \in Slots |-> IF slb[s].v /\ slb[s].b = size /\ slb[s].esid = EsidOf(e, size)
                     THEN Invalid ELSE slb[s]]

HvEntry == SlbEntry(HV_ASPACE, "1T", HV_VSID, "16M")
AilEntry == SlbEntry(AIL_ASPACE, "256M", AIL_VSID, "4K")
GrmEntry == SlbEntry(LAYOUT_VM_START, "1T", GRM_VSID, "16M")
Sr(i) == i                    \* guest->sr[i]: no code writes it after guest_init
SrEntry(i) == SlbEntry(i, "256M", Sr(i), "4K")

(***************************************************************************)
(* The software's own idea of how an address is translated, from which     *)
(* mmu_map picks the PTEG, must agree with the SLB.                        *)
(***************************************************************************)
ea_2_seg_size(e) ==
    CASE e = AIL_ASPACE -> "256M"
      [] e = HV_ASPACE -> "1T"
      [] OTHER -> IF guest_is_mmu_off(msr) THEN "1T" ELSE "256M"

ea_2_base_size(e) ==
    CASE e = AIL_ASPACE -> "4K"
      [] e = HV_ASPACE -> "16M"
      [] OTHER -> IF guest_is_mmu_off(msr) THEN "16M" ELSE "4K"

(* The VSID part of ea_2_vpn. The segment number that ea leaves in the low *)
(* bits of the VSID is or-ed to the segment register, which holds the same *)
(* number.                                                                 *)
ea_2_vsid(e) ==
    CASE e = AIL_ASPACE -> AIL_VSID
      [] e = HV_ASPACE -> HV_VSID
      [] OTHER -> IF guest_is_mmu_off(msr) THEN GRM_VSID ELSE Sr(e)

Halt(reason) == cpu' = "halt" /\ why' = reason

(***************************************************************************)
(* Boot.                                                                   *)
(***************************************************************************)
(* Bug: the entries firmware left behind survive.                          *)
slb_init_NoSlbia ==
    /\ cpu = "reset"
    /\ slb' = slbmte(slbmte(slb, HV_SLOT, HvEntry), AIL_SLOT, AilEntry)
    /\ cpu' = "mmu_ready"
    /\ UNCHANGED <<back, k, ea, msr, srr1, why>>

slb_init ==
    /\ cpu = "reset"
    /\ slb' = slbmte(slbmte(slbia, HV_SLOT, HvEntry), AIL_SLOT, AilEntry)
    /\ cpu' = "mmu_ready"
    /\ UNCHANGED <<back, k, ea, msr, srr1, why>>

(* mmu_guest_update(turning_on), entered from a caller that goes on at     *)
(* cont. The slbie loop and the final slbmte are steps of their own.       *)
mmu_guest_update(turning_on, cont) ==
    /\ back' = cont
    /\ k' = 0
    /\ cpu' = IF turning_on THEN "slbie_grm" ELSE "slbie_sr"
    /\ UNCHANGED <<ea, srr1, slb, why>>

(* Bug: the old state is read after the assignment, so it never differs.   *)
guest_update_msr_LateWas(new, cont) ==
    /\ msr' = new
    /\ IF Consistent(new) THEN cpu' = cont /\ UNCHANGED why ELSE Halt("ir_dr")
    /\ UNCHANGED <<back, k, ea, srr1, slb>>

(* Bug: the SLB is updated on every MSR write, changed or not.             *)
guest_update_msr_Always(new, cont) ==
    /\ msr' = new
    /\ \/ /\ ~Consistent(new)
          /\ Halt("ir_dr")
          /\ UNCHANGED <<back, k, ea, srr1, slb>>
       \/ /\ Consistent(new)
          /\ mmu_guest_update(~guest_is_mmu_off(new), cont)

guest_update_msr(new, cont) ==
    /\ msr' = new
    /\ \/ /\ ~Consistent(new)
          /\ Halt("ir_dr")
          /\ UNCHANGED <<back, k, ea, srr1, slb>>
       \/ /\ Consistent(new)
          /\ guest_is_mmu_off(msr) # guest_is_mmu_off(new)
          /\ mmu_guest_update(~guest_is_mmu_off(new), cont)
       \/ /\ Consistent(new)
          /\ guest_is_mmu_off(msr) = guest_is_mmu_off(new)
          /\ cpu' = cont
          /\ UNCHANGED <<back, k, ea, srr1, slb, why>>

(* guest_init up to its first mapping.                                     *)
guest_init ==
    /\ cpu = "mmu_ready"
    /\ msr' = IrDr(FALSE)
    /\ mmu_guest_update(FALSE, "map_grm")

(* mmu_map_range over guest addresses: mmu_map_vpn refuses an actual page  *)
(* smaller than the base page of the segment.                              *)
MapFits(e, actual) == ~(actual = "4K" /\ ea_2_base_size(e) = "16M")

guest_init_map_grm ==
    /\ cpu = "map_grm"
    /\ IF MapFits(LAYOUT_VM_START, "16M")
       THEN guest_update_msr(IrDr(TRUE), "map_vm")
       ELSE Halt("map_size") /\ UNCHANGED <<back, k, ea, msr, srr1, slb>>

guest_init_map_vm ==
    /\ cpu = "map_vm"
    /\ IF MapFits(LAYOUT_VM_START, "4K")
       THEN cpu' = "rom_init" /\ UNCHANGED why
       ELSE Halt("map_size")
    /\ UNCHANGED <<back, k, ea, msr, srr1, slb>>

(* c_main: exc_rfi(&uframe).                                               *)
StartGuest ==
    /\ cpu = "rom_init"
    /\ cpu' = "guest"
    /\ UNCHANGED <<back, k, ea, msr, srr1, slb, why>>

(***************************************************************************)
(* mmu_guest_update.                                                       *)
(***************************************************************************)
(* Bug: the loop runs one round short.                                     *)
SlbieSr_Short ==
    /\ cpu = "slbie_sr"
    /\ slb' = slb_invalidate(k, "256M")
    /\ k' = k + 1
    /\ cpu' = IF k + 2 < SR_COUNT THEN "slbie_sr" ELSE "slbmte_grm"
    /\ UNCHANGED <<back, ea, msr, srr1, why>>

SlbieSr ==
    /\ cpu = "slbie_sr"
    /\ slb' = slb_invalidate(k, "256M")
    /\ k' = k + 1
    /\ cpu' = IF k + 1 < SR_COUNT THEN "slbie_sr" ELSE "slbmte_grm"
    /\ UNCHANGED <<back, ea, msr, srr1, why>>

SlbmteGrm ==
    /\ cpu = "slbmte_grm"
    /\ slb' = slbmte(slb, GRM_SLOT, GrmEntry)
    /\ cpu' = back
    /\ UNCHANGED <<back, k, ea, msr, srr1, why>>

SlbieGrm ==
    /\ cpu = "slbie_grm"
    /\ slb' = slb_invalidate(LAYOUT_VM_START, "1T")
    /\ cpu' = back
    /\ UNCHANGED <<back, k, ea, msr, srr1, why>>

(***************************************************************************)
(* Segment faults. The guest, or the hypervisor on its behalf, touches a   *)
(* segment that no SLB entry translates.                                   *)
(***************************************************************************)
SegFault(e) ==
    /\ cpu \in Contexts
    /\ Hits(e) = {}
    /\ ea' = e
    /\ back' = cpu
    /\ cpu' = "seg"
    /\ UNCHANGED <<k, msr, srr1, slb, why>>

(* Bug: the fault is reported as handled and nothing is installed.         *)
mmu_guest_fault_seg_Nothing ==
    /\ cpu = "seg"
    /\ cpu' = back
    /\ UNCHANGED <<back, k, ea, msr, srr1, slb, why>>

mmu_guest_fault_seg ==
    LET slot == SR_INDEX_TO_SLB_SLOT(ea) IN
    /\ cpu = "seg"
    /\ IF slb[slot].v               \* ERR_UNSUPPORTED, and exc_handler hangs
       THEN Halt("seg_present") /\ UNCHANGED slb
       ELSE IF guest_is_mmu_off(msr)
       THEN Halt("seg_mmu_off") /\ UNCHANGED slb
       ELSE /\ slb' = slbmte(slb, slot, SrEntry(ea))
            /\ cpu' = back
            /\ UNCHANGED why
    /\ UNCHANGED <<back, k, ea, msr, srr1>>

(***************************************************************************)
(* Privileged instructions of the guest. Each is at an address whose       *)
(* segment the SLB translates, or it could not have been fetched.          *)
(***************************************************************************)
Fetched(e) == cpu = "guest" /\ Hits(e) # {}

mtmsr(e, new) == Fetched(e) /\ guest_update_msr(new, "guest")

rfi(e) == Fetched(e) /\ guest_update_msr(srr1, "guest")

mtspr_srr1(e, new) ==
    /\ Fetched(e)
    /\ srr1' = new
    /\ UNCHANGED <<cpu, back, k, ea, msr, slb, why>>

mtspr_unhandled(e) ==
    /\ Fetched(e)
    /\ Halt("mtspr")
    /\ UNCHANGED <<back, k, ea, msr, srr1, slb>>

(* Exceptions the program does not inject into the guest.                  *)
OtherExc(e) ==
    /\ Fetched(e)
    /\ Halt("inject")
    /\ UNCHANGED <<back, k, ea, msr, srr1, slb>>

(* sc: rom_call until it returns, stops for good, or maps a page.          *)
sc(e) ==
    /\ Fetched(e)
    /\ cpu' = "rom_call"
    /\ UNCHANGED <<back, k, ea, msr, srr1, slb, why>>

rom_call_return ==
    /\ cpu = "rom_call"
    /\ cpu' = "guest"
    /\ UNCHANGED <<back, k, ea, msr, srr1, slb, why>>

rom_call_exit ==
    /\ cpu = "rom_call"
    /\ Halt("exit")
    /\ UNCHANGED <<back, k, ea, msr, srr1, slb>>

rom_call_map(virt) ==
    /\ cpu = "rom_call"
    /\ IF MapFits(virt, "4K") THEN cpu' = "guest" /\ UNCHANGED why
                              ELSE Halt("map_size")
    /\ UNCHANGED <<back, k, ea, msr, srr1, slb>>

(* BUG_ON, FATAL and exc_handler's last line are endless loops.            *)
Halted == cpu = "halt" /\ UNCHANGED vars

Init ==
    /\ cpu = "reset" /\ back = "reset" /\ k = 0 /\ ea = 0 /\ why = "none"
    /\ msr = IrDr(FALSE) /\ srr1 = IrDr(FALSE)
    /\ slb \in [Slots -> StaleEntries \cup {Invalid}]

Boot == slb_init \/ guest_init \/ guest_init_map_grm \/ guest_init_map_vm \/ StartGuest
Update == SlbieSr \/ SlbmteGrm \/ SlbieGrm
Fault == (\E e \in Segs : SegFault(e)) \/ mmu_guest_fault_seg
Guest == \E e \in Segs :
    \/ \E new \in Msrs : mtmsr(e, new) \/ mtspr_srr1(e, new)
    \/ rfi(e)
    \/ mtspr_unhandled(e)
    \/ OtherExc(e)
    \/ sc(e)
Rom == rom_call_return \/ rom_call_exit \/ \E e \in Segs : rom_call_map(e)

Next == Boot \/ Update \/ Fault \/ Guest \/ Rom \/ Halted

Spec == Init /\ [][Next]_vars

-----------------------------------------------------------------------------
(* Every variable has its type; k never leaves the range of the sixteen    *)
(* segment registers that the loop of mmu_guest_update walks.              *)
TypeOK ==
    /\ cpu \in Points /\ back \in Points /\ why \in Reasons
    /\ k \in 0 .. SR_COUNT /\ ea \in Segs
    /\ msr \in Msrs /\ srr1 \in Msrs
    /\ slb \in [Slots -> SlbEntries \cup {Invalid}]

(* Once slb_init has run, no address is translated by two SLB entries (the *)
(* hardware takes a machine check on such an access), not even between two *)
(* instructions of mmu_guest_update.                                       *)
SingleTranslation ==
    cpu # "reset" => \A e \in EAs : \A s, t \in Hits(e) : s = t

(* Which entries may be in the SLB at each point of the program. The slots *)
(* of HV and AIL are fixed; slot 2 holds the real-mode segment or nothing; *)
(* slot i+3 holds the segment of SR i or nothing; the rest stays empty.    *)
SlbShape ==
    cpu # "reset" =>
        /\ slb[HV_SLOT] = HvEntry
        /\ slb[AIL_SLOT] = AilEntry
        /\ slb[GRM_SLOT] \in {Invalid, GrmEntry}
        /\ \A i \in Segs : slb[SR_INDEX_TO_SLB_SLOT(i)] \in {Invalid, SrEntry(i)}
        /\ \A s \in Slots : s >= SR_COUNT + 3 => slb[s] = Invalid

GrmValid == slb[GRM_SLOT].v
SrValid(i) == slb[SR_INDEX_TO_SLB_SLOT(i)].v
NoSrValid == \A i \in Segs : ~SrValid(i)
Stable == Contexts \cup {"map_grm", "map_vm", "seg"}

Modes ==
    /\ cpu = "mmu_ready" => ~GrmValid /\ NoSrValid
    /\ cpu = "slbie_sr" =>
          /\ guest_is_mmu_off(msr) /\ ~GrmValid /\ back \in {"map_grm", "guest"}
          /\ k < SR_COUNT /\ \A i \in Segs : i < k => ~SrValid(i)
    /\ cpu = "slbmte_grm" =>
          guest_is_mmu_off(msr) /\ ~GrmValid /\ NoSrValid /\ back \in {"map_grm", "guest"}
    /\ cpu = "slbie_grm" =>
          ~guest_is_mmu_off(msr) /\ NoSrValid /\ back \in {"map_vm", "guest"}
    /\ cpu \in Stable =>
          IF guest_is_mmu_off(msr) THEN GrmValid /\ NoSrValid ELSE ~GrmValid
    /\ cpu = "map_grm" => guest_is_mmu_off(msr)
    /\ cpu = "map_vm" => ~guest_is_mmu_off(msr)
    /\ cpu = "seg" => ~guest_is_mmu_off(msr) /\ ~SrValid(ea) /\ back \in Contexts
    /\ cpu = "halt" => ~GrmValid \/ NoSrValid

(* The discipline behind all of this: with the guest's MMU off the         *)
(* real-mode segment is present and no SR segment is, with it on the       *)
(* real-mode segment is absent, and mmu_guest_update goes from one to the  *)
(* other in an order that never has both. Every variable has its type.     *)
SlbDiscipline == TypeOK /\ SlbShape /\ Modes

(* Whenever guest addresses are used or mapped, the SLB and the software   *)
(* view (ea_2_seg_size, ea_2_base_size and ea_2_vpn, which "needs to be    *)
(* kept in sync with slb_init") agree on every translated address, so the  *)
(* hardware searches the PTEG that mmu_map filled.                         *)
SoftwareAgrees ==
    cpu \in Stable =>
        \A e \in EAs : \A s \in Hits(e) :
            /\ slb[s].b = ea_2_seg_size(e)
            /\ slb[s].base = ea_2_base_size(e)
            /\ slb[s].vsid = ea_2_vsid(e)

(* A segment fault never ends in the hang or in the BUG of its handler,    *)
(* whatever sequence of MMU switches, faults and client calls led to it.   *)
FaultsRecoverable == why \notin {"seg_present", "seg_mmu_off"}

(* slbie names the segment size of the entry that translates its address:  *)
(* with another size the ISA leaves open what is invalidated.              *)
SlbieUnambiguous ==
    /\ cpu = "slbie_sr" => \A s \in Hits(k) : slb[s].b = "256M"
    /\ cpu = "slbie_grm" => \A s \in Hits(LAYOUT_VM_START) : slb[s].b = "1T"

(* guest_init maps guest RAM once per translation mode: the 16M mapping is *)
(* entered under the real-mode VSID and the 4K mapping under the segment   *)
(* registers' VSIDs, which is where each mode will look for it.            *)
BootMapsBothModes ==
    /\ cpu = "map_grm" => ea_2_vsid(LAYOUT_VM_START) = GRM_VSID
    /\ cpu = "map_vm" => ea_2_vsid(LAYOUT_VM_START) = Sr(LAYOUT_VM_START)

(* After slb_init no step touches the hypervisor's own two entries: losing *)
(* one would lose the code that handles the next exception.                *)
HvEntriesPinned ==
    [][cpu # "reset" => slb'[HV_SLOT] = slb[HV_SLOT] /\ slb'[AIL_SLOT] = slb[AIL_SLOT]]_vars

(* The hypervisor's own steps are executed by a CPU that does not stop.    *)
HvStep == slb_init \/ guest_init \/ guest_init_map_grm \/ guest_init_map_vm
          \/ Update \/ mmu_guest_fault_seg
FairSpec == Spec /\ WF_vars(HvStep)

(* A segment fault is answered by an entry for the segment that faulted,   *)
(* so the access that faulted succeeds when it is repeated.                *)
FaultResolves ==
    \A e \in Segs :
        (cpu = "seg" /\ ea = e) ~> (cpu \in Contexts /\ Hits(e) # {})
=============================================================================
