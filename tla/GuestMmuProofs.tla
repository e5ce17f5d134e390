--------------------------- MODULE GuestMmuProofs ---------------------------
(***************************************************************************)
(* Safety of the segment side of the shadow MMU for every number of        *)
(* segment registers and every SLB large enough to hold them. The          *)
(* inductive invariant is TypeOK /\ SlbDiscipline /\ FaultsRecoverable.    *)
(***************************************************************************)
EXTENDS GuestMmu, TLAPS

USE SrCountAssumption, SlbSizeAssumption

IInv == TypeOK /\ SlbShape /\ Modes /\ FaultsRecoverable

(* Any entry that slb_make_esid and slb_make_vsid build is a valid one.    *)
LEMMA EntryType ==
    /\ HvEntry \in SlbEntries /\ AilEntry \in SlbEntries /\ GrmEntry \in SlbEntries
    /\ \A i \in Segs : SrEntry(i) \in SlbEntries
    /\ Invalid.v = FALSE
    /\ HvEntry.v /\ AilEntry.v /\ GrmEntry.v /\ \A i \in Segs : SrEntry(i).v
  BY DEF HvEntry, AilEntry, GrmEntry, SrEntry, Sr, SlbEntry, EsidOf, SlbEntries, EAs, VSIDs,
         SegSizes, PageSizes, Segs, LAYOUT_VM_START, HV_ASPACE, AIL_ASPACE, HV_VSID, AIL_VSID,
         GRM_VSID, Invalid

(* The fields of the entries, which is all the later proofs need of them.  *)
LEMMA EntryFields ==
    /\ ~Invalid.v
    /\ HvEntry.v /\ HvEntry.b = "1T" /\ HvEntry.esid = SR_COUNT
    /\ AilEntry.v /\ AilEntry.b = "256M" /\ AilEntry.esid = SR_COUNT + 1
    /\ GrmEntry.v /\ GrmEntry.b = "1T" /\ GrmEntry.esid = 0
    /\ \A i \in Segs : SrEntry(i).v /\ SrEntry(i).b = "256M" /\ SrEntry(i).esid = i
  BY DEF HvEntry, AilEntry, GrmEntry, SrEntry, SlbEntry, EsidOf, Segs, LAYOUT_VM_START,
         HV_ASPACE, AIL_ASPACE, Invalid

(* The slots the program uses are slots of the SLB, and all different.     *)
LEMMA SlotFacts ==
    /\ 0 \in Slots /\ 1 \in Slots /\ 2 \in Slots
    /\ \A i \in Segs : i + 3 \in Slots
    /\ \A s \in Slots : s \in {0, 1, 2} \/ s >= SR_COUNT + 3 \/ \E i \in Segs : s = i + 3
    /\ 0 \in Segs
  <1>1. \A s \in Slots : s \in {0, 1, 2} \/ s >= SR_COUNT + 3 \/ s - 3 \in Segs
    BY DEF Slots, Segs
  <1>2. \A s \in Slots : s - 3 \in Segs => \E i \in Segs : s = i + 3
    BY DEF Slots, Segs
  <1> QED  BY <1>1, <1>2 DEF Slots, Segs

(* On a table of the right shape, slbie of a guest segment empties the     *)
(* slot of its segment register and nothing else.                          *)
LEMMA InvalidateSr ==
    ASSUME TypeOK, SlbShape, cpu # "reset", NEW e \in Segs
    PROVE  slb_invalidate(e, "256M") = [slb EXCEPT ![e + 3] = Invalid]
  <1>1. slb_invalidate(e, "256M") =
          [s \in Slots |-> IF slb[s].v /\ slb[s].b = "256M" /\ slb[s].esid = e
                           THEN Invalid ELSE slb[s]]
    BY DEF slb_invalidate, EsidOf
  <1>2. [slb EXCEPT ![e + 3] = Invalid] =
          [s \in Slots |-> IF s = e + 3 THEN Invalid ELSE slb[s]]
    BY DEF TypeOK
  <1> SUFFICES ASSUME NEW s \in Slots
               PROVE (IF slb[s].v /\ slb[s].b = "256M" /\ slb[s].esid = e
                      THEN Invalid ELSE slb[s]) =
                     (IF s = e + 3 THEN Invalid ELSE slb[s])
    BY <1>1, <1>2
  <1>3. CASE s = 0
    BY <1>3, EntryFields DEF SlbShape, HV_SLOT, Segs
  <1>4. CASE s = 1
    BY <1>4, EntryFields DEF SlbShape, AIL_SLOT, Segs
  <1>5. CASE s = 2
    BY <1>5, EntryFields DEF SlbShape, GRM_SLOT, Segs
  <1>6. ASSUME NEW i \in Segs, s = i + 3 PROVE slb[s] \in {Invalid, SrEntry(i)}
    BY <1>6 DEF SlbShape, SR_INDEX_TO_SLB_SLOT
  <1>7. ASSUME NEW i \in Segs, s = i + 3
        PROVE (IF slb[s].v /\ slb[s].b = "256M" /\ slb[s].esid = e
               THEN Invalid ELSE slb[s]) = (IF s = e + 3 THEN Invalid ELSE slb[s])
    BY <1>6, <1>7, EntryFields DEF Segs
  <1>8. CASE s >= SR_COUNT + 3
    BY <1>8, EntryFields DEF SlbShape, Segs
  <1> QED  BY <1>3, <1>4, <1>5, <1>7, <1>8, SlotFacts

(* slbie of the guest's terabyte empties the slot of the real-mode segment.*)
LEMMA InvalidateGrm ==
    ASSUME TypeOK, SlbShape, cpu # "reset"
    PROVE  slb_invalidate(LAYOUT_VM_START, "1T") = [slb EXCEPT ![GRM_SLOT] = Invalid]
  <1>1. slb_invalidate(LAYOUT_VM_START, "1T") =
          [s \in Slots |-> IF slb[s].v /\ slb[s].b = "1T" /\ slb[s].esid = 0
                           THEN Invalid ELSE slb[s]]
    BY DEF slb_invalidate, EsidOf, LAYOUT_VM_START
  <1>2. [slb EXCEPT ![GRM_SLOT] = Invalid] =
          [s \in Slots |-> IF s = 2 THEN Invalid ELSE slb[s]]
    BY DEF TypeOK, GRM_SLOT
  <1> SUFFICES ASSUME NEW s \in Slots
               PROVE (IF slb[s].v /\ slb[s].b = "1T" /\ slb[s].esid = 0
                      THEN Invalid ELSE slb[s]) =
                     (IF s = 2 THEN Invalid ELSE slb[s])
    BY <1>1, <1>2
  <1>3. CASE s = 0
    BY <1>3, EntryFields DEF SlbShape, HV_SLOT, Segs
  <1>4. CASE s = 1
    BY <1>4, EntryFields DEF SlbShape, AIL_SLOT, Segs
  <1>5. CASE s = 2
    BY <1>5, EntryFields DEF SlbShape, GRM_SLOT, Segs
  <1>6. ASSUME NEW i \in Segs, s = i + 3 PROVE slb[s] \in {Invalid, SrEntry(i)}
    BY <1>6 DEF SlbShape, SR_INDEX_TO_SLB_SLOT
  <1>7. ASSUME NEW i \in Segs, s = i + 3
        PROVE (IF slb[s].v /\ slb[s].b = "1T" /\ slb[s].esid = 0
               THEN Invalid ELSE slb[s]) = (IF s = 2 THEN Invalid ELSE slb[s])
    BY <1>6, <1>7, EntryFields DEF Segs
  <1>8. CASE s >= SR_COUNT + 3
    BY <1>8, EntryFields DEF SlbShape, Segs
  <1> QED  BY <1>3, <1>4, <1>5, <1>7, <1>8, SlotFacts

(* The hypervisor starts in a state that satisfies the invariant.          *)
LEMMA InitIInv == Init => IInv
  BY StaleAssumption, SlotFacts
  DEF Init, IInv, TypeOK, SlbShape, Modes, FaultsRecoverable, Points, Contexts, Stable,
      Reasons, Msrs, IrDr, Segs

(* Every action preserves the types.                                       *)
LEMMA TypeStep == TypeOK /\ SlbShape /\ Modes /\ [Next]_vars => TypeOK'
  <1> SUFFICES ASSUME TypeOK, SlbShape, Modes, [Next]_vars PROVE TypeOK'
    OBVIOUS
  <1> USE SlotFacts, EntryType
  <1>1. CASE slb_init
    BY <1>1 DEF slb_init, TypeOK, slbmte, slbia, HV_SLOT, AIL_SLOT, Points
  <1>2. CASE guest_init
    BY <1>2 DEF guest_init, mmu_guest_update, TypeOK, IrDr, Msrs, Points
  <1>3. ASSUME NEW new \in Msrs, NEW cont \in Points, guest_update_msr(new, cont)
        PROVE TypeOK'
    BY <1>3 DEF guest_update_msr, mmu_guest_update, Halt, TypeOK, Points, Reasons
  <1>4. CASE guest_init_map_grm
    <2>1. CASE MapFits(LAYOUT_VM_START, "16M")
      <3>1. IrDr(TRUE) \in Msrs /\ "map_vm" \in Points
        BY DEF IrDr, Msrs, Points
      <3> QED  BY <1>3, <1>4, <2>1, <3>1 DEF guest_init_map_grm
    <2>2. CASE ~MapFits(LAYOUT_VM_START, "16M")
      BY <1>4, <2>2 DEF guest_init_map_grm, Halt, TypeOK, Points, Reasons
    <2> QED  BY <2>1, <2>2
  <1>5. CASE guest_init_map_vm
    BY <1>5 DEF guest_init_map_vm, Halt, TypeOK, Points, Contexts, Reasons
  <1>6. CASE StartGuest
    BY <1>6 DEF StartGuest, TypeOK, Points, Contexts
  <1>7. CASE SlbieSr
    <2>1. slb' \in [Slots -> SlbEntries \cup {Invalid}]
      BY <1>7 DEF SlbieSr, slb_invalidate, TypeOK
    <2>2. k' \in 0 .. SR_COUNT
      BY <1>7 DEF SlbieSr, TypeOK, Modes
    <2> QED  BY <1>7, <2>1, <2>2 DEF SlbieSr, TypeOK, Points
  <1>8. CASE SlbmteGrm
    BY <1>8 DEF SlbmteGrm, slbmte, TypeOK, GRM_SLOT
  <1>9. CASE SlbieGrm
    <2>1. slb' \in [Slots -> SlbEntries \cup {Invalid}]
      BY <1>9 DEF SlbieGrm, slb_invalidate, TypeOK
    <2> QED  BY <1>9, <2>1 DEF SlbieGrm, TypeOK
  <1>10. ASSUME NEW e \in Segs, SegFault(e) PROVE TypeOK'
    BY <1>10 DEF SegFault, TypeOK, Points, Contexts
  <1>11. CASE mmu_guest_fault_seg
    BY <1>11 DEF mmu_guest_fault_seg, slbmte, SR_INDEX_TO_SLB_SLOT, Halt, TypeOK, Points, Reasons
  <1>12. ASSUME NEW e \in Segs, NEW new \in Msrs, mtmsr(e, new) PROVE TypeOK'
    BY <1>3, <1>12 DEF mtmsr, Points, Contexts
  <1>13. ASSUME NEW e \in Segs, NEW new \in Msrs, mtspr_srr1(e, new) PROVE TypeOK'
    BY <1>13 DEF mtspr_srr1, TypeOK
  <1>14. ASSUME NEW e \in Segs, rfi(e) PROVE TypeOK'
    BY <1>3, <1>14 DEF rfi, Points, Contexts, TypeOK
  <1>15. ASSUME NEW e \in Segs, mtspr_unhandled(e) \/ OtherExc(e) \/ sc(e) PROVE TypeOK'
    BY <1>15 DEF mtspr_unhandled, OtherExc, sc, Halt, TypeOK, Points, Contexts, Reasons
  <1>16. CASE rom_call_return \/ rom_call_exit
    BY <1>16 DEF rom_call_return, rom_call_exit, Halt, TypeOK, Points, Contexts, Reasons
  <1>17. ASSUME NEW e \in Segs, rom_call_map(e) PROVE TypeOK'
    BY <1>17 DEF rom_call_map, Halt, TypeOK, Points, Contexts, Reasons
  <1>18. CASE Halted \/ UNCHANGED vars
    BY <1>18 DEF Halted, vars, TypeOK
  <1> QED
    BY <1>1, <1>2, <1>4, <1>5, <1>6, <1>7, <1>8, <1>9, <1>10, <1>11, <1>12, <1>13, <1>14,
       <1>15, <1>16, <1>17, <1>18 DEF Next, Boot, Update, Fault, Guest, Rom

(* A step that leaves the SLB alone and does not go back to reset keeps    *)
(* its shape.                                                              *)
LEMMA ShapeKept ==
    ASSUME SlbShape, cpu # "reset", UNCHANGED slb
    PROVE  SlbShape'
  BY DEF SlbShape

(* Every action preserves the shape of the SLB.                            *)
LEMMA ShapeStep == TypeOK /\ SlbShape /\ Modes /\ [Next]_vars => SlbShape'
  <1> SUFFICES ASSUME TypeOK, SlbShape, Modes, [Next]_vars PROVE SlbShape'
    OBVIOUS
  <1> USE SlotFacts
  <1>1. CASE slb_init
    <2>1. /\ slb' \in [Slots -> SlbEntries \cup {Invalid}]
          /\ slb'[0] = HvEntry /\ slb'[1] = AilEntry
          /\ \A s \in Slots : s # 0 /\ s # 1 => slb'[s] = Invalid
      <3>1. slb' = [[slbia EXCEPT ![0] = HvEntry] EXCEPT ![1] = AilEntry]
        BY <1>1 DEF slb_init, slbmte, HV_SLOT, AIL_SLOT
      <3>2. /\ slbia \in [Slots -> SlbEntries \cup {Invalid}]
            /\ \A s \in Slots : s # 0 => slbia[s] = Invalid
        BY DEF slbia, TypeOK
      <3> QED  BY <3>1, <3>2, EntryType
    <2>2. \A i \in Segs : slb'[i + 3] = Invalid
      BY <2>1 DEF Segs
    <2>3. \A s \in Slots : s >= SR_COUNT + 3 => slb'[s] = Invalid
      BY <2>1
    <2> QED  BY <2>1, <2>2, <2>3 DEF SlbShape, HV_SLOT, AIL_SLOT, GRM_SLOT, SR_INDEX_TO_SLB_SLOT
  <1>2. CASE guest_init
    BY <1>2, ShapeKept DEF guest_init, mmu_guest_update
  <1>3. ASSUME NEW new, NEW cont, cpu # "reset", guest_update_msr(new, cont) PROVE SlbShape'
    BY <1>3, ShapeKept DEF guest_update_msr, mmu_guest_update
  <1>4. CASE guest_init_map_grm
    BY <1>3, <1>4, ShapeKept DEF guest_init_map_grm
  <1>5. CASE guest_init_map_vm \/ StartGuest
    BY <1>5, ShapeKept DEF guest_init_map_vm, StartGuest
  <1>7. CASE SlbieSr
    <2>1. k \in Segs /\ cpu # "reset"
      BY <1>7 DEF SlbieSr, Modes, TypeOK, Segs
    <2>2. slb' = [slb EXCEPT ![k + 3] = Invalid]
      BY <1>7, <2>1, InvalidateSr DEF SlbieSr
    <2>3. \A s \in Slots : slb'[s] = IF s = k + 3 THEN Invalid ELSE slb[s]
      BY <2>2 DEF TypeOK
    <2> QED  BY <2>1, <2>3 DEF SlbShape, HV_SLOT, AIL_SLOT, GRM_SLOT, SR_INDEX_TO_SLB_SLOT, Segs
  <1>8. CASE SlbmteGrm
    <2>1. \A s \in Slots : slb'[s] = IF s = 2 THEN GrmEntry ELSE slb[s]
      BY <1>8 DEF SlbmteGrm, slbmte, GRM_SLOT, TypeOK
    <2> QED
      BY <1>8, <2>1
      DEF SlbmteGrm, SlbShape, HV_SLOT, AIL_SLOT, GRM_SLOT, SR_INDEX_TO_SLB_SLOT, Segs
  <1>9. CASE SlbieGrm
    <2>1. \A s \in Slots : slb'[s] = IF s = 2 THEN Invalid ELSE slb[s]
      BY <1>9, InvalidateGrm DEF SlbieGrm, GRM_SLOT, TypeOK
    <2> QED
      BY <1>9, <2>1
      DEF SlbieGrm, SlbShape, HV_SLOT, AIL_SLOT, GRM_SLOT, SR_INDEX_TO_SLB_SLOT, Segs
  <1>10. ASSUME NEW e \in Segs, SegFault(e) PROVE SlbShape'
    BY <1>10, ShapeKept DEF SegFault, Contexts
  <1>11. CASE mmu_guest_fault_seg
    <2>1. slb' = slb \/ slb' = [slb EXCEPT ![ea + 3] = SrEntry(ea)]
      BY <1>11 DEF mmu_guest_fault_seg, slbmte, SR_INDEX_TO_SLB_SLOT
    <2>2. CASE slb' = slb
      BY <1>11, <2>2, ShapeKept DEF mmu_guest_fault_seg
    <2>3. CASE slb' = [slb EXCEPT ![ea + 3] = SrEntry(ea)]
      <3>1. \A s \in Slots : slb'[s] = IF s = ea + 3 THEN SrEntry(ea) ELSE slb[s]
        BY <2>3 DEF TypeOK
      <3> QED
        BY <1>11, <3>1
        DEF mmu_guest_fault_seg, TypeOK, SlbShape, HV_SLOT, AIL_SLOT, GRM_SLOT,
            SR_INDEX_TO_SLB_SLOT, Segs
    <2> QED  BY <2>1, <2>2, <2>3
  <1>12. ASSUME NEW e \in Segs, NEW new \in Msrs, mtmsr(e, new) \/ mtspr_srr1(e, new)
         PROVE SlbShape'
    BY <1>3, <1>12, ShapeKept DEF mtmsr, mtspr_srr1, Fetched
  <1>14. ASSUME NEW e \in Segs, rfi(e) PROVE SlbShape'
    BY <1>3, <1>14 DEF rfi, Fetched
  <1>15. ASSUME NEW e \in Segs, mtspr_unhandled(e) \/ OtherExc(e) \/ sc(e) PROVE SlbShape'
    BY <1>15, ShapeKept DEF mtspr_unhandled, OtherExc, sc, Fetched
  <1>16. CASE rom_call_return \/ rom_call_exit
    BY <1>16, ShapeKept DEF rom_call_return, rom_call_exit
  <1>17. ASSUME NEW e \in Segs, rom_call_map(e) PROVE SlbShape'
    BY <1>17, ShapeKept DEF rom_call_map
  <1>18. CASE Halted \/ UNCHANGED vars
    BY <1>18 DEF Halted, vars, SlbShape
  <1> QED
    BY <1>1, <1>2, <1>4, <1>5, <1>7, <1>8, <1>9, <1>10, <1>11, <1>12, <1>14,
       <1>15, <1>16, <1>17, <1>18 DEF Next, Boot, Update, Fault, Guest, Rom

(* What a step that leaves the SLB alone leaves alone with it.             *)
LEMMA ValidKept ==
    ASSUME UNCHANGED slb
    PROVE  /\ GrmValid' <=> GrmValid
           /\ \A i : SrValid(i)' <=> SrValid(i)
           /\ NoSrValid' <=> NoSrValid
  BY DEF GrmValid, SrValid, NoSrValid

(* Every action preserves the discipline of the modes, and no segment      *)
(* fault ends badly.                                                       *)
LEMMA ModesStep == IInv /\ [Next]_vars => Modes' /\ FaultsRecoverable'
  <1> SUFFICES ASSUME TypeOK, SlbShape, Modes, FaultsRecoverable, [Next]_vars
               PROVE  Modes' /\ FaultsRecoverable'
    BY DEF IInv
  <1> USE SlotFacts
  <1>1. CASE slb_init
    <2>1. \A s \in Slots : s # 0 /\ s # 1 => slb'[s] = Invalid
      <3>1. slb' = [[slbia EXCEPT ![0] = HvEntry] EXCEPT ![1] = AilEntry]
        BY <1>1 DEF slb_init, slbmte, HV_SLOT, AIL_SLOT
      <3> QED  BY <3>1 DEF slbia
    <2>2. ~GrmValid' /\ NoSrValid'
      BY <2>1, EntryFields DEF GrmValid, NoSrValid, SrValid, GRM_SLOT, SR_INDEX_TO_SLB_SLOT, Segs
    <2> QED  BY <1>1, <2>2 DEF slb_init, Modes, FaultsRecoverable, Stable, Contexts
  <1>2. CASE guest_init
    BY <1>2, ValidKept
    DEF guest_init, mmu_guest_update, Modes, FaultsRecoverable, Stable, Contexts, Segs,
        IrDr, guest_is_mmu_off
  <1>3. ASSUME NEW new \in Msrs, NEW cont \in {"map_vm", "guest"}, cpu \in {"map_grm", "guest"},
               cont = "map_vm" => new = IrDr(TRUE) /\ cpu = "map_grm",
               guest_update_msr(new, cont)
        PROVE  Modes' /\ FaultsRecoverable'
    <2> USE <1>3, ValidKept
    <2>0. UNCHANGED slb /\ msr' = new
      BY DEF guest_update_msr, mmu_guest_update
    <2>1. CASE ~Consistent(new)
      BY <2>0, <2>1
      DEF guest_update_msr, Halt, Modes, FaultsRecoverable, Stable, Contexts
    <2>2. CASE Consistent(new) /\ guest_is_mmu_off(msr) # guest_is_mmu_off(new)
      <3>1. CASE guest_is_mmu_off(new)
        BY <2>0, <2>2, <3>1
        DEF guest_update_msr, mmu_guest_update, Modes, FaultsRecoverable, Stable, Contexts, Segs,
            IrDr, guest_is_mmu_off, Msrs
      <3>2. CASE ~guest_is_mmu_off(new)
        BY <2>0, <2>2, <3>2
        DEF guest_update_msr, mmu_guest_update, Modes, FaultsRecoverable, Stable, Contexts, Segs,
            guest_is_mmu_off, Msrs
      <3> QED  BY <3>1, <3>2
    <2>3. CASE Consistent(new) /\ guest_is_mmu_off(msr) = guest_is_mmu_off(new)
      BY <2>0, <2>3
      DEF guest_update_msr, Modes, FaultsRecoverable, Stable, Contexts, IrDr, guest_is_mmu_off,
          Msrs
    <2> QED  BY <2>1, <2>2, <2>3
  <1>4. CASE guest_init_map_grm
    <2>1. IrDr(TRUE) \in Msrs
      BY DEF IrDr, Msrs
    <2>2. CASE MapFits(LAYOUT_VM_START, "16M")
      BY <1>3, <1>4, <2>1, <2>2 DEF guest_init_map_grm
    <2>3. CASE ~MapFits(LAYOUT_VM_START, "16M")
      BY <2>3 DEF MapFits
    <2> QED  BY <2>2, <2>3
  <1>5. CASE guest_init_map_vm \/ StartGuest
    BY <1>5, ValidKept
    DEF guest_init_map_vm, StartGuest, Halt, Modes, FaultsRecoverable, Stable, Contexts
  <1>7. CASE SlbieSr
    <2>1. k \in Segs /\ cpu # "reset"
      BY <1>7 DEF SlbieSr, Modes, TypeOK, Segs
    <2>2. slb' = [slb EXCEPT ![k + 3] = Invalid]
      BY <1>7, <2>1, InvalidateSr DEF SlbieSr
    <2>3. \A s \in Slots : slb'[s] = IF s = k + 3 THEN Invalid ELSE slb[s]
      BY <2>2 DEF TypeOK
    <2>4. ~GrmValid'
      BY <1>7, <2>1, <2>3 DEF SlbieSr, Modes, GrmValid, GRM_SLOT, Segs
    <2>5. \A i \in Segs : i < k + 1 => ~SrValid(i)'
      BY <1>7, <2>1, <2>3, EntryFields DEF SlbieSr, Modes, SrValid, SR_INDEX_TO_SLB_SLOT, Segs
    <2>6. CASE k + 1 < SR_COUNT
      BY <1>7, <2>4, <2>5, <2>6 DEF SlbieSr, Modes, FaultsRecoverable, Stable, Contexts
    <2>7. CASE ~(k + 1 < SR_COUNT)
      <3>1. NoSrValid'
        BY <2>1, <2>5, <2>7 DEF NoSrValid, Segs
      <3> QED  BY <1>7, <2>4, <2>7, <3>1 DEF SlbieSr, Modes, FaultsRecoverable, Stable, Contexts
    <2> QED  BY <2>6, <2>7
  <1>8. CASE SlbmteGrm
    <2>1. \A s \in Slots : slb'[s] = IF s = 2 THEN GrmEntry ELSE slb[s]
      BY <1>8 DEF SlbmteGrm, slbmte, GRM_SLOT, TypeOK
    <2>2. GrmValid' /\ NoSrValid'
      BY <1>8, <2>1, EntryFields
      DEF SlbmteGrm, Modes, GrmValid, NoSrValid, SrValid, GRM_SLOT, SR_INDEX_TO_SLB_SLOT, Segs
    <2> QED
      BY <1>8, <2>2 DEF SlbmteGrm, Modes, FaultsRecoverable, Stable, Contexts
  <1>9. CASE SlbieGrm
    <2>1. \A s \in Slots : slb'[s] = IF s = 2 THEN Invalid ELSE slb[s]
      BY <1>9, InvalidateGrm DEF SlbieGrm, GRM_SLOT, TypeOK
    <2>2. ~GrmValid' /\ NoSrValid'
      BY <1>9, <2>1, EntryFields
      DEF SlbieGrm, Modes, GrmValid, NoSrValid, SrValid, GRM_SLOT, SR_INDEX_TO_SLB_SLOT, Segs
    <2> QED
      BY <1>9, <2>2 DEF SlbieGrm, Modes, FaultsRecoverable, Stable, Contexts
  <1>10. ASSUME NEW e \in Segs, SegFault(e) PROVE Modes' /\ FaultsRecoverable'
    <2>1. cpu \in Stable /\ cpu # "reset"
      BY <1>10 DEF SegFault, Stable, Contexts
    <2>2. ~guest_is_mmu_off(msr)
      <3> SUFFICES ASSUME guest_is_mmu_off(msr) PROVE FALSE
        OBVIOUS
      <3>1. slb[2] = GrmEntry
        BY <2>1, EntryFields DEF Modes, GrmValid, SlbShape, GRM_SLOT
      <3>2. Hit(2, e)
        BY <3>1, EntryFields DEF Hit, EsidOf, LAYOUT_VM_START
      <3> QED  BY <1>10, <3>2 DEF SegFault, Hits
    <2>3. ~SrValid(e)
      <3> SUFFICES ASSUME SrValid(e) PROVE FALSE
        OBVIOUS
      <3>1. slb[e + 3] = SrEntry(e)
        BY <2>1, EntryFields DEF SrValid, SlbShape, SR_INDEX_TO_SLB_SLOT
      <3>2. Hit(e + 3, e)
        BY <3>1, EntryFields DEF Hit, EsidOf
      <3> QED  BY <1>10, <3>2 DEF SegFault, Hits
    <2> QED
      BY <1>10, <2>1, <2>2, <2>3, ValidKept
      DEF SegFault, Modes, FaultsRecoverable, Stable, Contexts
  <1>11. CASE mmu_guest_fault_seg
    <2>1. ~slb[ea + 3].v /\ ~guest_is_mmu_off(msr) /\ back \in Contexts /\ ~GrmValid
      BY <1>11 DEF mmu_guest_fault_seg, Modes, SrValid, SR_INDEX_TO_SLB_SLOT, Stable
    <2>2. slb' = [slb EXCEPT ![ea + 3] = SrEntry(ea)] /\ cpu' = back /\ UNCHANGED <<why, msr>>
      BY <1>11, <2>1 DEF mmu_guest_fault_seg, slbmte, SR_INDEX_TO_SLB_SLOT
    <2>3. ~GrmValid'
      BY <2>1, <2>2 DEF GrmValid, GRM_SLOT, TypeOK, Segs
    <2> QED
      BY <2>1, <2>2, <2>3 DEF Modes, FaultsRecoverable, Stable, Contexts
  <1>12. ASSUME NEW e \in Segs, NEW new \in Msrs, mtmsr(e, new)
         PROVE Modes' /\ FaultsRecoverable'
    BY <1>3, <1>12 DEF mtmsr, Fetched
  <1>13. ASSUME NEW e \in Segs, NEW new \in Msrs, mtspr_srr1(e, new)
         PROVE Modes' /\ FaultsRecoverable'
    BY <1>13, ValidKept DEF mtspr_srr1, Fetched, Modes, FaultsRecoverable, Stable, Contexts
  <1>14. ASSUME NEW e \in Segs, rfi(e) PROVE Modes' /\ FaultsRecoverable'
    BY <1>3, <1>14 DEF rfi, Fetched, TypeOK
  <1>15. ASSUME NEW e \in Segs, mtspr_unhandled(e) \/ OtherExc(e) \/ sc(e)
         PROVE Modes' /\ FaultsRecoverable'
    BY <1>15, ValidKept
    DEF mtspr_unhandled, OtherExc, sc, Fetched, Halt, Modes, FaultsRecoverable, Stable, Contexts
  <1>16. CASE rom_call_return \/ rom_call_exit
    BY <1>16, ValidKept
    DEF rom_call_return, rom_call_exit, Halt, Modes, FaultsRecoverable, Stable, Contexts
  <1>17. ASSUME NEW e \in Segs, rom_call_map(e) PROVE Modes' /\ FaultsRecoverable'
    BY <1>17, ValidKept DEF rom_call_map, Halt, Modes, FaultsRecoverable, Stable, Contexts
  <1>18. CASE Halted \/ UNCHANGED vars
    BY <1>18, ValidKept DEF Halted, vars, Modes, FaultsRecoverable
  <1> QED
    BY <1>1, <1>2, <1>4, <1>5, <1>7, <1>8, <1>9, <1>10, <1>11, <1>12, <1>13, <1>14,
       <1>15, <1>16, <1>17, <1>18 DEF Next, Boot, Update, Fault, Guest, Rom

(* TypeOK, SlbDiscipline and FaultsRecoverable together are inductive.     *)
THEOREM Invariance == Spec => []IInv
  <1>1. IInv /\ [Next]_vars => IInv'
    BY TypeStep, ShapeStep, ModesStep DEF IInv
  <1> QED  BY InitIInv, <1>1, PTL DEF Spec

(* For every number of segment registers, the variables keep their types.  *)
THEOREM TypeCorrect == Spec => []TypeOK
  <1>1. IInv => TypeOK
    BY DEF IInv
  <1> QED  BY Invariance, <1>1, PTL

(* The SLB discipline of mmu_guest_update and mmu_guest_fault_seg holds in *)
(* every reachable state.                                                  *)
THEOREM Discipline == Spec => []SlbDiscipline
  <1>1. IInv => SlbDiscipline
    BY DEF IInv, SlbDiscipline
  <1> QED  BY Invariance, <1>1, PTL

(* mmu_guest_fault_seg never reaches its BUG or the hang of exc_handler.   *)
THEOREM FaultsNeverFatal == Spec => []FaultsRecoverable
  <1>1. IInv => FaultsRecoverable
    BY DEF IInv
  <1> QED  BY Invariance, <1>1, PTL

(* What can translate an address once slb_init has run: the fixed entry of *)
(* its region, the real-mode segment, or the segment of its own register.  *)
LEMMA HitCases ==
    ASSUME IInv, cpu # "reset", NEW e \in EAs, NEW s \in Slots, Hit(s, e)
    PROVE  \/ s = HV_SLOT /\ e = HV_ASPACE /\ slb[s] = HvEntry
           \/ s = AIL_SLOT /\ e = AIL_ASPACE /\ slb[s] = AilEntry
           \/ s = GRM_SLOT /\ e \in Segs /\ slb[s] = GrmEntry
           \/ s = SR_INDEX_TO_SLB_SLOT(e) /\ e \in Segs /\ slb[s] = SrEntry(e)
  <1> USE DEF IInv
  <1>1. CASE s = 0
    BY <1>1, EntryFields
    DEF SlbShape, Hit, EsidOf, HV_SLOT, HV_ASPACE, LAYOUT_VM_START, Segs, EAs
  <1>2. CASE s = 1
    BY <1>2, EntryFields DEF SlbShape, Hit, EsidOf, AIL_SLOT, AIL_ASPACE
  <1>3. CASE s = 2
    BY <1>3, EntryFields DEF SlbShape, Hit, EsidOf, GRM_SLOT, LAYOUT_VM_START, Segs, EAs
  <1>4. ASSUME NEW i \in Segs, s = i + 3 PROVE s = e + 3 /\ e \in Segs /\ slb[s] = SrEntry(e)
    <2>1. slb[s] = SrEntry(i)
      BY <1>4, EntryFields DEF SlbShape, Hit, SR_INDEX_TO_SLB_SLOT
    <2> QED  BY <1>4, <2>1, EntryFields DEF Hit, EsidOf
  <1>5. CASE s >= SR_COUNT + 3
    BY <1>5, EntryFields DEF SlbShape, Hit
  <1> QED
    BY <1>1, <1>2, <1>3, <1>4, <1>5, SlotFacts DEF SR_INDEX_TO_SLB_SLOT

(* No address is ever translated twice, between any two instructions of    *)
(* mmu_guest_update included.                                              *)
THEOREM NoMultiHit == Spec => []SingleTranslation
  <1>1. IInv => SingleTranslation
    <2> SUFFICES ASSUME IInv, cpu # "reset", NEW e \in EAs, NEW s \in Hits(e), NEW t \in Hits(e)
                 PROVE  s = t
      BY DEF SingleTranslation
    <2>1. s \in Slots /\ t \in Slots /\ Hit(s, e) /\ Hit(t, e)
      BY DEF Hits
    <2>2. /\ s = 2 => slb[2] = GrmEntry
          /\ t = 2 => slb[2] = GrmEntry
          /\ e \in Segs => \/ s = 2 \/ s = e + 3
          /\ e \in Segs => \/ t = 2 \/ t = e + 3
          /\ e \notin Segs => (s = 0 /\ t = 0 /\ e = SR_COUNT) \/ (s = 1 /\ t = 1 /\ e = SR_COUNT + 1)
      BY <2>1, HitCases
      DEF HV_SLOT, AIL_SLOT, GRM_SLOT, SR_INDEX_TO_SLB_SLOT, HV_ASPACE, AIL_ASPACE, Segs, EAs
    <2>3. e \in Segs => ~(GrmValid /\ SrValid(e))
      BY DEF IInv, Modes, Stable, Contexts, TypeOK, Points, NoSrValid
    <2>4. CASE e \in Segs
      <3>1. s = 2 \/ t = 2 => GrmValid
        BY <2>2, EntryFields DEF GrmValid, GRM_SLOT
      <3>2. s = e + 3 \/ t = e + 3 => SrValid(e)
        BY <2>1 DEF Hit, SrValid, SR_INDEX_TO_SLB_SLOT
      <3> QED  BY <2>2, <2>3, <2>4, <3>1, <3>2
    <2> QED  BY <2>2, <2>4
  <1> QED  BY Invariance, <1>1, PTL

(* The hardware's translation and the software's idea of it agree wherever *)
(* guest addresses are used or mapped.                                     *)
THEOREM SoftwareInSync == Spec => []SoftwareAgrees
  <1>1. IInv => SoftwareAgrees
    <2> SUFFICES ASSUME IInv, cpu \in Stable, NEW e \in EAs, NEW s \in Hits(e)
                 PROVE  /\ slb[s].b = ea_2_seg_size(e)
                        /\ slb[s].base = ea_2_base_size(e)
                        /\ slb[s].vsid = ea_2_vsid(e)
      BY DEF SoftwareAgrees
    <2>1. s \in Slots /\ Hit(s, e) /\ cpu # "reset"
      BY DEF Hits, Stable, Contexts
    <2>2. CASE s = HV_SLOT /\ e = HV_ASPACE /\ slb[s] = HvEntry
      BY <2>2
      DEF HvEntry, SlbEntry, ea_2_seg_size, ea_2_base_size, ea_2_vsid, HV_ASPACE, AIL_ASPACE
    <2>3. CASE s = AIL_SLOT /\ e = AIL_ASPACE /\ slb[s] = AilEntry
      BY <2>3
      DEF AilEntry, SlbEntry, ea_2_seg_size, ea_2_base_size, ea_2_vsid, HV_ASPACE, AIL_ASPACE
    <2>4. CASE s = GRM_SLOT /\ e \in Segs /\ slb[s] = GrmEntry
      <3>1. guest_is_mmu_off(msr)
        BY <2>4, EntryFields DEF IInv, Modes, GrmValid
      <3> QED
        BY <2>4, <3>1
        DEF GrmEntry, SlbEntry, ea_2_seg_size, ea_2_base_size, ea_2_vsid, HV_ASPACE, AIL_ASPACE,
            Segs
    <2>5. CASE s = SR_INDEX_TO_SLB_SLOT(e) /\ e \in Segs /\ slb[s] = SrEntry(e)
      <3>1. ~guest_is_mmu_off(msr)
        BY <2>5, EntryFields DEF IInv, Modes, NoSrValid, SrValid
      <3> QED
        BY <2>5, <3>1
        DEF SrEntry, SlbEntry, ea_2_seg_size, ea_2_base_size, ea_2_vsid, HV_ASPACE, AIL_ASPACE,
            Segs
    <2> QED  BY <2>1, <2>2, <2>3, <2>4, <2>5, HitCases
  <1> QED  BY Invariance, <1>1, PTL

(* slbie always names the size of the entry that translates its address:   *)
(* an SR entry in the loop of mmu_guest_update, the real-mode one after it. *)
THEOREM SlbieExact == Spec => []SlbieUnambiguous
  <1>1. IInv => SlbieUnambiguous
    <2> SUFFICES ASSUME IInv PROVE SlbieUnambiguous
      OBVIOUS
    <2>1. ASSUME cpu = "slbie_sr", NEW s \in Hits(k) PROVE slb[s].b = "256M"
      <3>1. k \in Segs /\ k \in EAs /\ ~GrmValid
        BY <2>1 DEF IInv, TypeOK, Modes, Segs, EAs
      <3>2. s \in Slots /\ Hit(s, k) /\ slb[GRM_SLOT] # GrmEntry
        BY <2>1, <3>1, EntryFields DEF Hits, GrmValid
      <3>3. s = SR_INDEX_TO_SLB_SLOT(k) /\ slb[s] = SrEntry(k)
        BY <2>1, <3>1, <3>2, HitCases DEF HV_ASPACE, AIL_ASPACE, Segs
      <3> QED  BY <3>3 DEF SrEntry, SlbEntry
    <2>2. ASSUME cpu = "slbie_grm", NEW s \in Hits(LAYOUT_VM_START) PROVE slb[s].b = "1T"
      <3>1. LAYOUT_VM_START \in Segs /\ LAYOUT_VM_START \in EAs /\ NoSrValid
        BY <2>2, SrCountAssumption DEF IInv, Modes, Segs, EAs, LAYOUT_VM_START
      <3>2. s \in Slots /\ Hit(s, LAYOUT_VM_START) /\ s # SR_INDEX_TO_SLB_SLOT(LAYOUT_VM_START)
        BY <2>2, <3>1 DEF Hits, Hit, NoSrValid, SrValid
      <3>3. slb[s] = GrmEntry
        BY <2>2, <3>1, <3>2, HitCases DEF HV_ASPACE, AIL_ASPACE, Segs
      <3> QED  BY <3>3 DEF GrmEntry, SlbEntry
    <2> QED  BY <2>1, <2>2 DEF SlbieUnambiguous
  <1> QED  BY Invariance, <1>1, PTL

(* Each of guest_init's two mappings is entered under the VSID of the mode *)
(* it is for.                                                              *)
THEOREM BootMapsRight == Spec => []BootMapsBothModes
  <1>1. IInv => BootMapsBothModes
    BY SrCountAssumption
    DEF IInv, Modes, BootMapsBothModes, ea_2_vsid, LAYOUT_VM_START, Segs, HV_ASPACE, AIL_ASPACE
  <1> QED  BY Invariance, <1>1, PTL

(* No step after slb_init changes the hypervisor's own two entries.        *)
THEOREM HvEntriesKept == Spec => HvEntriesPinned
  <1>1. IInv /\ IInv' /\ [Next]_vars
          => [cpu # "reset" =>
                slb'[HV_SLOT] = slb[HV_SLOT] /\ slb'[AIL_SLOT] = slb[AIL_SLOT]]_vars
    <2> SUFFICES ASSUME IInv, IInv', [Next]_vars, cpu # "reset"
                 PROVE  slb'[HV_SLOT] = slb[HV_SLOT] /\ slb'[AIL_SLOT] = slb[AIL_SLOT]
      OBVIOUS
    <2>1. CASE Boot
      BY <2>1
      DEF Boot, slb_init, guest_init, guest_init_map_grm, guest_init_map_vm, StartGuest,
          guest_update_msr, mmu_guest_update, Halt
    <2>2. CASE Update
      BY <2>2 DEF Update, SlbieSr, SlbmteGrm, SlbieGrm, IInv, Modes, SlbShape
    <2>3. CASE Fault
      BY <2>3 DEF Fault, SegFault, mmu_guest_fault_seg, Halt, IInv, Modes, SlbShape, Contexts
    <2>4. CASE Guest
      BY <2>4
      DEF Guest, mtmsr, rfi, mtspr_srr1, mtspr_unhandled, OtherExc, sc, guest_update_msr,
          mmu_guest_update
    <2>5. CASE Rom \/ Halted \/ UNCHANGED vars
      BY <2>5 DEF Rom, rom_call_return, rom_call_exit, rom_call_map, Halted, vars
    <2> QED  BY <2>1, <2>2, <2>3, <2>4, <2>5 DEF Next
  <1> QED  BY Invariance, <1>1, PTL DEF Spec, HvEntriesPinned

=============================================================================
