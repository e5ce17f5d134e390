-------------------------------- MODULE Exc ---------------------------------
(***************************************************************************)
(* Exception entry, dispatch and return (exc-vecs.S, exc.c, and c_main     *)
(* where it starts the guest), from mmu_enable on.                         *)
(*                                                                         *)
(* The processor executes one of three pieces of code: "boot" (c_main and  *)
(* what it calls), "guest", and "rom" (rom_call for a system call of the   *)
(* guest). An exception goes through the vector, picks a stack, saves a    *)
(* frame, runs exc_handler and leaves through exc_rfi; all of them share   *)
(* HSPRG1, SRR0/1, HSRR0/1 and the frame at unrec_sp.                      *)
(*                                                                         *)
(* Registers other than r1 hold a token of the code that set them. The     *)
(* stack is a row of cells and grows down: a frame takes two cells (what   *)
(* the vector stashes, then the rest), STACKFRAMEMIN one. C code may       *)
(* overwrite every cell below its frame, and leaf functions the ZONE cells *)
(* below r1. A memory access faults if its 16M page is not mapped yet.     *)
(***************************************************************************)
EXTENDS Integers, Sequences, SequencesExt

CONSTANTS
    StackTop,       \* r1 of the boot code
    ZONE,           \* ABI_STACK_PROTECTED_ZONE in cells
    Pages,          \* 16M pages of the hypervisor that are faulted in
    Premapped,      \* what mmu_init maps
    GuestExcs       \* exceptions of guest code

ASSUME ExcAssumption ==
    /\ StackTop \in Nat /\ ZONE \in Nat
    /\ Premapped \subseteq Pages /\ {"heap", "guest", "unrec"} \subseteq Pages

(* The stack holds the frame of a client call, rom_call, and the frame of  *)
(* an exception of rom_call.                                               *)
ASSUME StackAssumption == StackTop >= ZONE + 7

(* exc_init allocates the page of unrec_sp among the first, where mmu_init *)
(* maps the image and the table.                                           *)
ASSUME UnrecAssumption == "unrec" \in Premapped

VARIABLES
    pc,             \* code that runs, or step of the exception path
    vec,            \* which vector that path was entered at
    msr,            \* hv: not the guest; ee; ri
    r,              \* r1, and scratch for r0, r2 and the others
    hsprg1, srr, hsrr,
    unrec,          \* the frame at unrec_sp
    mem,            \* the stack
    kern_sp,
    frame,          \* r3: the frame exc_handler and exc_rfi work on
    mapped,
    page,           \* what the last fault wanted (DAR, or HSRR0), and "none" if
                    \* that is below HV_ASPACE, or mapped and protected
    ctxs            \* ghost: the contexts that are interrupted, innermost last

sprs == <<hsprg1, srr, hsrr>>
vars == <<pc, vec, msr, r, hsprg1, srr, hsrr, unrec, mem, kern_sp, frame, mapped, page, ctxs>>

EFRAME == 2         \* eframe_sizeof in cells
STACKMIN == 1       \* STACKFRAMEMIN in cells
UNREC == -1         \* unrec_sp: not in the row of cells
GuestSp == StackTop + ZONE + EFRAME + 1     \* r1 of the guest, which has cells of its own
Cells == 0 .. GuestSp
Hv(ee, ri) == [hv |-> TRUE, ee |-> ee, ri |-> ri]
GuestMsr == [hv |-> FALSE, ee |-> TRUE, ri |-> TRUE]
Regs(r1, v) == [r0 |-> v, r1 |-> r1, r2 |-> v, rest |-> v]

HvVecs == {"HEA"}   \* the ones that set HSRR0 and HSRR1
Handled == {"DSI", "ISI", "DSEG", "ISEG", "DEC", "PROG", "HEA", "SC"}
MaxDepth == 4       \* bound on the ghost

Contexts == {"boot", "guest", "rom"}
Stash(v, r0, r2, at) == [vec |-> v, r0 |-> r0, r2 |-> r2, at |-> at]
Junk == [vec |-> "none", r0 |-> "junk", r2 |-> "junk", at |-> [pc |-> "junk", msr |-> Hv(FALSE, FALSE)]]

(* What an interrupted context must find again: its registers, where it    *)
(* was and, of hypervisor code, its stack and the zone below r1.           *)
Snapshot ==
    [pc |-> pc, msr |-> msr, r |-> r,
     live |-> [c \in {x \in DOMAIN mem : msr.hv /\ x >= r.r1 - ZONE} |-> mem[c]]]

(***************************************************************************)
(* Taking an exception: the hardware saves PC and MSR and clears EE, RI.   *)
(***************************************************************************)
Take(v) ==
    /\ LET at == [pc |-> pc, msr |-> msr]
       IN  IF v \in HvVecs THEN hsrr' = at /\ UNCHANGED srr ELSE srr' = at /\ UNCHANGED hsrr
    /\ msr' = Hv(FALSE, FALSE)
    /\ pc' = "vec" /\ vec' = v
    /\ ctxs' = IF Len(ctxs) < MaxDepth THEN Append(ctxs, Snapshot) ELSE ctxs
    /\ UNCHANGED <<r, hsprg1, unrec, mem, kern_sp, frame, mapped>>

(* A decrementer interrupt, when they are enabled.                         *)
Dec == msr.ee /\ Take("DEC") /\ UNCHANGED page

(* A machine check comes at any time; nothing survives it.                 *)
MachineCheck == pc # "hang" /\ (pc \in Contexts \/ vec # "MC") /\ Take("MC") /\ UNCHANGED page

(* Guest code traps, makes a call or misses a segment.                     *)
GuestExc(v) == pc = "guest" /\ Take(v) /\ UNCHANGED page

(* rom_call touches guest memory whose segment is not in the SLB.          *)
RomSegMiss == pc = "rom" /\ Len(ctxs) = 1 /\ Take("DSEG") /\ UNCHANGED page

(* The guest, or rom_call on a pointer of the guest, uses an address below *)
(* HV_ASPACE that nothing translates or that is protected.                 *)
GuestFault(v) ==
    /\ pc = "guest" \/ (pc = "rom" /\ v = "DSI")
    /\ Take(v) /\ page' = "none"

(* Hypervisor code loads, stores or jumps to a page that is not mapped.    *)
HvFault(v, p) ==
    /\ pc \in {"boot", "rom"} /\ p \notin mapped
    /\ Take(v) /\ page' = p

(***************************************************************************)
(* The vector. DEF_EXC: r1 to HSPRG1, unrec_sp into r1, r0, r2 and the     *)
(* number into the frame there, then SRR0/1 or HSRR0/1.                    *)
(***************************************************************************)
DEF_EXC ==
    /\ pc = "vec"
    /\ IF "unrec" \in mapped
       THEN /\ hsprg1' = r.r1
            /\ unrec' = [unrec EXCEPT !.stash = Stash(vec, r.r0, r.r2, [pc |-> "junk", msr |-> Hv(FALSE, FALSE)])]
            /\ r' = [r EXCEPT !.r1 = UNREC, !.r0 = "junk"]
            /\ pc' = "sys"
            /\ UNCHANGED <<vec, msr, srr, hsrr, mem, kern_sp, frame, mapped, page, ctxs>>
       ELSE Take("DSI") /\ page' = "unrec"

exc_sys ==
    /\ pc = "sys"
    /\ unrec' = [unrec EXCEPT !.stash.at = IF vec \in HvVecs THEN hsrr ELSE srr]
    /\ pc' = "cont"
    /\ UNCHANGED <<vec, msr, r, hsprg1, srr, hsrr, mem, kern_sp, frame, mapped, page, ctxs>>

(* Bug: the zone below the interrupted r1 is not respected.                *)
StackFor_NoZone(at) ==
    IF ~at.msr.ri THEN UNREC
    ELSE IF ~at.msr.hv THEN kern_sp - EFRAME
    ELSE hsprg1 - EFRAME

(* Where the frame goes. Without RI it stays at unrec_sp.                  *)
StackFor(at) ==
    IF ~at.msr.ri THEN UNREC
    ELSE IF ~at.msr.hv THEN kern_sp - EFRAME
    ELSE hsprg1 - ZONE - EFRAME

copy_stashed(base) ==
    /\ r' = [r EXCEPT !.r1 = base, !.r2 = "junk"]
    /\ mem' = IF base = UNREC THEN mem ELSE [mem EXCEPT ![base] = unrec.stash]

exc_cont ==
    /\ pc = "cont"
    /\ copy_stashed(StackFor(unrec.stash.at))
    /\ pc' = "save"
    /\ UNCHANGED <<vec, msr, hsprg1, srr, hsrr, unrec, kern_sp, frame, mapped, page, ctxs>>

(* The other registers; r1 comes out of HSPRG1. exc_handler gets the frame.*)
exc_more_save ==
    LET rest == [r1 |-> hsprg1, rest |-> r.rest]
    IN  /\ pc = "save"
        /\ IF r.r1 = UNREC THEN unrec' = [unrec EXCEPT !.rest = rest] /\ UNCHANGED mem
           ELSE mem' = [mem EXCEPT ![r.r1 + 1] = rest] /\ UNCHANGED unrec
        /\ frame' = r.r1
        /\ r' = Regs(r.r1 - STACKMIN, "junk")
        /\ pc' = "handler"
        /\ UNCHANGED <<vec, msr, hsprg1, srr, hsrr, kern_sp, mapped, page, ctxs>>

(***************************************************************************)
(* exc_handler and guest_exc_try. Their C code runs below the frame.       *)
(***************************************************************************)
FrameStash == IF frame = UNREC THEN unrec.stash ELSE mem[frame]
FrameRest == IF frame = UNREC THEN unrec.rest ELSE mem[frame + 1]
Below(c) == [x \in DOMAIN mem |-> IF x < c THEN Junk ELSE mem[x]]
Handle(vecs) == pc = "handler" /\ FrameStash.at.msr.ri /\ FrameStash.vec \in vecs

(* The frame is unchanged: mmu_guest_fault_seg, mmu_map, time_handle.      *)
Resolve(vecs, pages) ==
    /\ Handle(vecs)
    /\ mem' = Below(frame)
    /\ mapped' = mapped \cup pages
    /\ pc' = "rfi1"
    /\ UNCHANGED <<vec, msr, r, hsprg1, srr, hsrr, unrec, kern_sp, frame, page, ctxs>>

(* Only what lies in the hypervisor's region and is not mapped is mapped;  *)
(* the BUGs of mmu_map are in Htab.                                        *)
handle_page == page # "none" /\ Resolve({"DSI", "ISI"}, {page})
guest_fault_seg == Resolve({"DSEG", "ISEG"}, {})
handle_dec == Resolve({"DEC"}, {})

(* The frame is edited: hsrr0 moves on, a register gets a value.           *)
Edited == [FrameRest EXCEPT !.rest = "answer"]
GhostEdited == [ctxs EXCEPT ![Len(ctxs)].r.rest = "answer"]

(* A privileged instruction that guest_exc_try knows reads and writes the  *)
(* guest structure.                                                        *)
emulate ==
    /\ Handle({"PROG", "HEA"})
    /\ IF "guest" \in mapped
       THEN /\ mem' = [Below(frame) EXCEPT ![frame + 1] = Edited]
            /\ ctxs' = GhostEdited
            /\ pc' = "rfi1"
            /\ UNCHANGED <<vec, msr, r, hsprg1, srr, hsrr, unrec, kern_sp, frame, mapped, page>>
       ELSE Take("DSI") /\ page' = "guest"

(* Bug: rom_call runs with RI clear.                                       *)
RomMsr_NoRi == Hv(FALSE, FALSE)

(* mtmsrd(MSR_RI, 1) around rom_call.                                      *)
RomMsr == Hv(FALSE, TRUE)

(* EXC_SC: rom_call runs with RI set, some way down the stack. A call that *)
(* does not return ("exit", a BUG) runs for ever.                          *)
guest_sc(depth) ==
    /\ Handle({"SC"})
    /\ msr' = RomMsr
    /\ pc' = "rom"
    /\ r' = Regs(r.r1 - depth, "rom")
    /\ mem' = [Below(frame) EXCEPT ![r.r1 - depth] = [Junk EXCEPT !.vec = "own"],
                                   ![r.r1 - depth - ZONE] = [Junk EXCEPT !.vec = "own"]]
    /\ UNCHANGED <<vec, hsprg1, srr, hsrr, unrec, kern_sp, frame, mapped, page, ctxs>>

(* rom_call has answered in its argument, the frame of the guest: nested   *)
(* exceptions had frames of their own. RI is cleared again.                *)
rom_return ==
    /\ pc = "rom"
    /\ msr' = Hv(FALSE, FALSE)
    /\ frame' = kern_sp - EFRAME
    /\ mem' = [Below(kern_sp - EFRAME) EXCEPT ![kern_sp - EFRAME + 1].rest = "answer"]
    /\ ctxs' = GhostEdited
    /\ pc' = "rfi1"
    /\ UNCHANGED <<vec, r, hsprg1, srr, hsrr, unrec, kern_sp, mapped, page>>

(* What a handler may decline: an instruction or register guest_exc_try    *)
(* does not know; a segment that is there or is not the guest's, of which  *)
(* GuestMmu has the conditions; a storage fault that is not to be mapped.  *)
Declined ==
    \/ FrameStash.vec \in {"PROG", "HEA", "DSEG", "ISEG"}
    \/ FrameStash.vec \in {"DSI", "ISI"} /\ page = "none"

(* Not recoverable, declined, or nothing handles it.                       *)
bad ==
    /\ pc = "handler"
    /\ ~FrameStash.at.msr.ri \/ FrameStash.vec \notin Handled \/ Declined
    /\ pc' = "hang"
    /\ UNCHANGED <<vec, msr, r, hsprg1, srr, hsrr, unrec, mem, kern_sp, frame, mapped, page, ctxs>>

(***************************************************************************)
(* exc_rfi: HSRR0/1, then the registers, then hrfid.                       *)
(***************************************************************************)
RfiStep(from, to) == pc = from /\ pc' = to /\ UNCHANGED <<vec, msr, srr, unrec, kern_sp, mem, frame, mapped, page, ctxs>>

rfi_hsrr == RfiStep("rfi1", "rfi2") /\ hsrr' = FrameStash.at /\ UNCHANGED <<r, hsprg1>>

rfi_regs ==
    /\ RfiStep("rfi2", "rfi3")
    /\ r' = [r0 |-> FrameStash.r0, r1 |-> FrameRest.r1, r2 |-> FrameStash.r2, rest |-> FrameRest.rest]
    /\ UNCHANGED <<hsprg1, hsrr>>

hrfid ==
    /\ pc = "rfi3"
    /\ pc' = hsrr.pc /\ msr' = hsrr.msr
    /\ ctxs' = Front(ctxs)
    /\ UNCHANGED <<vec, r, hsprg1, srr, hsrr, unrec, mem, kern_sp, frame, mapped, page>>

(***************************************************************************)
(* The boot code.                                                          *)
(***************************************************************************)
OnlyMsr == UNCHANGED <<pc, vec, r, hsprg1, srr, hsrr, unrec, mem, kern_sp, frame, mapped, page, ctxs>>
exc_enable_ee == pc = "boot" /\ ~msr.ee /\ msr' = Hv(TRUE, TRUE) /\ OnlyMsr
exc_disable_ee == pc = "boot" /\ msr.ee /\ msr' = Hv(FALSE, TRUE) /\ OnlyMsr

(* Where uframe starts the guest: the MSR of c_main, before it disables    *)
(* interrupts, with PR.                                                    *)
uframe_start == [pc |-> "guest", msr |-> GuestMsr]

(* c_main: guest_init and rom_init have used their pages; uframe is a      *)
(* local of c_main and kern_sp its address.                                *)
c_main ==
    LET uframe == StackTop - 1
    IN  /\ pc = "boot" /\ {"heap", "guest"} \subseteq mapped
        /\ kern_sp' = uframe /\ frame' = uframe
        /\ mem' = [mem EXCEPT ![uframe] = Stash("none", "u", "u", uframe_start),
                              ![uframe + 1] = [r1 |-> GuestSp, rest |-> "u"]]
        /\ ctxs' = <<[pc |-> "guest", msr |-> GuestMsr, r |-> Regs(GuestSp, "u"), live |-> <<>>]>>
        /\ msr' = Hv(FALSE, TRUE)
        /\ pc' = "rfi1"
        /\ UNCHANGED <<vec, r, hsprg1, srr, hsrr, unrec, mapped, page>>

(* Bug: the page exc_init got for unrec_sp is left to be faulted in.       *)
mmu_init_NoUnrec == Premapped \ {"unrec"}

(* The pages of the table, the image and, if it lies there, unrec_sp.      *)
mmu_init == Premapped

(* exc_init has set RI and mmu_enable has turned the MMU on.               *)
Init ==
    /\ pc = "boot" /\ vec = "none" /\ msr = Hv(FALSE, TRUE) /\ r = Regs(StackTop - 2, "boot")
    /\ hsprg1 = 0 /\ srr = Junk.at /\ hsrr = Junk.at
    /\ unrec = [stash |-> Junk, rest |-> Junk]
    /\ mem = [c \in Cells |-> [Junk EXCEPT !.vec = "own"]]
    /\ kern_sp = 0 /\ frame = UNREC /\ mapped = mmu_init /\ page = "heap" /\ ctxs = <<>>

Vector == DEF_EXC \/ exc_sys \/ exc_cont \/ exc_more_save
Handler == guest_fault_seg \/ handle_page \/ handle_dec \/ emulate \/ bad
Return == rfi_hsrr \/ rfi_regs \/ hrfid
Cpu == Vector \/ Handler \/ (\E d \in 0 .. 1 : guest_sc(d)) \/ Return

Next ==
    \/ Cpu
    \/ rom_return \/ c_main \/ exc_enable_ee \/ exc_disable_ee
    \/ Dec \/ MachineCheck \/ RomSegMiss
    \/ \E v \in GuestExcs : GuestExc(v)
    \/ \E v \in {"DSI", "ISI"} : GuestFault(v) \/ \E p \in Pages : HvFault(v, p)

(* The processor goes on executing the exception path.                     *)
Spec == Init /\ [][Next]_vars /\ WF_vars(Cpu)

-----------------------------------------------------------------------------
Steps == {"vec", "sys", "cont", "save", "handler", "rfi1", "rfi2", "rfi3"}

(* Every variable has its type.                                            *)
TypeOK ==
    /\ pc \in Contexts \cup Steps \cup {"hang"}
    /\ msr \in [hv : BOOLEAN, ee : BOOLEAN, ri : BOOLEAN]
    /\ r.r1 \in -2 .. GuestSp /\ kern_sp \in 0 .. StackTop /\ frame \in -1 .. GuestSp
    /\ DOMAIN mem = Cells /\ mapped \subseteq Pages /\ Len(ctxs) <= MaxDepth

(* When exc_rfi is about to return, the registers, PC and MSR it gives     *)
(* back are those of the code that was interrupted, but for what an        *)
(* emulated instruction or a client call answered, and that code's stack   *)
(* is as it was, the zone leaf functions use below r1 included. Nested     *)
(* exceptions share one save area, HSPRG1 and HSRR0/1 on the way here.     *)
ContextRestored ==
    pc = "rfi3" =>
        LET c == Last(ctxs)
        IN  /\ hsrr = [pc |-> c.pc, msr |-> c.msr] /\ r = c.r
            /\ \A x \in DOMAIN c.live : mem[x] = c.live[x]

(* exc_handler never gives up because an exception hit it at a bad moment: *)
(* of what it handles it hangs only on what came with RI set and was       *)
(* declined for what it asks. A decrementer, a call, a page of the         *)
(* hypervisor's region never end there, no handler faults while RI is      *)
(* clear, and rom_call, which does fault, may.                             *)
OnlyFatalHangs ==
    TypeOK /\ (pc = "hang" => FrameStash.vec \notin Handled \/ (FrameStash.at.msr.ri /\ Declined))

(* Every exception is over at some point: the vector does not fault over   *)
(* and over, exc_handler leaves through exc_rfi or hangs.                  *)
ExceptionsEnd == pc \notin Contexts ~> pc \in Contexts \cup {"hang"}
=============================================================================
