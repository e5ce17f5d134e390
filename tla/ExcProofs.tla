----------------------------- MODULE ExcProofs ------------------------------
(***************************************************************************)
(* That every exception gives the interrupted code back what it had, and   *)
(* that no exception hangs the machine because of when it came, for every  *)
(* size of the stack and of the protected zone, every set of pages and     *)
(* every set of guest exceptions.                                          *)
(***************************************************************************)
EXTENDS Exc, SequenceTheorems, TLAPS

Entering == {"vec", "sys", "cont", "save", "handler"}
Leaving == {"rfi1", "rfi2", "rfi3"}
Dying == vec = "MC" /\ pc \in Entering

(* Code that can be interrupted and resumed: k is kern_sp, p, m and rr its *)
(* PC, MSR and registers.                                                  *)
Running(k, p, m, rr) ==
    /\ rr = [r0 |-> rr.r0, r1 |-> rr.r1, r2 |-> rr.r2, rest |-> rr.rest]
    /\ \/ p = "boot" /\ m \in {Hv(FALSE, TRUE), Hv(TRUE, TRUE)} /\ rr.r1 = StackTop - 2 /\ k = 0
       \/ p = "guest" /\ m = GuestMsr /\ rr.r1 = GuestSp /\ k = StackTop - 1
       \/ p = "rom" /\ m = Hv(FALSE, TRUE) /\ rr.r1 \in {StackTop - 4, StackTop - 5} /\ k = StackTop - 1

At(c) == [pc |-> c.pc, msr |-> c.msr]
CtxOK(k, c) ==
    /\ c = [pc |-> c.pc, msr |-> c.msr, r |-> c.r, live |-> c.live]
    /\ Running(k, c.pc, c.msr, c.r)
    /\ \A x \in DOMAIN c.live : x \in Cells /\ c.msr.hv /\ x >= c.r.r1 - ZONE

(* Where the frame of context c goes; that it is at f in memory mm; that   *)
(* mm still has what c left on the stack.                                  *)
FrameFor(k, c) == IF c.msr.hv THEN c.r.r1 - ZONE - EFRAME ELSE k - EFRAME
Holds(mm, f, c) ==
    /\ mm[f] = Stash(mm[f].vec, c.r.r0, c.r.r2, At(c))
    /\ mm[f + 1] = [r1 |-> c.r.r1, rest |-> c.r.rest]
Live(mm, c) == \A x \in DOMAIN c.live : mm[x] = c.live[x]

IsSeq(s) == s \in Seq(Range(s))
Depth == Len(ctxs)
Top == ctxs[Depth]
Saved == IF vec \in HvVecs THEN hsrr ELSE srr

-----------------------------------------------------------------------------
(* The inductive invariant.                                                *)
Shape ==
    /\ mem = [x \in Cells |-> mem[x]]
    /\ unrec = [stash |-> unrec.stash, rest |-> unrec.rest]
    /\ unrec.stash = Stash(unrec.stash.vec, unrec.stash.r0, unrec.stash.r2, unrec.stash.at)
    /\ r = [r0 |-> r.r0, r1 |-> r.r1, r2 |-> r.r2, rest |-> r.rest]
    /\ IsSeq(ctxs) /\ kern_sp \in {0, StackTop - 1}

(* The vector and the emulation find their pages mapped.                   *)
Mapping ==
    /\ "unrec" \in mapped /\ page \in Pages \cup {"none"}
    /\ kern_sp = StackTop - 1 => "guest" \in mapped

(* Only rom_call runs with an exception open, and only it can be           *)
(* interrupted once more; the frame of the guest is safe meanwhile.        *)
Nesting ==
    /\ pc \in Contexts => Running(kern_sp, pc, msr, r)
    /\ pc \in {"boot", "guest"} => Depth = 0
    /\ pc = "rom" => Depth = 1
    /\ pc \in Entering \cup Leaving /\ ~Dying => Depth \in 1 .. 2
    /\ pc # "hang" /\ ~Dying =>
        /\ \A i \in 1 .. Depth : CtxOK(kern_sp, ctxs[i]) /\ (ctxs[i].pc = "rom" <=> i = 2)
        /\ pc = "rom" \/ Depth = 2 => ctxs[1].pc = "guest" /\ Holds(mem, kern_sp - EFRAME, ctxs[1])

(* RI is clear on the exception path, but for the first entry of the guest.*)
PathMsr ==
    /\ pc \in Entering \cup {"hang"} => msr = Hv(FALSE, FALSE)
    /\ pc \in Leaving => msr = Hv(FALSE, FALSE) \/ (msr = Hv(FALSE, TRUE) /\ r.r1 \in {StackTop - 2, GuestSp, StackTop - 4, StackTop - 5})

(* A machine check finds room for a frame, and its number is in it.        *)
Room(k, at, sp) ==
    at.msr.ri => (IF at.msr.hv THEN sp - ZONE ELSE k) - EFRAME \in 0 .. GuestSp - 1
Dies ==
    Dying =>
        /\ pc = "vec" => Room(kern_sp, Saved, r.r1)
        /\ pc = "sys" => Room(kern_sp, Saved, hsprg1)
        /\ pc = "cont" => Room(kern_sp, unrec.stash.at, hsprg1)
        /\ pc = "save" => r.r1 = UNREC \/ (r.r1 \in 0 .. GuestSp - 1 /\ mem[r.r1].vec = "MC")
        /\ pc \in {"sys", "cont", "save", "handler"} => unrec.stash.vec = "MC"
        /\ pc = "handler" => FrameStash.vec = "MC"

(* On the way in: where each part of the interrupted context is.           *)
Enters ==
    pc \in Entering /\ vec # "MC" =>
        /\ vec \in {"PROG", "HEA", "SC"} => Top.pc = "guest"
        /\ Live(mem, Top)
        /\ pc = "vec" => r = Top.r
        /\ pc \in {"vec", "sys"} => Saved = At(Top)
        /\ pc \in {"sys", "cont", "save"} => hsprg1 = Top.r.r1 /\ r.rest = Top.r.rest
        /\ pc \in {"sys", "cont"} => unrec.stash = Stash(vec, Top.r.r0, Top.r.r2, unrec.stash.at)
        /\ pc = "cont" => unrec.stash.at = At(Top)
        /\ pc = "save" => r.r1 = FrameFor(kern_sp, Top) /\ mem[r.r1] = Stash(vec, Top.r.r0, Top.r.r2, At(Top))
        /\ pc = "handler" =>
            /\ frame = FrameFor(kern_sp, Top) /\ r.r1 = frame - STACKMIN
            /\ Holds(mem, frame, Top) /\ mem[frame].vec = vec

(* On the way out: the frame has it all, and it comes back part by part.   *)
Leaves ==
    pc \in Leaving =>
        /\ frame \in {FrameFor(kern_sp, Top), kern_sp} /\ frame \in 0 .. StackTop
        /\ Live(mem, Top)
        /\ Holds(mem, frame, Top)
        /\ pc \in {"rfi2", "rfi3"} => hsrr = At(Top)
        /\ pc = "rfi3" => r = Top.r

Hangs == pc = "hang" => FrameStash.vec \notin Handled \/ (FrameStash.at.msr.ri /\ Declined)

(* TypeOK, with the length of the ghost named.                             *)
Types ==
    /\ pc \in Contexts \cup Steps \cup {"hang"}
    /\ msr \in [hv : BOOLEAN, ee : BOOLEAN, ri : BOOLEAN]
    /\ r.r1 \in -2 .. GuestSp /\ kern_sp \in 0 .. StackTop /\ frame \in -1 .. GuestSp
    /\ DOMAIN mem = Cells /\ mapped \subseteq Pages /\ Depth \in 0 .. MaxDepth

IInv == Types /\ Shape /\ Mapping /\ Nesting /\ PathMsr /\ Dies /\ Enters /\ Leaves /\ Hangs

-----------------------------------------------------------------------------
(* The sequence of open contexts.                                          *)
LEMMA SeqRange ==
    ASSUME NEW S, NEW s \in Seq(S)
    PROVE  IsSeq(s) /\ Len(s) \in Nat
BY DEF IsSeq, Range

(* Appending to a sequence whatever its elements are.                      *)
LEMMA SeqAppend ==
    ASSUME NEW s, IsSeq(s), NEW e
    PROVE  /\ IsSeq(Append(s, e)) /\ Len(s) \in Nat /\ Len(Append(s, e)) = Len(s) + 1
           /\ Append(s, e)[Len(s) + 1] = e
           /\ \A i \in 1 .. Len(s) : Append(s, e)[i] = s[i]
<1> DEFINE S == Range(s) \cup {e}
<1>1. s \in Seq(S)
  BY DEF IsSeq, Range
<1> HIDE DEF S
<1>2. /\ Append(s, e) \in Seq(S \cup {e}) /\ Len(s) \in Nat /\ Len(Append(s, e)) = Len(s) + 1
      /\ Append(s, e)[Len(s) + 1] = e /\ \A i \in 1 .. Len(s) : Append(s, e)[i] = s[i]
  BY <1>1
<1> QED
  BY <1>2, SeqRange

(* Front drops the last element and nothing else.                          *)
LEMMA SeqButLast ==
    ASSUME NEW S, NEW s \in Seq(S), Len(s) >= 1
    PROVE  /\ Front(s) \in Seq(S) /\ Len(Front(s)) = Len(s) - 1
           /\ \A i \in 1 .. Len(s) - 1 : Front(s)[i] = s[i]
<1>1. Len(SubSeq(s, 1, Len(s) - 1)) = IF 1 <= Len(s) - 1 THEN Len(s) - 1 - 1 + 1 ELSE 0
  BY SubSeqProperties
<1>2. Len(SubSeq(s, 1, Len(s) - 1)) = Len(s) - 1
  BY <1>1
<1>3. Front(s) \in Seq(S) /\ \A i \in 1 .. Len(s) - 1 : Front(s)[i] = s[i]
  BY DEF Front
<1> QED
  BY <1>2, <1>3 DEF Front

(* The same for a sequence whatever its elements are.                      *)
LEMMA SeqFront ==
    ASSUME NEW s, IsSeq(s), Len(s) >= 1
    PROVE  /\ IsSeq(Front(s)) /\ Len(Front(s)) = Len(s) - 1
           /\ \A i \in 1 .. Len(s) - 1 : Front(s)[i] = s[i]
<1>1. s \in Seq(Range(s))
  BY DEF IsSeq
<1> QED
  BY <1>1, SeqButLast, SeqRange, Zenon

(* Updating one element leaves the length and the others.                  *)
LEMMA SeqExcept ==
    ASSUME NEW s, IsSeq(s), NEW n \in 1 .. Len(s), NEW e, NEW t, t = [s EXCEPT ![n] = e]
    PROVE  /\ IsSeq(t) /\ Len(t) = Len(s) /\ t[n] = e
           /\ \A i \in 1 .. Len(s) : i # n => t[i] = s[i]
<1> DEFINE S == Range(s) \cup {e}
<1>1. s \in Seq(S) /\ e \in S
  BY DEF IsSeq, Range
<1> HIDE DEF S
<1>2. /\ t \in Seq(S) /\ Len(t) = Len(s) /\ t[n] = e
      /\ \A i \in 1 .. Len(s) : i # n => t[i] = s[i]
  BY <1>1
<1> QED
  BY <1>2, SeqRange

(* What can be interrupted is recoverable, has room for its frame, and its *)
(* stack lies above that frame; the frame of rom_call is below the guest's.*)
LEMMA CtxFacts ==
    ASSUME NEW k, NEW c, CtxOK(k, c)
    PROVE  /\ c.msr.ri
           /\ k \in {0, StackTop - 1} /\ FrameFor(k, c) \in 0 .. StackTop - 2
           /\ c.pc \in Contexts /\ c.r.r1 \in Int
           /\ \A x \in DOMAIN c.live : x \in Cells /\ x >= FrameFor(k, c) + EFRAME
           /\ c.pc = "rom" => FrameFor(k, c) + EFRAME < k - EFRAME
           /\ c.pc # "boot" => k = StackTop - 1
           /\ c.pc = "guest" => FrameFor(k, c) = k - EFRAME /\ ~c.msr.hv /\ DOMAIN c.live = {}
BY ExcAssumption, StackAssumption DEF CtxOK, Running, FrameFor, Hv, GuestMsr, Cells, GuestSp, EFRAME, Contexts

(* A context stays intact while nothing above its frame is written.        *)
LEMMA LiveKept ==
    ASSUME NEW k, NEW c, CtxOK(k, c), NEW m1, NEW m2, Live(m1, c),
           \A x \in Cells : x >= FrameFor(k, c) + EFRAME => m2[x] = m1[x]
    PROVE  Live(m2, c)
BY CtxFacts DEF Live

(* A frame still holds a context if its two cells are unchanged.           *)
LEMMA HoldsKept ==
    ASSUME NEW f, NEW c, NEW m1, NEW m2, Holds(m1, f, c), m2[f] = m1[f], m2[f + 1] = m1[f + 1]
    PROVE  Holds(m2, f, c)
BY DEF Holds

(* The frame of the guest is above that of rom_call.                       *)
LEMMA OuterKept ==
    ASSUME NEW k, NEW c, CtxOK(k, c), c.pc = "rom", NEW d, NEW m1, NEW m2, Holds(m1, k - EFRAME, d),
           \A x \in Cells : x >= FrameFor(k, c) + EFRAME => m2[x] = m1[x]
    PROVE  Holds(m2, k - EFRAME, d)
<1>1. /\ k - EFRAME \in Cells /\ k - EFRAME + 1 \in Cells
      /\ k - EFRAME >= FrameFor(k, c) + EFRAME /\ k - EFRAME + 1 >= FrameFor(k, c) + EFRAME
  BY CtxFacts, ExcAssumption, StackAssumption DEF EFRAME, Cells, GuestSp
<1> QED
  BY <1>1, HoldsKept

(* A store changes one cell.                                               *)
LEMMA MemWrite ==
    ASSUME NEW m, m = [x \in Cells |-> m[x]], NEW a \in Cells, NEW e, NEW m2, m2 = [m EXCEPT ![a] = e]
    PROVE  /\ m2 = [x \in Cells |-> m2[x]] /\ DOMAIN m2 = Cells /\ m2[a] = e
           /\ \A x \in Cells : x # a => m2[x] = m[x]
OBVIOUS

(* Contexts have distinct places from steps of the path.                   *)
LEMMA Places == Contexts \cap (Entering \cup Leaving \cup {"hang"}) = {} /\ Entering \cap Leaving = {}
BY DEF Contexts, Entering, Leaving

(* The MSR values the code loads are of the type of an MSR.                *)
LEMMA MsrValues ==
    /\ GuestMsr \in [hv : BOOLEAN, ee : BOOLEAN, ri : BOOLEAN]
    /\ \A ee, ri \in BOOLEAN : Hv(ee, ri) \in [hv : BOOLEAN, ee : BOOLEAN, ri : BOOLEAN]
BY DEF GuestMsr, Hv

(* The guest starts with no exception taken.                               *)
LEMMA InitInv == Init => IInv
<1> SUFFICES ASSUME Init PROVE IInv
  OBVIOUS
<1> USE ExcAssumption, StackAssumption, UnrecAssumption
<1>0. Depth = 0
  BY DEF Init, Depth
<1>1. Types
  <2>1. msr \in [hv : BOOLEAN, ee : BOOLEAN, ri : BOOLEAN]
    BY DEF Init, Hv
  <2>2. DOMAIN mem = Cells
    BY DEF Init
  <2>3. r.r1 \in -2 .. GuestSp /\ kern_sp \in 0 .. StackTop /\ frame \in -1 .. GuestSp
    <3>1. r.r1 = StackTop - 2 /\ kern_sp = 0 /\ frame = -1
      BY DEF Init, Regs, UNREC
    <3> QED
      BY <3>1 DEF GuestSp, EFRAME
  <2>4. pc \in Contexts /\ mapped \subseteq Pages
    BY DEF Init, Contexts, mmu_init
  <2> QED
    BY <1>0, <2>1, <2>2, <2>3, <2>4 DEF Types, MaxDepth
<1>2. Shape
  <2>1. IsSeq(ctxs)
    BY SeqRange, << >> \in Seq({}) DEF Init
  <2>2. mem = [x \in Cells |-> mem[x]]
    BY DEF Init
  <2>3. unrec.stash = Junk /\ unrec = [stash |-> unrec.stash, rest |-> unrec.rest]
    BY DEF Init
  <2>4. Junk = Stash(Junk.vec, Junk.r0, Junk.r2, Junk.at)
    BY DEF Junk, Stash
  <2> QED
    BY <2>1, <2>2, <2>3, <2>4 DEF Init, Shape, Regs
<1>3. Mapping
  BY DEF Init, Mapping, mmu_init
<1>4. Nesting
  BY <1>0 DEF Init, Nesting, Running, Regs, Entering, Leaving, Contexts
<1>5. PathMsr /\ Dies /\ Enters /\ Leaves /\ Hangs
  BY DEF Init, PathMsr, Dies, Dying, Enters, Leaves, Hangs, Entering, Leaving
<1> QED
  BY <1>1, <1>2, <1>3, <1>4, <1>5 DEF IInv

-----------------------------------------------------------------------------
(* Taking an exception of code that can be interrupted.                    *)
LEMMA TakeInv ==
    ASSUME IInv, pc \in Contexts, NEW v, Take(v), page' \in Pages \cup {"none"},
           v \in {"PROG", "HEA", "SC"} => pc = "guest"
    PROVE  IInv'
<1> USE ExcAssumption, StackAssumption
<1>1. /\ IsSeq(ctxs) /\ Depth \in 0 .. 1 /\ Running(kern_sp, pc, msr, r)
      /\ (Depth = 1 <=> pc = "rom") /\ DOMAIN mem = Cells
  <2>1. IsSeq(ctxs) /\ Running(kern_sp, pc, msr, r) /\ DOMAIN mem = Cells
    BY DEF IInv, Shape, Nesting, Types
  <2>2. (pc = "rom" => Depth = 1) /\ (pc # "rom" => Depth = 0)
    BY DEF IInv, Nesting, Contexts
  <2> QED
    BY <2>1, <2>2
<1>2. /\ ctxs' = Append(ctxs, Snapshot) /\ IsSeq(ctxs') /\ Depth' = Depth + 1
      /\ Top' = Snapshot /\ \A i \in 1 .. Depth : ctxs'[i] = ctxs[i]
  <2>1. ctxs' = IF Len(ctxs) < MaxDepth THEN Append(ctxs, Snapshot) ELSE ctxs
    BY DEF Take
  <2>a. Len(ctxs) < MaxDepth
    <3>1. Depth < MaxDepth
      BY <1>1 DEF MaxDepth
    <3> QED
      BY <3>1 DEF Depth
  <2>2. ctxs' = Append(ctxs, Snapshot)
    BY <2>1, <2>a, Zenon
  <2> QED
    BY <1>1, <2>2, SeqAppend DEF Top, Depth
<1>3. CtxOK(kern_sp, Snapshot) /\ Live(mem, Snapshot) /\ Snapshot.pc = pc /\ Snapshot.r = r /\ At(Snapshot) = [pc |-> pc, msr |-> msr]
  BY <1>1 DEF CtxOK, Live, Snapshot, At
<1>4. /\ pc' = "vec" /\ vec' = v /\ msr' = Hv(FALSE, FALSE) /\ Saved' = [pc |-> pc, msr |-> msr]
      /\ UNCHANGED <<r, hsprg1, unrec, mem, kern_sp, frame, mapped>>
  BY DEF Take, Saved
<1>5. Types'
  BY <1>1, <1>2, <1>4 DEF IInv, Types, Steps, MaxDepth, Hv
<1>6. Shape' /\ Mapping'
  BY <1>2, <1>4 DEF IInv, Shape, Mapping
<1>7. PathMsr' /\ Leaves' /\ Hangs'
  BY <1>4 DEF PathMsr, Leaves, Leaving, Hangs
<1>8. Dies'
  <2>1. Room(kern_sp, [pc |-> pc, msr |-> msr], r.r1)
    BY <1>1 DEF Room, Running, Hv, GuestMsr, GuestSp, EFRAME
  <2> QED
    BY <2>1, <1>4 DEF Dies
<1>9. Enters'
  BY <1>2, <1>3, <1>4 DEF Enters
<1>10. Nesting'
  <2>1. \A i \in 1 .. Depth : CtxOK(kern_sp, ctxs[i]) /\ ctxs[i].pc # "rom"
    BY <1>1, Places DEF IInv, Nesting, Dying
  <2>2. pc = "rom" => ctxs[1].pc = "guest" /\ Holds(mem, kern_sp - EFRAME, ctxs[1])
    BY Places DEF IInv, Nesting, Dying
  <2>3. \A i \in 1 .. Depth' : CtxOK(kern_sp, ctxs'[i]) /\ (ctxs'[i].pc = "rom" <=> i = 2)
    <3> SUFFICES ASSUME NEW i \in 1 .. Depth'
                 PROVE  CtxOK(kern_sp, ctxs'[i]) /\ (ctxs'[i].pc = "rom" <=> i = 2)
      OBVIOUS
    <3>1. CASE i = Depth'
      <4>1. ctxs'[i] = Snapshot
        BY <3>1, <1>2 DEF Top
      <4>2. i = 2 <=> pc = "rom"
        BY <3>1, <1>1, <1>2
      <4> QED
        BY <4>1, <4>2, <1>3
    <3>2. CASE i # Depth'
      BY <3>2, <1>1, <1>2, <2>1
    <3> QED
      BY <3>1, <3>2
  <2>4. Depth' = 2 => ctxs'[1].pc = "guest" /\ Holds(mem, kern_sp - EFRAME, ctxs'[1])
    BY <1>1, <1>2, <2>2
  <2>5. Depth' \in 1 .. 2 /\ pc' = "vec" /\ pc' \notin Contexts /\ mem' = mem /\ kern_sp' = kern_sp
    BY <1>1, <1>2, <1>4 DEF Contexts
  <2> QED
    BY <2>3, <2>4, <2>5 DEF Nesting
<1> QED
  BY <1>5, <1>6, <1>7, <1>8, <1>9, <1>10 DEF IInv

(* A machine check, anywhere.                                              *)
LEMMA MachineCheckInv ==
    ASSUME IInv, MachineCheck
    PROVE  IInv'
<1> USE ExcAssumption, StackAssumption
<1>1. /\ pc' = "vec" /\ vec' = "MC" /\ msr' = Hv(FALSE, FALSE) /\ Saved' = [pc |-> pc, msr |-> msr]
      /\ UNCHANGED <<r, hsprg1, unrec, mem, kern_sp, frame, mapped, page>>
  BY DEF MachineCheck, Take, Saved
<1>2. IsSeq(ctxs') /\ Depth' \in 0 .. MaxDepth
  <2>1. IsSeq(ctxs) /\ Depth \in 0 .. MaxDepth
    BY DEF IInv, Shape, Types
  <2>2. ctxs' = IF Len(ctxs) < MaxDepth THEN Append(ctxs, Snapshot) ELSE ctxs
    BY DEF MachineCheck, Take
  <2>3. CASE Len(ctxs) < MaxDepth
    <3>1. ctxs' = Append(ctxs, Snapshot)
      BY <2>2, <2>3, Zenon
    <3>2. IsSeq(ctxs') /\ Depth' = Depth + 1 /\ Depth < MaxDepth
      BY <2>1, <2>3, <3>1, SeqAppend DEF Depth
    <3> QED
      BY <2>1, <3>2 DEF MaxDepth
  <2>4. CASE ~(Len(ctxs) < MaxDepth)
    BY <2>1, <2>2, <2>4, Zenon DEF Depth
  <2> QED
    BY <2>3, <2>4
<1>3. Room(kern_sp, [pc |-> pc, msr |-> msr], r.r1)
  <2>1. CASE pc \in Contexts
    BY <2>1 DEF IInv, Nesting, Room, Running, Hv, GuestMsr, GuestSp, EFRAME
  <2>2. CASE pc \in Entering \cup Leaving
    BY <2>2 DEF IInv, PathMsr, Room, Hv, GuestSp, EFRAME
  <2> QED
    BY <2>1, <2>2 DEF IInv, Types, Steps, Entering, Leaving, MachineCheck
<1>4. Types'
  BY <1>1, <1>2 DEF IInv, Types, Steps, Hv
<1>5. Shape' /\ Mapping'
  BY <1>1, <1>2 DEF IInv, Shape, Mapping
<1>6. Dying' /\ Nesting' /\ PathMsr' /\ Enters' /\ Leaves' /\ Hangs'
  BY <1>1 DEF Dying, Nesting, PathMsr, Enters, Leaves, Hangs, Contexts, Entering, Leaving
<1>7. Dies'
  BY <1>1, <1>3 DEF Dies
<1> QED
  BY <1>4, <1>5, <1>6, <1>7 DEF IInv

-----------------------------------------------------------------------------
(* What the exception path may rely on.                                    *)
LEMMA PathFacts ==
    ASSUME IInv, pc \in Entering \cup Leaving, ~Dying
    PROVE  /\ Depth \in 1 .. 2 /\ CtxOK(kern_sp, Top) /\ (Top.pc = "rom" <=> Depth = 2)
           /\ Depth = 2 => ctxs[1].pc = "guest" /\ Holds(mem, kern_sp - EFRAME, ctxs[1])
           /\ Live(mem, Top)
<1>1. /\ Depth \in 1 .. 2
      /\ \A i \in 1 .. Depth : CtxOK(kern_sp, ctxs[i]) /\ (ctxs[i].pc = "rom" <=> i = 2)
      /\ Depth = 2 => ctxs[1].pc = "guest" /\ Holds(mem, kern_sp - EFRAME, ctxs[1])
  BY DEF IInv, Nesting, Entering, Leaving
<1>2. Live(mem, Top)
  BY DEF IInv, Enters, Leaves, Dying, Entering, Leaving
<1> QED
  BY <1>1, <1>2 DEF Top

(* A step within the path keeps the nesting.                               *)
LEMMA NestingKept ==
    ASSUME IInv, pc \in Entering \cup Leaving, pc' \in Entering \cup Leaving,
           UNCHANGED <<ctxs, kern_sp, vec>>, Dying => pc' \in Entering,
           ~Dying /\ Depth = 2 => Holds(mem', kern_sp - EFRAME, ctxs[1])
    PROVE  Nesting'
<1>1. pc' \notin Contexts \cup {"hang"} /\ Depth' = Depth /\ ctxs' = ctxs /\ kern_sp' = kern_sp /\ vec' = vec
  BY DEF Depth, Contexts, Entering, Leaving
<1>2. CASE Dying
  BY <1>1, <1>2 DEF Nesting, Dying, Contexts
<1>3. CASE ~Dying
  <2>1. /\ Depth \in 1 .. 2
        /\ \A i \in 1 .. Depth : CtxOK(kern_sp, ctxs[i]) /\ (ctxs[i].pc = "rom" <=> i = 2)
        /\ Depth = 2 => ctxs[1].pc = "guest" /\ Holds(mem', kern_sp - EFRAME, ctxs[1])
    BY <1>3 DEF IInv, Nesting, Entering, Leaving
  <2> QED
    BY <1>1, <2>1 DEF Nesting, Contexts
<1> QED
  BY <1>2, <1>3

(* The vector stashes r1 in HSPRG1, and r0 and r2 at unrec_sp.             *)
LEMMA DEF_EXCInv ==
    ASSUME IInv, DEF_EXC
    PROVE  IInv'
<1> USE ExcAssumption, StackAssumption
<1>1. /\ pc = "vec" /\ pc' = "sys" /\ hsprg1' = r.r1
      /\ unrec' = [unrec EXCEPT !.stash = Stash(vec, r.r0, r.r2, [pc |-> "junk", msr |-> Hv(FALSE, FALSE)])]
      /\ r' = [r EXCEPT !.r1 = UNREC, !.r0 = "junk"]
      /\ UNCHANGED <<vec, msr, srr, hsrr, mem, kern_sp, frame, mapped, page, ctxs>>
  BY DEF IInv, Mapping, DEF_EXC
<1>2. Top' = Top /\ Depth' = Depth /\ Saved' = Saved
  BY <1>1 DEF Top, Depth, Saved
<1>3. /\ r' = [r0 |-> "junk", r1 |-> UNREC, r2 |-> r.r2, rest |-> r.rest]
      /\ unrec' = [stash |-> Stash(vec, r.r0, r.r2, [pc |-> "junk", msr |-> Hv(FALSE, FALSE)]), rest |-> unrec.rest]
  BY <1>1 DEF IInv, Shape
<1>4. Types'
  BY <1>1, <1>2, <1>3 DEF IInv, Types, Steps, UNREC, GuestSp, EFRAME
<1>5. Shape' /\ Mapping'
  <2>1. unrec'.stash = Stash(unrec'.stash.vec, unrec'.stash.r0, unrec'.stash.r2, unrec'.stash.at)
    BY <1>3 DEF Stash
  <2> QED
    BY <2>1, <1>1, <1>3 DEF IInv, Shape, Mapping
<1>6. Nesting'
  BY <1>1, NestingKept DEF IInv, Nesting, Entering
<1>7. PathMsr' /\ Leaves' /\ Hangs'
  BY <1>1 DEF IInv, PathMsr, Leaves, Hangs, Entering, Leaving
<1>8. Dies'
  BY <1>1, <1>2, <1>3 DEF IInv, Dies, Dying, Entering, Stash
<1>9. Enters'
  BY <1>1, <1>2, <1>3 DEF IInv, Enters, Entering, Stash
<1> QED
  BY <1>4, <1>5, <1>6, <1>7, <1>8, <1>9 DEF IInv

(* exc_sys adds where the exception came from.                             *)
LEMMA exc_sysInv ==
    ASSUME IInv, exc_sys
    PROVE  IInv'
<1>1. /\ pc = "sys" /\ pc' = "cont" /\ unrec' = [unrec EXCEPT !.stash.at = Saved]
      /\ UNCHANGED <<vec, msr, r, hsprg1, srr, hsrr, mem, kern_sp, frame, mapped, page, ctxs>>
  BY DEF exc_sys, Saved
<1>2. Top' = Top /\ Depth' = Depth
  BY <1>1 DEF Top, Depth
<1>3. unrec' = [stash |-> Stash(unrec.stash.vec, unrec.stash.r0, unrec.stash.r2, Saved), rest |-> unrec.rest]
  BY <1>1 DEF IInv, Shape, Stash
<1>4. Types'
  BY <1>1, <1>2 DEF IInv, Types, Steps
<1>5. Shape' /\ Mapping'
  BY <1>1, <1>3 DEF IInv, Shape, Mapping, Stash
<1>6. Nesting'
  BY <1>1, NestingKept DEF IInv, Nesting, Entering
<1>7. PathMsr' /\ Leaves' /\ Hangs'
  BY <1>1 DEF IInv, PathMsr, Leaves, Hangs, Entering, Leaving
<1>8. Dies'
  BY <1>1, <1>3 DEF IInv, Dies, Dying, Entering, Stash
<1>9. Enters'
  BY <1>1, <1>2, <1>3 DEF IInv, Enters, Entering, Stash
<1> QED
  BY <1>4, <1>5, <1>6, <1>7, <1>8, <1>9 DEF IInv

(* exc_cont picks the stack and copies the stash there.                    *)
LEMMA exc_contInv ==
    ASSUME IInv, exc_cont
    PROVE  IInv'
<1> USE ExcAssumption, StackAssumption
<1> DEFINE base == StackFor(unrec.stash.at)
<1>1. /\ pc = "cont" /\ pc' = "save" /\ r' = [r EXCEPT !.r1 = base, !.r2 = "junk"]
      /\ mem' = IF base = UNREC THEN mem ELSE [mem EXCEPT ![base] = unrec.stash]
      /\ UNCHANGED <<vec, msr, hsprg1, srr, hsrr, unrec, kern_sp, frame, mapped, page, ctxs>>
  BY DEF exc_cont, copy_stashed
<1>2. Top' = Top /\ Depth' = Depth
  BY <1>1 DEF Top, Depth
<1>3. r' = [r0 |-> r.r0, r1 |-> base, r2 |-> "junk", rest |-> r.rest]
  BY <1>1 DEF IInv, Shape
<1>4. base = UNREC \/ base \in 0 .. GuestSp - 1
  <2>1. CASE Dying
    BY <2>1, <1>1 DEF IInv, Dies, Room, StackFor
  <2>2. CASE ~Dying
    <3>1. CtxOK(kern_sp, Top) /\ unrec.stash.at = At(Top) /\ hsprg1 = Top.r.r1
      BY <2>2, <1>1, PathFacts DEF IInv, Enters, Dying, Entering
    <3> QED
      BY <3>1, CtxFacts DEF StackFor, FrameFor, At, GuestSp, EFRAME
  <2> QED
    BY <2>1, <2>2
<1>5. /\ mem' = [x \in Cells |-> mem'[x]] /\ DOMAIN mem' = Cells
      /\ \A x \in Cells : x # base => mem'[x] = mem[x]
      /\ base # UNREC => mem'[base] = unrec.stash
  <2>1. mem = [x \in Cells |-> mem[x]] /\ DOMAIN mem = Cells
    BY DEF IInv, Shape, Types
  <2>2. CASE base = UNREC
    BY <2>1, <2>2, <1>1
  <2>3. CASE base # UNREC
    <3>1. base \in Cells /\ mem' = [mem EXCEPT ![base] = unrec.stash]
      <4> HIDE DEF base
      <4> QED
        BY <2>3, <1>1, <1>4 DEF Cells, GuestSp, EFRAME
    <3> HIDE DEF base
    <3> QED
      BY <2>1, <3>1, MemWrite
  <2> QED
    BY <2>2, <2>3
<1>6. ~Dying => /\ base = FrameFor(kern_sp, Top) /\ base # UNREC /\ Live(mem', Top)
                /\ Depth = 2 => Holds(mem', kern_sp - EFRAME, ctxs[1])
  <2> SUFFICES ASSUME ~Dying
               PROVE  /\ base = FrameFor(kern_sp, Top) /\ base # UNREC /\ Live(mem', Top)
                      /\ Depth = 2 => Holds(mem', kern_sp - EFRAME, ctxs[1])
    OBVIOUS
  <2>1. /\ CtxOK(kern_sp, Top) /\ unrec.stash.at = At(Top) /\ hsprg1 = Top.r.r1 /\ Live(mem, Top)
        /\ (Top.pc = "rom" <=> Depth = 2)
        /\ Depth = 2 => Holds(mem, kern_sp - EFRAME, ctxs[1])
    BY <1>1, PathFacts DEF IInv, Enters, Dying, Entering
  <2>2. base = FrameFor(kern_sp, Top) /\ base # UNREC
    BY <2>1, CtxFacts DEF StackFor, FrameFor, At, UNREC
  <2>a. \A x \in Cells : x >= FrameFor(kern_sp, Top) + EFRAME => mem'[x] = mem[x]
    BY <2>1, <2>2, <1>5, CtxFacts DEF EFRAME, Cells, GuestSp
  <2>3. Live(mem', Top)
    BY <2>1, <2>a, LiveKept
  <2>4. ASSUME Depth = 2 PROVE Holds(mem', kern_sp - EFRAME, ctxs[1])
    <3>1. Top.pc = "rom" /\ CtxOK(kern_sp, Top) /\ Holds(mem, kern_sp - EFRAME, ctxs[1])
      BY <2>1, <2>4
    <3> QED
      BY <3>1, <2>a, OuterKept
  <2> QED
    BY <2>2, <2>3, <2>4
<1> HIDE DEF base
<1>7. Types'
  BY <1>1, <1>2, <1>3, <1>4, <1>5 DEF IInv, Types, Steps, UNREC, GuestSp, EFRAME
<1>8. Shape' /\ Mapping'
  BY <1>1, <1>3, <1>5 DEF IInv, Shape, Mapping
<1>9. Nesting'
  BY <1>1, <1>6, NestingKept DEF Entering
<1>10. PathMsr' /\ Leaves' /\ Hangs'
  BY <1>1 DEF IInv, PathMsr, Leaves, Hangs, Entering, Leaving
<1>11. Dies'
  BY <1>1, <1>3, <1>4, <1>5 DEF IInv, Dies, Dying, Entering
<1>12. Enters'
  BY <1>1, <1>2, <1>3, <1>5, <1>6 DEF IInv, Enters, Entering, Dying
<1> QED
  BY <1>7, <1>8, <1>9, <1>10, <1>11, <1>12 DEF IInv

(* exc_more_save completes the frame.                                      *)
LEMMA exc_more_saveInv ==
    ASSUME IInv, exc_more_save
    PROVE  IInv'
<1> USE ExcAssumption, StackAssumption
<1> DEFINE rest == [r1 |-> hsprg1, rest |-> r.rest]
<1>1. /\ pc = "save" /\ pc' = "handler" /\ frame' = r.r1
      /\ r' = [r0 |-> "junk", r1 |-> r.r1 - STACKMIN, r2 |-> "junk", rest |-> "junk"]
      /\ r.r1 = UNREC => unrec' = [unrec EXCEPT !.rest = rest] /\ mem' = mem
      /\ r.r1 # UNREC => mem' = [mem EXCEPT ![r.r1 + 1] = rest] /\ unrec' = unrec
      /\ UNCHANGED <<vec, msr, hsprg1, srr, hsrr, kern_sp, mapped, page, ctxs>>
  BY DEF exc_more_save, Regs
<1>2. Top' = Top /\ Depth' = Depth
  BY <1>1 DEF Top, Depth
<1>3. r.r1 = UNREC \/ r.r1 \in 0 .. GuestSp - 1
  <2>1. CASE Dying
    BY <2>1, <1>1 DEF IInv, Dies
  <2>2. CASE ~Dying
    <3>1. CtxOK(kern_sp, Top) /\ r.r1 = FrameFor(kern_sp, Top)
      BY <2>2, <1>1, PathFacts DEF IInv, Enters, Dying, Entering
    <3> QED
      BY <3>1, CtxFacts DEF GuestSp, EFRAME
  <2> QED
    BY <2>1, <2>2
<1>4. /\ mem' = [x \in Cells |-> mem'[x]] /\ DOMAIN mem' = Cells
      /\ \A x \in Cells : x # r.r1 + 1 => mem'[x] = mem[x]
      /\ r.r1 # UNREC => mem'[r.r1 + 1] = rest /\ mem'[r.r1] = mem[r.r1]
  <2>1. mem = [x \in Cells |-> mem[x]] /\ DOMAIN mem = Cells
    BY DEF IInv, Shape, Types
  <2>2. CASE r.r1 = UNREC
    BY <2>1, <2>2, <1>1
  <2>3. CASE r.r1 # UNREC
    <3>1. /\ r.r1 + 1 \in Cells /\ r.r1 \in Cells /\ r.r1 # r.r1 + 1
          /\ mem' = [mem EXCEPT ![r.r1 + 1] = rest]
      BY <2>3, <1>1, <1>3 DEF Cells, GuestSp, EFRAME
    <3> QED
      BY <2>1, <3>1, MemWrite
  <2> QED
    BY <2>2, <2>3
<1>5. unrec' = [stash |-> unrec.stash, rest |-> unrec'.rest]
  BY <1>1 DEF IInv, Shape
<1>6. ~Dying => /\ r.r1 = FrameFor(kern_sp, Top) /\ Live(mem', Top) /\ Holds(mem', r.r1, Top) /\ mem'[r.r1].vec = vec
                /\ Depth = 2 => Holds(mem', kern_sp - EFRAME, ctxs[1])
  <2> SUFFICES ASSUME ~Dying
               PROVE  /\ r.r1 = FrameFor(kern_sp, Top) /\ Live(mem', Top) /\ Holds(mem', r.r1, Top) /\ mem'[r.r1].vec = vec
                      /\ Depth = 2 => Holds(mem', kern_sp - EFRAME, ctxs[1])
    OBVIOUS
  <2>1. /\ CtxOK(kern_sp, Top) /\ hsprg1 = Top.r.r1 /\ r.rest = Top.r.rest /\ Live(mem, Top)
        /\ r.r1 = FrameFor(kern_sp, Top) /\ mem[r.r1] = Stash(vec, Top.r.r0, Top.r.r2, At(Top))
        /\ (Top.pc = "rom" <=> Depth = 2)
        /\ Depth = 2 => Holds(mem, kern_sp - EFRAME, ctxs[1])
    BY <1>1, PathFacts DEF IInv, Enters, Dying, Entering
  <2>2. r.r1 # UNREC
    BY <2>1, CtxFacts DEF UNREC
  <2>a. \A x \in Cells : x >= FrameFor(kern_sp, Top) + EFRAME => mem'[x] = mem[x]
    BY <2>1, <2>2, <1>4, CtxFacts DEF EFRAME, Cells, GuestSp
  <2>3. Live(mem', Top)
    BY <2>1, <2>a, LiveKept
  <2>4. Holds(mem', r.r1, Top) /\ mem'[r.r1].vec = vec
    BY <2>1, <2>2, <1>4 DEF Holds, Stash
  <2>5. ASSUME Depth = 2 PROVE Holds(mem', kern_sp - EFRAME, ctxs[1])
    <3>1. Top.pc = "rom" /\ CtxOK(kern_sp, Top) /\ Holds(mem, kern_sp - EFRAME, ctxs[1])
      BY <2>1, <2>5
    <3> QED
      BY <3>1, <2>a, OuterKept
  <2> QED
    BY <2>1, <2>3, <2>4, <2>5
<1>7. Types'
  BY <1>1, <1>2, <1>3, <1>4 DEF IInv, Types, Steps, UNREC, GuestSp, EFRAME, STACKMIN
<1>8. Shape' /\ Mapping'
  BY <1>1, <1>4, <1>5 DEF IInv, Shape, Mapping
<1>9. Nesting'
  BY <1>1, <1>6, NestingKept DEF Entering
<1>10. PathMsr' /\ Leaves' /\ Hangs'
  BY <1>1 DEF IInv, PathMsr, Leaves, Hangs, Entering, Leaving
<1>11. Dies'
  BY <1>1, <1>3, <1>4, <1>5 DEF IInv, Dies, Dying, Entering, FrameStash
<1>12. Enters'
  BY <1>1, <1>2, <1>6 DEF IInv, Enters, Entering, Dying
<1> QED
  BY <1>7, <1>8, <1>9, <1>10, <1>11, <1>12 DEF IInv

-----------------------------------------------------------------------------
(* What exc_handler finds when it knows the exception.                     *)
LEMMA HandleFacts ==
    ASSUME IInv, NEW vecs, Handle(vecs), "MC" \notin vecs
    PROVE  /\ pc = "handler" /\ vec \in vecs /\ ~Dying /\ frame # UNREC
           /\ frame = FrameFor(kern_sp, Top) /\ frame \in 0 .. StackTop - 2 /\ r.r1 = frame - STACKMIN
           /\ Holds(mem, frame, Top) /\ CtxOK(kern_sp, Top)
           /\ vec \in {"PROG", "HEA", "SC"} => Top.pc = "guest"
<1>1. pc = "handler" /\ FrameStash.vec \in vecs
  BY DEF Handle
<1>2. ~Dying
  BY <1>1 DEF IInv, Dies, Dying
<1>3. /\ vec # "MC" /\ frame = FrameFor(kern_sp, Top) /\ r.r1 = frame - STACKMIN
      /\ Holds(mem, frame, Top) /\ mem[frame].vec = vec /\ CtxOK(kern_sp, Top)
      /\ vec \in {"PROG", "HEA", "SC"} => Top.pc = "guest"
  BY <1>1, <1>2, PathFacts DEF IInv, Enters, Dying, Entering
<1>4. frame \in 0 .. StackTop - 2 /\ frame # UNREC
  BY <1>3, CtxFacts, ExcAssumption DEF UNREC
<1> QED
  BY <1>1, <1>2, <1>3, <1>4 DEF FrameStash

(* C code overwrites nothing from its frame upwards.                       *)
LEMMA BelowFacts ==
    ASSUME IInv, NEW f
    PROVE  /\ Below(f) = [x \in Cells |-> Below(f)[x]] /\ DOMAIN Below(f) = Cells
           /\ \A x \in Cells : ~(x < f) => Below(f)[x] = mem[x]
<1>1. DOMAIN mem = Cells
  BY DEF IInv, Types
<1> QED
  BY <1>1 DEF Below

(* A handler that leaves the frame alone.                                  *)
LEMMA ResolveInv ==
    ASSUME IInv, NEW vecs, NEW pages, Resolve(vecs, pages), "MC" \notin vecs, pages \subseteq Pages
    PROVE  IInv'
<1> USE ExcAssumption, StackAssumption
<1>1. /\ Handle(vecs) /\ mem' = Below(frame) /\ mapped' = mapped \cup pages /\ pc' = "rfi1"
      /\ UNCHANGED <<vec, msr, r, hsprg1, srr, hsrr, unrec, kern_sp, frame, page, ctxs>>
  BY DEF Resolve
<1>2. /\ pc = "handler" /\ ~Dying /\ frame = FrameFor(kern_sp, Top) /\ frame \in 0 .. StackTop - 2
      /\ Holds(mem, frame, Top) /\ CtxOK(kern_sp, Top)
  BY <1>1, HandleFacts
<1>3. /\ mem' = [x \in Cells |-> mem'[x]] /\ DOMAIN mem' = Cells
      /\ \A x \in Cells : ~(x < frame) => mem'[x] = mem[x]
  BY <1>1, BelowFacts
<1>4. Top' = Top /\ Depth' = Depth
  BY <1>1 DEF Top, Depth
<1>5. /\ \A x \in Cells : x >= FrameFor(kern_sp, Top) + EFRAME => mem'[x] = mem[x]
      /\ mem'[frame] = mem[frame] /\ mem'[frame + 1] = mem[frame + 1]
  BY <1>2, <1>3 DEF Cells, GuestSp, EFRAME
<1>6. Live(mem', Top) /\ Holds(mem', frame, Top)
  BY <1>2, <1>5, LiveKept, HoldsKept, PathFacts DEF Entering
<1>7. ~Dying /\ Depth = 2 => Holds(mem', kern_sp - EFRAME, ctxs[1])
  <2> SUFFICES ASSUME Depth = 2 PROVE Holds(mem', kern_sp - EFRAME, ctxs[1])
    OBVIOUS
  <2>1. Top.pc = "rom" /\ Holds(mem, kern_sp - EFRAME, ctxs[1])
    BY <1>2, PathFacts DEF Entering
  <2> QED
    BY <1>2, <1>5, <2>1, OuterKept
<1>8. Types'
  BY <1>1, <1>3, <1>4 DEF IInv, Types, Steps
<1>9. Shape' /\ Mapping'
  BY <1>1, <1>3 DEF IInv, Shape, Mapping
<1>10. Nesting'
  BY <1>1, <1>2, <1>7, NestingKept DEF Entering, Leaving
<1>11. PathMsr' /\ Dies' /\ Enters' /\ Hangs'
  BY <1>1, <1>2 DEF IInv, PathMsr, Dies, Enters, Hangs, Dying, Entering, Leaving
<1>12. Leaves'
  BY <1>1, <1>2, <1>4, <1>6 DEF Leaves
<1> QED
  BY <1>8, <1>9, <1>10, <1>11, <1>12 DEF IInv

(* exc_handler gives up.                                                   *)
LEMMA badInv ==
    ASSUME IInv, bad
    PROVE  IInv'
<1>1. /\ pc = "handler"
      /\ ~FrameStash.at.msr.ri \/ FrameStash.vec \notin Handled \/ Declined
      /\ pc' = "hang"
      /\ UNCHANGED <<vec, msr, r, hsprg1, srr, hsrr, unrec, mem, kern_sp, frame, mapped, page, ctxs>>
  BY DEF bad
<1>2. FrameStash.vec \notin Handled \/ (FrameStash.at.msr.ri /\ Declined)
  <2>1. CASE Dying
    BY <2>1, <1>1 DEF IInv, Dies, Handled
  <2>2. CASE ~Dying
    <3>1. frame = FrameFor(kern_sp, Top) /\ Holds(mem, frame, Top) /\ CtxOK(kern_sp, Top)
      BY <2>2, <1>1, PathFacts DEF IInv, Enters, Dying, Entering
    <3>2. FrameStash = mem[frame] /\ Top.msr.ri
      BY <3>1, CtxFacts, ExcAssumption DEF FrameStash, UNREC
    <3>3. FrameStash.at.msr.ri
      BY <3>1, <3>2 DEF Holds, Stash, At
    <3> QED
      BY <1>1, <3>3
  <2> QED
    BY <2>1, <2>2
<1>3. Types' /\ Shape' /\ Mapping'
  BY <1>1 DEF IInv, Types, Shape, Mapping, Depth
<1>4. Nesting' /\ Dies' /\ Enters' /\ Leaves'
  BY <1>1 DEF Nesting, Dies, Dying, Enters, Leaves, Contexts, Entering, Leaving
<1>5. PathMsr' /\ Hangs'
  BY <1>1, <1>2 DEF IInv, PathMsr, Hangs, Declined, FrameStash, Entering, Leaving
<1> QED
  BY <1>3, <1>4, <1>5 DEF IInv

(* A handler that changes only the other registers goes on running.        *)
LEMMA RunningAnswer ==
    ASSUME NEW k, NEW p, NEW m, NEW rr, Running(k, p, m, rr), NEW q,
           q = [r0 |-> rr.r0, r1 |-> rr.r1, r2 |-> rr.r2, rest |-> "answer"]
    PROVE  Running(k, p, m, q)
BY DEF Running

(* Updating one context leaves the others.                                 *)
LEMMA CtxsExcept ==
    ASSUME IsSeq(ctxs), NEW n \in 1 .. Len(ctxs), NEW e, ctxs' = [ctxs EXCEPT ![n] = e]
    PROVE  /\ IsSeq(ctxs') /\ Len(ctxs') = Len(ctxs) /\ ctxs'[n] = e
           /\ \A i \in 1 .. Len(ctxs) : i # n => ctxs'[i] = ctxs[i]
<1>1. IsSeq(ctxs')
  BY SeqExcept
<1>2. Len(ctxs') = Len(ctxs)
  BY SeqExcept
<1>3. ctxs'[n] = e
  BY SeqExcept
<1>4. \A i \in 1 .. Len(ctxs) : i # n => ctxs'[i] = ctxs[i]
  BY SeqExcept
<1> QED
  BY <1>1, <1>2, <1>3, <1>4

(* An answer goes into the registers of the innermost context.             *)
LEMMA GhostFacts ==
    ASSUME IInv, Depth >= 1, ctxs' = GhostEdited, CtxOK(kern_sp, Top)
    PROVE  /\ IsSeq(ctxs') /\ Depth' = Depth /\ \A i \in 1 .. Depth : i # Depth => ctxs'[i] = ctxs[i]
           /\ Top' = [Top EXCEPT !.r.rest = "answer"]
           /\ CtxOK(kern_sp, Top') /\ At(Top') = At(Top) /\ Top'.pc = Top.pc /\ Top'.msr = Top.msr /\ Top'.live = Top.live
           /\ Top'.r = [r0 |-> Top.r.r0, r1 |-> Top.r.r1, r2 |-> Top.r.r2, rest |-> "answer"]
<1>1. IsSeq(ctxs) /\ Depth \in 0 .. MaxDepth
  BY DEF IInv, Shape, Types
<1>2. Depth \in 1 .. Len(ctxs)
  BY <1>1 DEF Depth, MaxDepth
<1>3. ctxs' = [ctxs EXCEPT ![Depth] = [Top EXCEPT !.r.rest = "answer"]]
  BY DEF GhostEdited, Depth, Top
<1>4. /\ IsSeq(ctxs') /\ Depth' = Depth /\ ctxs'[Depth] = [Top EXCEPT !.r.rest = "answer"]
      /\ \A i \in 1 .. Depth : i # Depth => ctxs'[i] = ctxs[i]
  <2> DEFINE e == [Top EXCEPT !.r.rest = "answer"]
  <2>1. Depth = Len(ctxs) /\ Depth' = Len(ctxs') /\ ctxs' = [ctxs EXCEPT ![Depth] = e]
    BY <1>3 DEF Depth
  <2> HIDE DEF e
  <2>2. IsSeq(ctxs') /\ Len(ctxs') = Len(ctxs) /\ ctxs'[Depth] = e
        /\ \A i \in 1 .. Len(ctxs) : i # Depth => ctxs'[i] = ctxs[i]
    <3>1. /\ IsSeq(ctxs') /\ Len(ctxs') = Len(ctxs) /\ ctxs'[Depth] = e
          /\ \A i \in 1 .. Len(ctxs) : i # Depth => ctxs'[i] = ctxs[i]
      BY <1>1, <1>2, <2>1, CtxsExcept, Zenon
    <3> QED
      BY <3>1
  <2> QED
    BY <2>1, <2>2 DEF e
<1>5. Top' = [Top EXCEPT !.r.rest = "answer"]
  BY <1>4 DEF Top
<1>6. /\ Top = [pc |-> Top.pc, msr |-> Top.msr, r |-> Top.r, live |-> Top.live]
      /\ Top.r = [r0 |-> Top.r.r0, r1 |-> Top.r.r1, r2 |-> Top.r.r2, rest |-> Top.r.rest]
  BY DEF CtxOK, Running
<1>7. Top' = [pc |-> Top.pc, msr |-> Top.msr, live |-> Top.live,
              r |-> [r0 |-> Top.r.r0, r1 |-> Top.r.r1, r2 |-> Top.r.r2, rest |-> "answer"]]
  BY <1>5, <1>6
<1>8. /\ At(Top') = At(Top) /\ Top'.pc = Top.pc /\ Top'.msr = Top.msr /\ Top'.live = Top.live
      /\ Top'.r = [r0 |-> Top.r.r0, r1 |-> Top.r.r1, r2 |-> Top.r.r2, rest |-> "answer"]
      /\ Top' = [pc |-> Top'.pc, msr |-> Top'.msr, r |-> Top'.r, live |-> Top'.live]
  BY <1>7 DEF At
<1>9. CtxOK(kern_sp, Top')
  <2>1. Running(kern_sp, Top'.pc, Top'.msr, Top'.r)
    <3>1. Running(kern_sp, Top.pc, Top.msr, Top.r)
      BY DEF CtxOK
    <3> QED
      BY <3>1, <1>8, RunningAnswer
  <2> QED
    BY <1>8, <2>1 DEF CtxOK
<1> QED
  BY <1>4, <1>5, <1>8, <1>9

(* An emulated instruction.                                                *)
LEMMA emulateInv ==
    ASSUME IInv, emulate
    PROVE  IInv'
<1> USE ExcAssumption, StackAssumption
<1>1. /\ pc = "handler" /\ ~Dying /\ frame = FrameFor(kern_sp, Top) /\ frame \in 0 .. StackTop - 2 /\ frame # UNREC
      /\ Holds(mem, frame, Top) /\ CtxOK(kern_sp, Top) /\ Top.pc = "guest"
  BY HandleFacts DEF emulate
<1>2. /\ Depth = 1 /\ DOMAIN Top.live = {} /\ kern_sp = StackTop - 1
  BY <1>1, PathFacts, CtxFacts DEF Entering
<1>3. /\ mem' = [Below(frame) EXCEPT ![frame + 1] = Edited] /\ ctxs' = GhostEdited /\ pc' = "rfi1"
      /\ UNCHANGED <<vec, msr, r, hsprg1, srr, hsrr, unrec, kern_sp, frame, mapped, page>>
  BY <1>2 DEF emulate, IInv, Mapping
<1>4. /\ IsSeq(ctxs') /\ Depth' = 1 /\ CtxOK(kern_sp, Top') /\ At(Top') = At(Top) /\ Top'.live = Top.live
      /\ Top'.r = [r0 |-> Top.r.r0, r1 |-> Top.r.r1, r2 |-> Top.r.r2, rest |-> "answer"]
      /\ Top'.pc = "guest" /\ Top'.msr = Top.msr
  BY <1>1, <1>2, <1>3, GhostFacts
<1>5. /\ mem' = [x \in Cells |-> mem'[x]] /\ DOMAIN mem' = Cells
      /\ mem'[frame] = mem[frame] /\ mem'[frame + 1] = Edited
  <2>1. frame \in Cells /\ frame + 1 \in Cells /\ frame # frame + 1 /\ ~(frame < frame)
    BY <1>1 DEF Cells, GuestSp, EFRAME
  <2> QED
    BY <1>3, <2>1, BelowFacts, MemWrite
<1>6. Holds(mem', frame, Top')
  <2>1. Edited = [r1 |-> Top.r.r1, rest |-> "answer"]
    BY <1>1 DEF Edited, FrameRest, Holds
  <2> QED
    BY <1>1, <1>4, <1>5, <2>1 DEF Holds
<1>7. Types'
  BY <1>3, <1>4, <1>5 DEF IInv, Types, Steps, MaxDepth
<1>8. Shape' /\ Mapping'
  BY <1>3, <1>4, <1>5 DEF IInv, Shape, Mapping
<1>9. Nesting'
  BY <1>3, <1>4 DEF Nesting, Top, Contexts
<1>10. PathMsr' /\ Dies' /\ Enters' /\ Hangs'
  BY <1>1, <1>3 DEF IInv, PathMsr, Dies, Enters, Hangs, Dying, Entering, Leaving
<1>11. Leaves'
  <2>1. frame \in {FrameFor(kern_sp, Top'), kern_sp} /\ Live(mem', Top')
    BY <1>1, <1>2, <1>4 DEF FrameFor, Live
  <2> QED
    BY <1>1, <1>3, <1>6, <2>1 DEF Leaves
<1> QED
  BY <1>7, <1>8, <1>9, <1>10, <1>11 DEF IInv

(* rom_call starts below the frame of the guest.                           *)
LEMMA guest_scInv ==
    ASSUME IInv, NEW d \in 0 .. 1, guest_sc(d)
    PROVE  IInv'
<1> USE ExcAssumption, StackAssumption
<1> DEFINE own == [Junk EXCEPT !.vec = "own"]
<1>1. /\ pc = "handler" /\ ~Dying /\ frame = FrameFor(kern_sp, Top) /\ r.r1 = frame - STACKMIN
      /\ Holds(mem, frame, Top) /\ CtxOK(kern_sp, Top) /\ Top.pc = "guest"
  BY HandleFacts DEF guest_sc
<1>2. Depth = 1 /\ kern_sp = StackTop - 1 /\ frame = kern_sp - EFRAME
  BY <1>1, PathFacts, CtxFacts DEF Entering
<1>3. /\ msr' = Hv(FALSE, TRUE) /\ pc' = "rom"
      /\ r' = [r0 |-> "rom", r1 |-> r.r1 - d, r2 |-> "rom", rest |-> "rom"]
      /\ mem' = [Below(frame) EXCEPT ![r.r1 - d] = own, ![r.r1 - d - ZONE] = own]
      /\ UNCHANGED <<vec, hsprg1, srr, hsrr, unrec, kern_sp, frame, mapped, page, ctxs>>
  BY DEF guest_sc, RomMsr, Regs
<1> HIDE DEF own
<1>4. Top' = Top /\ Depth' = 1 /\ ctxs' = ctxs
  BY <1>2, <1>3 DEF Top, Depth
<1>5. /\ mem' = [x \in Cells |-> mem'[x]] /\ DOMAIN mem' = Cells
      /\ mem'[frame] = mem[frame] /\ mem'[frame + 1] = mem[frame + 1]
  <2> DEFINE m1 == Below(frame)
             m2 == [m1 EXCEPT ![r.r1 - d] = own]
             p == r.r1 - d
             q == r.r1 - d - ZONE
  <2>1. /\ frame \in Cells /\ frame + 1 \in Cells /\ p \in Cells /\ q \in Cells
        /\ ~(frame < frame) /\ ~(frame + 1 < frame) /\ p # frame /\ p # frame + 1 /\ q # frame /\ q # frame + 1
    BY <1>1, <1>2 DEF Cells, GuestSp, EFRAME, STACKMIN
  <2>2. m1 = [x \in Cells |-> m1[x]] /\ m1[frame] = mem[frame] /\ m1[frame + 1] = mem[frame + 1]
    BY <2>1, BelowFacts
  <2>3. mem' = [m2 EXCEPT ![q] = own] /\ m2 = [m1 EXCEPT ![p] = own]
    BY <1>3
  <2> HIDE DEF m1, m2, p, q
  <2>4. m2 = [x \in Cells |-> m2[x]] /\ m2[frame] = mem[frame] /\ m2[frame + 1] = mem[frame + 1]
    BY <2>1, <2>2, <2>3, MemWrite
  <2> QED
    BY <2>1, <2>3, <2>4, MemWrite
<1>6. Holds(mem', frame, Top)
  BY <1>1, <1>5, HoldsKept
<1>7. Running(kern_sp, pc', msr', r')
  BY <1>1, <1>2, <1>3 DEF Running, EFRAME, STACKMIN
<1>8. Types'
  BY <1>1, <1>2, <1>3, <1>4, <1>5 DEF IInv, Types, Contexts, Hv, MaxDepth, GuestSp, EFRAME, STACKMIN
<1>9. Shape' /\ Mapping'
  BY <1>3, <1>4, <1>5 DEF IInv, Shape, Mapping
<1>10. Nesting'
  <2>1. kern_sp' = kern_sp /\ Depth' = 1 /\ ctxs'[1] = Top /\ pc' = "rom"
    BY <1>2, <1>3, <1>4 DEF Top
  <2> QED
    BY <2>1, <1>1, <1>2, <1>6, <1>7 DEF Nesting, Entering, Leaving
<1>11. PathMsr' /\ Dies' /\ Enters' /\ Leaves' /\ Hangs'
  BY <1>3 DEF PathMsr, Dies, Enters, Leaves, Hangs, Dying, Entering, Leaving
<1> QED
  BY <1>8, <1>9, <1>10, <1>11 DEF IInv

(* rom_call has answered.                                                  *)
LEMMA rom_returnInv ==
    ASSUME IInv, rom_return
    PROVE  IInv'
<1> USE ExcAssumption, StackAssumption
<1> DEFINE f == kern_sp - EFRAME
<1>1. /\ pc = "rom" /\ msr' = Hv(FALSE, FALSE) /\ frame' = f /\ pc' = "rfi1" /\ ctxs' = GhostEdited
      /\ mem' = [Below(f) EXCEPT ![f + 1] = [Below(f)[f + 1] EXCEPT !.rest = "answer"]]
      /\ UNCHANGED <<vec, r, hsprg1, srr, hsrr, unrec, kern_sp, mapped, page>>
  BY DEF rom_return
<1>2. /\ Depth = 1 /\ CtxOK(kern_sp, Top) /\ Top.pc = "guest" /\ Holds(mem, f, Top)
  BY <1>1 DEF IInv, Nesting, Top, Dying, Entering
<1>3. kern_sp = StackTop - 1 /\ f = FrameFor(kern_sp, Top) /\ f \in 0 .. StackTop - 2 /\ DOMAIN Top.live = {}
  BY <1>2, CtxFacts
<1> HIDE DEF f
<1>4. /\ IsSeq(ctxs') /\ Depth' = 1 /\ CtxOK(kern_sp, Top') /\ At(Top') = At(Top) /\ Top'.live = Top.live
      /\ Top'.r = [r0 |-> Top.r.r0, r1 |-> Top.r.r1, r2 |-> Top.r.r2, rest |-> "answer"]
      /\ Top'.pc = "guest" /\ Top'.msr = Top.msr
  BY <1>1, <1>2, GhostFacts
<1>5. /\ mem' = [x \in Cells |-> mem'[x]] /\ DOMAIN mem' = Cells
      /\ mem'[f] = mem[f] /\ mem'[f + 1] = [r1 |-> Top.r.r1, rest |-> "answer"]
  <2>1. f \in Cells /\ f + 1 \in Cells /\ f # f + 1 /\ ~(f < f) /\ ~(f + 1 < f)
    BY <1>3 DEF Cells, GuestSp, EFRAME
  <2>2. Below(f)[f + 1] = mem[f + 1] /\ Below(f)[f] = mem[f] /\ Below(f) = [x \in Cells |-> Below(f)[x]]
    BY <2>1, BelowFacts
  <2>3. [Below(f)[f + 1] EXCEPT !.rest = "answer"] = [r1 |-> Top.r.r1, rest |-> "answer"]
    BY <2>2, <1>2 DEF Holds
  <2> QED
    BY <1>1, <2>1, <2>2, <2>3, MemWrite
<1>6. Holds(mem', f, Top')
  BY <1>2, <1>4, <1>5 DEF Holds
<1>7. Types'
  BY <1>1, <1>3, <1>4, <1>5 DEF IInv, Types, Steps, MaxDepth, Hv, GuestSp, EFRAME
<1>8. Shape' /\ Mapping'
  BY <1>1, <1>4, <1>5 DEF IInv, Shape, Mapping
<1>9. Nesting'
  BY <1>1, <1>4 DEF Nesting, Top, Contexts
<1>10. PathMsr' /\ Dies' /\ Enters' /\ Hangs'
  BY <1>1 DEF PathMsr, Dies, Enters, Hangs, Dying, Entering, Leaving
<1>11. Leaves'
  <2>1. f \in {FrameFor(kern_sp, Top'), kern_sp} /\ Live(mem', Top')
    BY <1>3, <1>4 DEF FrameFor, Live
  <2> QED
    BY <1>1, <1>3, <1>6, <2>1 DEF Leaves
<1> QED
  BY <1>7, <1>8, <1>9, <1>10, <1>11 DEF IInv

-----------------------------------------------------------------------------
(* exc_rfi loads HSRR0/1, then the registers.                              *)
LEMMA rfi_hsrrInv ==
    ASSUME IInv, rfi_hsrr
    PROVE  IInv'
<1>1. /\ pc = "rfi1" /\ pc' = "rfi2" /\ hsrr' = FrameStash.at
      /\ UNCHANGED <<vec, msr, srr, unrec, kern_sp, mem, frame, mapped, page, ctxs, r, hsprg1>>
  BY DEF rfi_hsrr, RfiStep
<1>2. Top' = Top /\ Depth' = Depth
  BY <1>1 DEF Top, Depth
<1>3. frame \in 0 .. StackTop /\ Holds(mem, frame, Top)
  BY <1>1 DEF IInv, Leaves, Leaving
<1>4. FrameStash.at = At(Top)
  BY <1>3, ExcAssumption DEF FrameStash, UNREC, Holds, Stash
<1>5. Types' /\ Shape' /\ Mapping'
  BY <1>1, <1>2 DEF IInv, Types, Shape, Mapping, Steps
<1>6. Nesting'
  BY <1>1, NestingKept DEF IInv, Nesting, Entering, Leaving, Dying
<1>7. PathMsr' /\ Dies' /\ Enters' /\ Hangs'
  BY <1>1 DEF IInv, PathMsr, Dies, Enters, Hangs, Dying, Entering, Leaving
<1>8. Leaves'
  BY <1>1, <1>2, <1>4 DEF IInv, Leaves, Leaving
<1> QED
  BY <1>5, <1>6, <1>7, <1>8 DEF IInv

(* The return reloads the interrupted context.                             *)
LEMMA rfi_regsInv ==
    ASSUME IInv, rfi_regs
    PROVE  IInv'
<1> USE ExcAssumption, StackAssumption
<1>1. /\ pc = "rfi2" /\ pc' = "rfi3"
      /\ r' = [r0 |-> FrameStash.r0, r1 |-> FrameRest.r1, r2 |-> FrameStash.r2, rest |-> FrameRest.rest]
      /\ UNCHANGED <<vec, msr, srr, unrec, kern_sp, mem, frame, mapped, page, ctxs, hsprg1, hsrr>>
  BY DEF rfi_regs, RfiStep
<1>2. Top' = Top /\ Depth' = Depth
  BY <1>1 DEF Top, Depth
<1>3. frame \in 0 .. StackTop /\ Holds(mem, frame, Top)
  BY <1>1 DEF IInv, Leaves, Leaving
<1>4. /\ FrameStash.r0 = Top.r.r0 /\ FrameStash.r2 = Top.r.r2
      /\ FrameRest.r1 = Top.r.r1 /\ FrameRest.rest = Top.r.rest
  BY <1>3 DEF FrameStash, FrameRest, UNREC, Holds, Stash
<1>5. CtxOK(kern_sp, Top)
  BY <1>1, PathFacts DEF Leaving, Entering, Dying
<1>6. r' = Top.r /\ Top.r = [r0 |-> Top.r.r0, r1 |-> Top.r.r1, r2 |-> Top.r.r2, rest |-> Top.r.rest]
  BY <1>1, <1>4, <1>5 DEF CtxOK, Running
<1>7. Top.r.r1 \in {StackTop - 2, GuestSp, StackTop - 4, StackTop - 5}
  BY <1>5 DEF CtxOK, Running
<1>8. Types' /\ Shape' /\ Mapping'
  BY <1>1, <1>2, <1>6, <1>7 DEF IInv, Types, Shape, Mapping, Steps, GuestSp, EFRAME
<1>9. Nesting'
  BY <1>1, NestingKept DEF IInv, Nesting, Entering, Leaving, Dying
<1>10. PathMsr'
  BY <1>1, <1>6, <1>7 DEF IInv, PathMsr, Entering, Leaving
<1>11. Dies' /\ Enters' /\ Hangs'
  BY <1>1 DEF Dies, Enters, Hangs, Dying, Entering, Leaving
<1>12. Leaves'
  BY <1>1, <1>2, <1>6 DEF IInv, Leaves, Leaving
<1> QED
  BY <1>8, <1>9, <1>10, <1>11, <1>12 DEF IInv

(* hrfid resumes the innermost context.                                    *)
LEMMA hrfidInv ==
    ASSUME IInv, hrfid
    PROVE  IInv'
<1> USE ExcAssumption, StackAssumption
<1>1. /\ pc = "rfi3" /\ pc' = hsrr.pc /\ msr' = hsrr.msr /\ ctxs' = Front(ctxs)
      /\ UNCHANGED <<vec, r, hsprg1, srr, hsrr, unrec, mem, kern_sp, frame, mapped, page>>
  BY DEF hrfid
<1>2. ~Dying /\ pc \in Leaving
  BY <1>1 DEF Dying, Entering, Leaving
<1>3. /\ Depth \in 1 .. 2 /\ CtxOK(kern_sp, Top) /\ (Top.pc = "rom" <=> Depth = 2)
      /\ Depth = 2 => ctxs[1].pc = "guest" /\ Holds(mem, kern_sp - EFRAME, ctxs[1])
      /\ CtxOK(kern_sp, ctxs[1])
  <2>1. CtxOK(kern_sp, ctxs[1])
    BY <1>1, <1>2 DEF IInv, Nesting
  <2> QED
    BY <1>2, <2>1, PathFacts
<1>4. hsrr = At(Top) /\ r = Top.r
  BY <1>1 DEF IInv, Leaves, Leaving
<1>5. pc' = Top.pc /\ msr' = Top.msr /\ pc' \in Contexts /\ Running(kern_sp, pc', msr', r)
  BY <1>1, <1>3, <1>4, CtxFacts DEF At, CtxOK
<1>6. IsSeq(ctxs') /\ Depth' = Depth - 1 /\ (Depth = 2 => ctxs'[1] = ctxs[1])
  <2>1. IsSeq(ctxs) /\ Len(ctxs) >= 1 /\ Depth = Len(ctxs)
    BY <1>3 DEF IInv, Shape, Depth
  <2>2. IsSeq(ctxs') /\ Len(ctxs') = Len(ctxs) - 1 /\ \A i \in 1 .. Len(ctxs) - 1 : ctxs'[i] = ctxs[i]
    BY <1>1, <2>1, SeqFront, Zenon
  <2>3. Depth' = Depth - 1
    BY <2>1, <2>2 DEF Depth
  <2>4. \A i \in 1 .. Depth - 1 : ctxs'[i] = ctxs[i]
    BY <2>1, <2>2
  <2> QED
    BY <2>2, <2>3, <2>4
<1>7. Types'
  <2>1. msr' \in [hv : BOOLEAN, ee : BOOLEAN, ri : BOOLEAN]
    BY <1>5, MsrValues DEF Running
  <2> QED
    BY <2>1, <1>1, <1>3, <1>5, <1>6 DEF IInv, Types, MaxDepth
<1>8. Shape' /\ Mapping'
  BY <1>1, <1>6 DEF IInv, Shape, Mapping
<1>9. Nesting'
  <2>1. pc' \notin Entering \cup Leaving \cup {"hang"} /\ kern_sp' = kern_sp /\ r' = r /\ mem' = mem
    BY <1>1, <1>5 DEF Contexts, Entering, Leaving
  <2>2. CASE Depth = 2
    <3>1. Depth' = 1 /\ ctxs'[1] = ctxs[1] /\ pc' = "rom"
      BY <2>2, <1>3, <1>5, <1>6
    <3> QED
      BY <2>1, <2>2, <3>1, <1>3, <1>5 DEF Nesting
  <2>3. CASE Depth = 1
    <3>1. Depth' = 0 /\ pc' # "rom"
      BY <2>3, <1>3, <1>5, <1>6
    <3> QED
      BY <2>1, <3>1, <1>5 DEF Nesting
  <2> QED
    BY <2>2, <2>3, <1>3
<1>10. PathMsr' /\ Dies' /\ Enters' /\ Leaves' /\ Hangs'
  BY <1>5 DEF PathMsr, Dies, Dying, Enters, Leaves, Hangs, Contexts, Entering, Leaving
<1> QED
  BY <1>7, <1>8, <1>9, <1>10 DEF IInv

-----------------------------------------------------------------------------
(* The boot code turns interrupts on and off.                              *)
LEMMA EeInv ==
    ASSUME IInv, exc_enable_ee \/ exc_disable_ee
    PROVE  IInv'
<1>1. /\ pc = "boot" /\ msr' \in {Hv(TRUE, TRUE), Hv(FALSE, TRUE)}
      /\ UNCHANGED <<pc, vec, r, hsprg1, srr, hsrr, unrec, mem, kern_sp, frame, mapped, page, ctxs>>
  BY DEF exc_enable_ee, exc_disable_ee, OnlyMsr
<1>2. Depth' = Depth /\ Depth = 0
  BY <1>1 DEF IInv, Nesting, Depth
<1>3. Types' /\ Shape' /\ Mapping'
  <2>1. msr' \in [hv : BOOLEAN, ee : BOOLEAN, ri : BOOLEAN]
    BY <1>1, MsrValues
  <2> QED
    BY <2>1, <1>1, <1>2 DEF IInv, Types, Shape, Mapping
<1>4. Nesting'
  <2>1. Running(kern_sp, pc, msr', r)
    BY <1>1 DEF IInv, Nesting, Running, Contexts
  <2> QED
    BY <1>1, <1>2, <2>1 DEF Nesting, Entering, Leaving
<1>5. PathMsr' /\ Dies' /\ Enters' /\ Leaves' /\ Hangs'
  BY <1>1 DEF PathMsr, Dies, Dying, Enters, Leaves, Hangs, Entering, Leaving
<1> QED
  BY <1>3, <1>4, <1>5 DEF IInv

(* c_main enters the guest for the first time.                             *)
LEMMA c_mainInv ==
    ASSUME IInv, c_main
    PROVE  IInv'
<1> USE ExcAssumption, StackAssumption
<1> DEFINE u == StackTop - 1
           st == Stash("none", "u", "u", uframe_start)
           rest == [r1 |-> GuestSp, rest |-> "u"]
           c == [pc |-> "guest", msr |-> GuestMsr, r |-> Regs(GuestSp, "u"), live |-> << >>]
<1>1. /\ pc = "boot" /\ "guest" \in mapped /\ kern_sp' = u /\ frame' = u
      /\ mem' = [mem EXCEPT ![u] = st, ![u + 1] = rest]
      /\ ctxs' = <<c>> /\ msr' = Hv(FALSE, TRUE) /\ pc' = "rfi1"
      /\ UNCHANGED <<vec, r, hsprg1, srr, hsrr, unrec, mapped, page>>
  BY DEF c_main
<1>2. Depth' = 1 /\ Top' = c /\ IsSeq(ctxs')
  <2>1. Depth' = 1 /\ Top' = c
    BY <1>1 DEF Depth, Top
  <2>2. ctxs' \in Seq({c})
    BY <1>1
  <2> QED
    BY <2>1, <2>2, SeqRange
<1>3. /\ mem' = [x \in Cells |-> mem'[x]] /\ DOMAIN mem' = Cells /\ mem'[u] = st /\ mem'[u + 1] = rest
  <2> DEFINE m1 == [mem EXCEPT ![u] = st]
  <2>1. u \in Cells /\ u + 1 \in Cells /\ u # u + 1 /\ mem = [x \in Cells |-> mem[x]]
    BY DEF Cells, GuestSp, EFRAME, IInv, Shape
  <2>2. mem' = [m1 EXCEPT ![u + 1] = rest] /\ m1 = [mem EXCEPT ![u] = st]
    BY <1>1
  <2> HIDE DEF m1, u, st, rest
  <2>3. m1 = [x \in Cells |-> m1[x]] /\ m1[u] = st
    BY <2>1, <2>2, MemWrite
  <2> QED
    BY <2>1, <2>2, <2>3, MemWrite
<1>4. CtxOK(u, c) /\ Live(mem', c) /\ Holds(mem', u, c) /\ c.pc = "guest"
  <2>1. /\ DOMAIN c.live = {} /\ c.pc = "guest" /\ c.msr = GuestMsr
        /\ c.r = [r0 |-> "u", r1 |-> GuestSp, r2 |-> "u", rest |-> "u"]
        /\ c = [pc |-> c.pc, msr |-> c.msr, r |-> c.r, live |-> c.live]
    BY DEF Regs
  <2>2. Running(u, c.pc, c.msr, c.r)
    BY <2>1 DEF Running
  <2>3. CtxOK(u, c) /\ Live(mem', c)
    BY <2>1, <2>2 DEF CtxOK, Live
  <2>4. Holds(mem', u, c)
    BY <2>1, <1>3 DEF Holds, Stash, At, uframe_start
  <2> QED
    BY <2>1, <2>3, <2>4
<1> HIDE DEF c
<1>5. r.r1 = StackTop - 2
  BY <1>1 DEF IInv, Nesting, Running, Contexts
<1>6. Types'
  BY <1>1, <1>2, <1>3 DEF IInv, Types, Steps, Hv, MaxDepth, GuestSp, EFRAME
<1>7. Shape' /\ Mapping'
  BY <1>1, <1>2, <1>3 DEF IInv, Shape, Mapping
<1>8. Nesting'
  BY <1>1, <1>2, <1>4 DEF Nesting, Top, Contexts
<1>9. PathMsr' /\ Dies' /\ Enters' /\ Hangs'
  BY <1>1, <1>5 DEF PathMsr, Dies, Enters, Hangs, Dying, Entering, Leaving
<1>10. Leaves'
  BY <1>1, <1>2, <1>4 DEF Leaves
<1> QED
  BY <1>6, <1>7, <1>8, <1>9, <1>10 DEF IInv

-----------------------------------------------------------------------------
(* Every step keeps the invariant.                                         *)
LEMMA NextInv == IInv /\ [Next]_vars => IInv'
<1> SUFFICES ASSUME IInv, [Next]_vars PROVE IInv'
  OBVIOUS
<1>0. page \in Pages \cup {"none"} /\ (msr.ee => pc \in Contexts)
  BY DEF IInv, Mapping, PathMsr, Types, Steps, Entering, Leaving, Hv
<1>1. CASE Vector
  BY <1>1, DEF_EXCInv, exc_sysInv, exc_contInv, exc_more_saveInv DEF Vector
<1>2. CASE Handler
  <2>1. CASE guest_fault_seg \/ handle_page \/ handle_dec
    BY <2>1, <1>0, ResolveInv DEF guest_fault_seg, handle_page, handle_dec
  <2>2. CASE emulate \/ bad
    BY <2>2, emulateInv, badInv
  <2> QED
    BY <1>2, <2>1, <2>2 DEF Handler
<1>3. ASSUME NEW d \in 0 .. 1, guest_sc(d) PROVE IInv'
  BY <1>3, guest_scInv
<1>4. CASE Return
  BY <1>4, rfi_hsrrInv, rfi_regsInv, hrfidInv DEF Return
<1>5. CASE rom_return \/ c_main \/ exc_enable_ee \/ exc_disable_ee \/ MachineCheck
  BY <1>5, rom_returnInv, c_mainInv, EeInv, MachineCheckInv
<1>6. CASE Dec \/ RomSegMiss
  BY <1>6, <1>0, TakeInv DEF Dec, RomSegMiss, Contexts
<1>7. ASSUME NEW v \in GuestExcs, GuestExc(v) PROVE IInv'
  BY <1>7, <1>0, TakeInv DEF GuestExc, Contexts
<1>8. ASSUME NEW v \in {"DSI", "ISI"}, NEW p \in Pages, HvFault(v, p) PROVE IInv'
  BY <1>8, TakeInv DEF HvFault, Contexts
<1>81. ASSUME NEW v \in {"DSI", "ISI"}, GuestFault(v) PROVE IInv'
  BY <1>81, TakeInv DEF GuestFault, Contexts
<1>9. CASE UNCHANGED vars
  <2>1. Depth' = Depth /\ Top' = Top /\ Saved' = Saved /\ FrameStash' = FrameStash /\ (Dying' <=> Dying)
    BY <1>9 DEF vars, Depth, Top, Saved, FrameStash, Dying
  <2>2. Types' /\ Shape' /\ Mapping' /\ PathMsr' /\ Hangs'
    <3>1. Types' /\ Shape'
      BY <1>9, <2>1 DEF vars, IInv, Types, Shape
    <3>2. Mapping' /\ PathMsr' /\ Hangs'
      BY <1>9, <2>1 DEF vars, IInv, Mapping, PathMsr, Hangs, Declined
    <3> QED
      BY <3>1, <3>2
  <2>3. Nesting'
    BY <1>9, <2>1 DEF vars, IInv, Nesting
  <2>4. Dies' /\ Enters' /\ Leaves'
    BY <1>9, <2>1 DEF vars, IInv, Dies, Enters, Leaves
  <2> QED
    BY <2>2, <2>3, <2>4 DEF IInv
<1> QED
  BY <1>1, <1>2, <1>3, <1>4, <1>5, <1>6, <1>7, <1>8, <1>81, <1>9 DEF Next, Cpu

(* The invariant holds always.                                             *)
LEMMA Invariant == Spec => []IInv
BY InitInv, NextInv, PTL DEF Spec

(* Whenever exc_rfi is about to return, the code that was interrupted      *)
(* finds its registers, PC, MSR, stack and the zone below r1 as it left    *)
(* them.                                                                   *)
THEOREM ContextRestoredAlways == Spec => []ContextRestored
<1>1. IInv => ContextRestored
  BY DEF IInv, Leaves, Leaving, Live, ContextRestored, Last, Top, Depth, At
<1> QED
  BY Invariant, <1>1, PTL

(* exc_handler hangs only on vectors it does not handle and on exceptions  *)
(* that came with RI set and that a handler declined for what they ask; an *)
(* exception never hangs the machine because of when it came. And every    *)
(* variable has its type.                                                  *)
THEOREM OnlyFatalHangsAlways == Spec => []OnlyFatalHangs
<1>1. IInv => OnlyFatalHangs
  <2> SUFFICES ASSUME IInv PROVE OnlyFatalHangs
    OBVIOUS
  <2>1. Depth <= MaxDepth
    BY DEF IInv, Types, MaxDepth
  <2>2. Len(ctxs) <= MaxDepth
    BY <2>1 DEF Depth
  <2> QED
    BY <2>2 DEF IInv, Hangs, Types, OnlyFatalHangs, TypeOK
<1> QED
  BY Invariant, <1>1, PTL
====
