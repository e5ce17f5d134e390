-------------------------------- MODULE Time --------------------------------
(***************************************************************************)
(* The timer queue (time.c) on the timebase and the decrementer, with its  *)
(* two entries: time_enqueue, from callers with EE off (as cpu_init is)    *)
(* and on, and the decrementer interrupt. A callback sets again only its   *)
(* own timer.                                                              *)
(*                                                                         *)
(* Every instant is kept relative to the timebase: mftb() is 0 and a tick  *)
(* lowers them all. The 64 bits of the real timebase do not wrap.          *)
(***************************************************************************)
EXTENDS Integers, SequencesExt

CONSTANTS
    Timers,         \* time_req_t structures
    End,            \* &reqs, where every loop ends
    opal_timer,     \* the one of main.c
    HeartbeatMs,    \* ibm,heartbeat-ms of the device tree in ticks, 0 if absent
    Delays,         \* how far in the future a caller sets a timer
    Periods,        \* how far in the future a callback sets its timer again
    DEC_DISABLE,    \* the largest decrementer value
    MaxRun,         \* bound on the ticks that one time_handle lasts
    MaxLate         \* bound on how long ago a remembered instant is

ASSUME TimeAssumption ==
    /\ opal_timer \in Timers /\ End \notin Timers
    /\ DEC_DISABLE \in Nat /\ MaxRun \in Nat /\ MaxLate \in Nat /\ MaxLate > MaxRun
    /\ HeartbeatMs \in Nat /\ Delays \subseteq Nat
    /\ \A p \in Periods : p \in Nat /\ p > MaxRun

VARIABLES
    reqs,       \* reqs: the queue
    when,       \* t->when of every timer, relative to the timebase
    dec,        \* the decrementer; -1 once it has underflown
    stack,      \* active time_handle calls, innermost last
    ee,         \* MSR.EE
    ctx,        \* what the CPU is executing
    nested,     \* time_handle has been interrupted by time_handle
    halt        \* "no", or what stopped the machine

vars == <<reqs, when, dec, stack, ee, ctx, nested, halt>>
cpu == <<ee, ctx, nested>>

Queued(q, t) == \E i \in DOMAIN q : q[i] = t

(* link.next of t in the queue q, or of the head.                          *)
NextOf(q, t) ==
    LET pos == IF t = End THEN 0 ELSE CHOOSE i \in DOMAIN q : q[i] = t
    IN  IF pos < Len(q) THEN q[pos + 1] ELSE End

(* Bug: t always goes to the end.                                          *)
time_enqueue_int_Tail(q, w, t) == IF Queued(q, t) THEN q ELSE Append(q, t)

(* time_enqueue_int with w the instants: t stays where it is if the walk   *)
(* meets it, and otherwise goes in front of the first timer due later.     *)
time_enqueue_int(q, w, t) ==
    LET stop == SelectInSeq(q, LAMBDA pos : pos = t \/ w[pos] > w[t])
    IN  IF stop = 0 THEN Append(q, t)
        ELSE IF q[stop] = t THEN q ELSE InsertAt(q, stop, t)

(***************************************************************************)
(* time_handle.                                                            *)
(***************************************************************************)
(* A call: the loop's t and n, the last mftb, the ticks since it began.    *)
Frame(q, by) ==
    [t |-> NextOf(q, End), n |-> NextOf(q, NextOf(q, End)), now |-> 0, ran |-> 0, pc |-> "loop", by |-> by]

Top == stack[Len(stack)]
Running == halt = "no" /\ stack # <<>>
SetTop(f) == stack' = ReplaceAt(stack, Len(stack), f)

(* Bug: the loop does not move on.                                         *)
Advance_Stay(q, n) == SetTop([Top EXCEPT !.pc = "loop"]) /\ UNCHANGED halt

(* t = n, n = n->next: following a link of an unlinked timer reads poison. *)
Advance(q, n) ==
    IF n = End \/ Queued(q, n)
    THEN SetTop([Top EXCEPT !.t = n, !.n = NextOf(q, n), !.pc = "loop"]) /\ UNCHANGED halt
    ELSE halt' = "dangling" /\ UNCHANGED stack

(* One round up to the callback: an expired timer is unlinked, the first   *)
(* one that is not ends the loop. Unlinking what is not linked follows the *)
(* poison of list_del.                                                     *)
Expire ==
    /\ Running /\ Top.pc = "loop" /\ Top.t # End
    /\ IF when[Top.t] > 0
       THEN SetTop([Top EXCEPT !.now = 0, !.pc = "set"]) /\ UNCHANGED <<reqs, halt>>
       ELSE IF Queued(reqs, Top.t)
       THEN /\ reqs' = RemoveFirst(reqs, Top.t)
            /\ SetTop([Top EXCEPT !.now = 0, !.pc = "cb"]) /\ UNCHANGED halt
       ELSE halt' = "dangling" /\ UNCHANGED <<reqs, stack>>
    /\ UNCHANGED <<when, dec, cpu>>

(* A callback that returns false.                                          *)
OneShot ==
    /\ Running /\ Top.pc = "cb"
    /\ Advance(reqs, Top.n)
    /\ UNCHANGED <<reqs, when, dec, cpu>>

(* A recurring callback sets its timer again, counting from now.           *)
opal_timer_cb(t, period) == [when EXCEPT ![t] = period]

(* Bug: n is not corrected when t comes before it.                         *)
Recurring_KeepN(period) ==
    /\ Running /\ Top.pc = "cb"
    /\ LET w == opal_timer_cb(Top.t, period)
           q == time_enqueue_int(reqs, w, Top.t)
       IN  /\ when' = w
           /\ reqs' = q
           /\ IF w[Top.t] <= Top.now THEN halt' = "stale" /\ UNCHANGED stack
              ELSE Advance(q, Top.n)
    /\ UNCHANGED <<dec, cpu>>

(* A callback that returns true: BUG_ON(t->when <= now), then t is queued  *)
(* again and is the next one to look at if it comes before n.              *)
Recurring(period) ==
    /\ Running /\ Top.pc = "cb"
    /\ LET w == opal_timer_cb(Top.t, period)
           q == time_enqueue_int(reqs, w, Top.t)
       IN  /\ when' = w
           /\ reqs' = q
           /\ IF w[Top.t] <= Top.now THEN halt' = "stale" /\ UNCHANGED stack
              ELSE IF Top.n = End THEN SetTop([Top EXCEPT !.pc = "set"]) /\ UNCHANGED halt
              ELSE Advance(q, IF w[Top.t] < w[Top.n] THEN Top.t ELSE Top.n)
    /\ UNCHANGED <<dec, cpu>>

(* The decrementer value for the timer f.t that ended the loop: when - now *)
(* in unsigned arithmetic, DEC_DISABLE if that is more or if there is none.*)
DecFor(f) ==
    IF f.t # End /\ when[f.t] - f.now \in 0 .. DEC_DISABLE - 1
    THEN when[f.t] - f.now ELSE DEC_DISABLE

(* Bug: the interrupted context goes on with EE off.                       *)
SetDec_Masked ==
    /\ Running
    /\ Top.pc = "loop" => Top.t = End
    /\ Top.pc # "cb"
    /\ dec' = DecFor(Top)
    /\ stack' = Front(stack)
    /\ IF Top.by = "dec" THEN ctx' = "run" /\ UNCHANGED <<ee, nested>> ELSE UNCHANGED cpu
    /\ UNCHANGED <<reqs, when, halt>>

(* set_DEC and return, to time_enqueue's caller or through exc_rfi.        *)
SetDec ==
    /\ Running
    /\ Top.pc = "loop" => Top.t = End
    /\ Top.pc # "cb"
    /\ dec' = DecFor(Top)
    /\ stack' = Front(stack)
    /\ IF Top.by = "dec" THEN ee' = TRUE /\ ctx' = "run" /\ UNCHANGED nested ELSE UNCHANGED cpu
    /\ UNCHANGED <<reqs, when, halt>>

(***************************************************************************)
(* The calls.                                                              *)
(***************************************************************************)
(* time_prep and time_enqueue of a timer that is not queued. Where EE was  *)
(* on, exc_restore_ee turns it on again before time_handle.                *)
time_enqueue(t, delay) ==
    /\ LET w == [when EXCEPT ![t] = delay]
           q == time_enqueue_int(reqs, w, t)
       IN  when' = w /\ reqs' = q /\ stack' = Append(stack, Frame(q, "call"))

Enqueue(t, delay) ==
    /\ halt = "no" /\ ctx \in {"armed", "run", "trap"} /\ stack = <<>> /\ ~Queued(reqs, t)
    /\ time_enqueue(t, delay)
    /\ UNCHANGED <<dec, cpu, halt>>

(* time_enqueue of a timer that is queued already.                         *)
EnqueueAgain(t) ==
    /\ halt = "no" /\ ctx \in {"run", "trap"} /\ stack = <<>> /\ Queued(reqs, t)
    /\ reqs' = time_enqueue_int(reqs, when, t)
    /\ stack' = <<Frame(reqs', "call")>>
    /\ UNCHANGED <<when, dec, cpu, halt>>

(* time_dequeue turns EE off while it walks, and leaves the decrementer.   *)
time_dequeue(t) ==
    /\ halt = "no" /\ ctx \in {"run", "trap"} /\ stack = <<>> /\ Queued(reqs, t)
    /\ reqs' = RemoveFirst(reqs, t)
    /\ UNCHANGED <<when, dec, stack, cpu, halt>>

(* libfdt's answer for a node offset; -1 is no node.                       *)
fdt_node_check_compatible(offset) == IF offset < 0 THEN -1 ELSE 0

(* cpu_init up to the timer: time_init and, if the device tree asks for    *)
(* one, the heartbeat.                                                     *)
cpu_init ==
    /\ ctx = "boot"
    /\ LET opal_ms == IF fdt_node_check_compatible(-1) >= 0 THEN HeartbeatMs ELSE 0
       IN  IF opal_ms # 0 THEN time_enqueue(opal_timer, opal_ms)
           ELSE UNCHANGED <<reqs, when, stack>>
    /\ ctx' = "armed"
    /\ UNCHANGED <<dec, ee, nested, halt>>

(* The end of cpu_init.                                                    *)
exc_enable_ee ==
    /\ halt = "no" /\ ctx = "armed" /\ stack = <<>>
    /\ ee' = TRUE /\ ctx' = "run"
    /\ UNCHANGED <<reqs, when, dec, stack, nested, halt>>

(* Any other exception, or the exc_disable_ee of c_main.                   *)
Trap ==
    /\ halt = "no" /\ ctx = "run" /\ ee /\ stack = <<>>
    /\ ee' = FALSE /\ ctx' = "trap"
    /\ UNCHANGED <<reqs, when, dec, stack, nested, halt>>

exc_rfi ==
    /\ halt = "no" /\ ctx = "trap" /\ stack = <<>>
    /\ ee' = TRUE /\ ctx' = "run"
    /\ UNCHANGED <<reqs, when, dec, stack, nested, halt>>

(* EXC_DEC: exc_handler calls time_handle, also inside the time_handle of  *)
(* a caller with EE on.                                                    *)
DecInterrupt ==
    /\ halt = "no" /\ dec < 0 /\ ee
    /\ nested' = (nested \/ stack # <<>>)
    /\ ee' = FALSE /\ ctx' = "dec"
    /\ stack' = Append(stack, Frame(reqs, "dec"))
    /\ UNCHANGED <<reqs, when, dec, halt>>

(* The timebase goes on, and the decrementer with it.                      *)
Earlier(x) == IF x > -MaxLate THEN x - 1 ELSE x

Tick ==
    /\ halt = "no"
    /\ \A i \in DOMAIN stack : stack[i].ran < MaxRun
    /\ when' = [t \in Timers |-> Earlier(when[t])]
    /\ dec' = IF dec < 0 THEN dec ELSE dec - 1
    /\ stack' = [i \in DOMAIN stack |-> [stack[i] EXCEPT !.now = @ - 1, !.ran = @ + 1]]
    /\ UNCHANGED <<reqs, cpu, halt>>

Init ==
    /\ reqs = <<>> /\ when = [t \in Timers |-> -MaxLate] /\ dec \in {-1, DEC_DISABLE}
    /\ stack = <<>> /\ ee = FALSE /\ ctx = "boot" /\ nested = FALSE /\ halt = "no"

(* After a BUG or a poisoned link.                                         *)
Halted == halt # "no" /\ UNCHANGED vars

Handle == Expire \/ OneShot \/ SetDec \/ \E p \in Periods : Recurring(p)

Call ==
    \E t \in Timers :
        \/ \E d \in Delays : Enqueue(t, d)
        \/ EnqueueAgain(t)
        \/ time_dequeue(t)

Next ==
    \/ Handle \/ Call \/ Tick \/ DecInterrupt
    \/ cpu_init \/ exc_enable_ee \/ Trap \/ exc_rfi \/ Halted

(* Time passes and the CPU goes on with what it has begun. A pending       *)
(* decrementer is taken at some point if EE is on again and again.         *)
Fairness ==
    /\ WF_vars(Tick) /\ WF_vars(Handle) /\ WF_vars(cpu_init) /\ WF_vars(exc_enable_ee)
    /\ SF_vars(exc_rfi) /\ SF_vars(DecInterrupt)

Spec == Init /\ [][Next]_vars /\ Fairness

-----------------------------------------------------------------------------
(* Every variable has its type.                                            *)
TypeOK ==
    /\ reqs \in Seq(Timers)
    /\ when \in [Timers -> Int]
    /\ dec \in -1 .. DEC_DISABLE
    /\ ee \in BOOLEAN /\ ctx \in {"boot", "armed", "run", "trap", "dec"} /\ nested \in BOOLEAN
    /\ halt \in {"no", "stale", "dangling"}

(* The queue is sorted by due time and holds no timer twice, in the middle *)
(* of time_handle too; the decrementer never gets more than it can count.  *)
(* This and what follows is about time_handle that was not interrupted by  *)
(* itself, which a caller of time_enqueue with EE on allows.               *)
QueueSorted ==
    ~nested =>
        /\ TypeOK
        /\ \A i, j \in DOMAIN reqs : i < j => reqs[i] # reqs[j] /\ when[reqs[i]] <= when[reqs[j]]

(* Whenever time_handle is not running, the decrementer fires for the      *)
(* first timer at the latest one time_handle run after it is due, after    *)
(* any sequence of insertions, callbacks and removals.                     *)
DecArmed ==
    ~nested /\ stack = <<>> /\ reqs # <<>> => dec < 0 \/ dec <= when[reqs[1]] + MaxRun

(* Every queued timer is called or dequeued, those that are further away   *)
(* than the decrementer counts included.                                   *)
TimersFire == \A t \in Timers : Queued(reqs, t) ~> ~Queued(reqs, t) \/ nested

(* time_handle returns: a callback that sets its timer again does not keep *)
(* the loop going, and however late it is called, "enqueuing stale timer"  *)
(* does not stop it, nor a link that list_del has poisoned.                *)
HandlerReturns == stack # <<>> ~> stack = <<>> \/ nested
=============================================================================
