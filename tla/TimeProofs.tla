----------------------------- MODULE TimeProofs -----------------------------
(***************************************************************************)
(* That the timer queue stays sorted and the decrementer armed for the     *)
(* first timer, for any set of timers, delays and periods and any          *)
(* decrementer, until an interrupt runs time_handle inside time_handle.    *)
(***************************************************************************)
EXTENDS Time, ListLemmas

Sorted(q, w) == \A i, j \in 1 .. Len(q) : i < j => q[i] # q[j] /\ w[q[i]] <= w[q[j]]
Stops(q, w, t) == {i \in 1 .. Len(q) : q[i] = t \/ w[q[i]] > w[t]}

(* The first two timers of a queue, or its head.                           *)
First(q) == IF Len(q) > 0 THEN q[1] ELSE End
Second(q) == IF Len(q) > 1 THEN q[2] ELSE End

-----------------------------------------------------------------------------
(* The queue.                                                              *)
LEMMA EnqueueInt ==
    ASSUME NEW q, NEW w, NEW t
    PROVE  /\ Stops(q, w, t) = {} => time_enqueue_int(q, w, t) = Append(q, t)
           /\ Stops(q, w, t) # {} =>
                time_enqueue_int(q, w, t) =
                    IF q[Min(Stops(q, w, t))] = t THEN q ELSE InsertAt(q, Min(Stops(q, w, t)), t)
<1> DEFINE T == Stops(q, w, t)
           stop == SelectInSeq(q, LAMBDA pos : pos = t \/ w[pos] > w[t])
<1>1. stop = IF T # {} THEN Min(T) ELSE 0
  BY DEF SelectInSeq, Stops
<1>2. time_enqueue_int(q, w, t) =
        IF stop = 0 THEN Append(q, t) ELSE IF q[stop] = t THEN q ELSE InsertAt(q, stop, t)
  BY DEF time_enqueue_int
<1>3. T # {} => Min(T) # 0
  <2>1. T \subseteq Nat /\ 0 \notin T
    BY DEF Stops
  <2> HIDE DEF T
  <2> QED
    BY <2>1, MinFacts
<1> HIDE DEF T, stop
<1>4. /\ T = {} => time_enqueue_int(q, w, t) = Append(q, t)
      /\ T # {} => time_enqueue_int(q, w, t) = IF q[Min(T)] = t THEN q ELSE InsertAt(q, Min(T), t)
  BY <1>1, <1>2, <1>3, Zenon
<1> QED
  BY <1>4, Zenon DEF T

(* p is the queue q with the timer t added, in order.                      *)
Added(p, q, w, t) ==
    /\ p \in Seq(Timers) /\ Len(p) = Len(q) + 1
    /\ Sorted(p, w)
    /\ p[1] = IF Len(q) = 0 \/ w[t] < w[q[1]] THEN t ELSE q[1]

(* p is the queue q without the timer t.                                   *)
Removed(p, q, w, t) ==
    /\ p \in Seq(Timers) /\ Len(p) = Len(q) - 1
    /\ Sorted(p, w)
    /\ \A i \in 1 .. Len(p) : p[i] # t
    /\ \A i \in 1 .. Len(p) : i + 1 \in 1 .. Len(q) /\ (p[i] = q[i] \/ p[i] = q[i + 1])
    /\ q[1] = t => First(p) = Second(q)

(* Queueing a timer that is not queued keeps the order; it becomes the     *)
(* first one exactly when it is due before the first one.                  *)
LEMMA EnqueueNew ==
    ASSUME NEW q \in Seq(Timers), NEW w \in [Timers -> Int], NEW t \in Timers,
           Sorted(q, w), ~Queued(q, t)
    PROVE  Added(time_enqueue_int(q, w, t), q, w, t)
<1> SUFFICES ASSUME NEW p, p = time_enqueue_int(q, w, t) PROVE Added(p, q, w, t)
  OBVIOUS
<1> DEFINE T == Stops(q, w, t)
<1>0. \A i \in 1 .. Len(q) : q[i] # t
  BY DEF Queued
<1>1. T \subseteq Nat
  BY DEF Stops
<1>2. CASE T = {}
  <2>1. p = Append(q, t)
    BY <1>2, EnqueueInt
  <2>2. p \in Seq(Timers) /\ Len(p) = Len(q) + 1
    BY <2>1
  <2>3. \A i \in 1 .. Len(q) : p[i] = q[i]
    BY <2>1
  <2>4. p[Len(q) + 1] = t
    BY <2>1
  <2>5. \A i \in 1 .. Len(q) : q[i] \in Timers /\ w[q[i]] \in Int /\ w[q[i]] <= w[t]
    BY <1>0, <1>2 DEF Stops
  <2>6. ASSUME NEW i \in 1 .. Len(p), NEW j \in 1 .. Len(p), i < j
        PROVE  p[i] # p[j] /\ w[p[i]] <= w[p[j]]
    <3>1. i \in 1 .. Len(q) /\ p[i] = q[i]
      BY <2>2, <2>3, <2>6, SMTT(30)
    <3>2. CASE j = Len(q) + 1
      BY <1>0, <3>1, <3>2, <2>4, <2>5
    <3>3. CASE j \in 1 .. Len(q)
      BY <3>1, <3>3, <2>3, <2>6 DEF Sorted
    <3> QED
      BY <3>2, <3>3, <2>2
  <2>7. p[1] = IF Len(q) = 0 \/ w[t] < w[q[1]] THEN t ELSE q[1]
    BY <2>3, <2>4, <2>5
  <2> QED
    BY <2>2, <2>6, <2>7 DEF Sorted, Added
<1>3. CASE T # {}
  <2> DEFINE k == Min(T)
  <2>1. k \in T /\ \A y \in T : k <= y
    BY <1>1, <1>3, MinFacts
  <2> HIDE DEF k
  <2>2. k \in 1 .. Len(q) /\ w[q[k]] > w[t] /\ q[k] # t
    BY <1>0, <2>1 DEF Stops
  <2>3. p = InsertAt(q, k, t)
    BY <1>3, <2>2, EnqueueInt DEF k
  <2>4. /\ p \in Seq(Timers) /\ Len(p) = Len(q) + 1
        /\ \A j \in 1 .. Len(q) + 1 : p[j] = IF j < k THEN q[j] ELSE IF j = k THEN t ELSE q[j - 1]
    <3>1. k \in 1 .. Len(q) + 1
      BY <2>2
    <3>2. /\ InsertAt(q, k, t) \in Seq(Timers) /\ Len(InsertAt(q, k, t)) = Len(q) + 1
          /\ \A j \in 1 .. Len(q) + 1 :
                InsertAt(q, k, t)[j] = IF j < k THEN q[j] ELSE IF j = k THEN t ELSE q[j - 1]
      BY <3>1, InsertAtFacts
    <3> QED
      BY <2>3, <3>2, Zenon
  <2>5. \A i \in 1 .. Len(q) : q[i] \in Timers /\ w[q[i]] \in Int /\ (i < k => w[q[i]] <= w[t])
    BY <1>0, <2>1, <2>2 DEF Stops
  <2>6. \A i \in 1 .. Len(q) : i >= k => w[q[i]] > w[t]
    BY <2>2, <2>5 DEF Sorted
  <2>7. ASSUME NEW i \in 1 .. Len(p), NEW j \in 1 .. Len(p), i < j
        PROVE  p[i] # p[j] /\ w[p[i]] <= w[p[j]]
    <3>1. CASE j < k
      <4>0. i < k /\ i \in 1 .. Len(q) /\ j \in 1 .. Len(q) /\ i \in 1 .. Len(q) + 1 /\ j \in 1 .. Len(q) + 1
        <5>1. Len(q) \in Nat /\ Len(p) = Len(q) + 1 /\ k \in 1 .. Len(q)
          BY <2>2, <2>4
        <5> QED
          BY <3>1, <2>7, <5>1
      <4>1. p[i] = q[i] /\ p[j] = q[j] /\ i \in 1 .. Len(q) /\ j \in 1 .. Len(q)
        BY <3>1, <4>0, <2>4, Zenon
      <4> QED
        BY <4>1, <2>7 DEF Sorted
    <3>2. CASE j = k
      <4>1. p[i] = q[i] /\ p[j] = t /\ i \in 1 .. Len(q) /\ i < k
        BY <3>2, <2>2, <2>4, <2>7
      <4> QED
        BY <4>1, <2>5, <1>0
    <3>3. CASE j > k /\ i < k
      <4>1. p[i] = q[i] /\ p[j] = q[j - 1] /\ i < j - 1 /\ i \in 1 .. Len(q) /\ j - 1 \in 1 .. Len(q)
        BY <3>3, <2>2, <2>4, <2>7
      <4> QED
        BY <4>1 DEF Sorted
    <3>4. CASE j > k /\ i = k
      <4>1. p[i] = t /\ p[j] = q[j - 1] /\ j - 1 >= k /\ j - 1 \in 1 .. Len(q)
        BY <3>4, <2>2, <2>4, <2>7
      <4> QED
        BY <4>1, <2>5, <2>6
    <3>5. CASE j > k /\ i > k
      <4>1. p[i] = q[i - 1] /\ p[j] = q[j - 1] /\ i - 1 < j - 1 /\ i - 1 \in 1 .. Len(q) /\ j - 1 \in 1 .. Len(q)
        BY <3>5, <2>2, <2>4, <2>7
      <4> QED
        BY <4>1 DEF Sorted
    <3>6. j < k \/ j = k \/ (j > k /\ i < k) \/ (j > k /\ i = k) \/ (j > k /\ i > k)
      BY <2>2, <2>4
    <3> QED
      BY <3>1, <3>2, <3>3, <3>4, <3>5, <3>6, Zenon
  <2>8. Sorted(p, w)
    BY <2>7 DEF Sorted
  <2>9. p[1] = IF Len(q) = 0 \/ w[t] < w[q[1]] THEN t ELSE q[1]
    <3>1. /\ Len(q) \in Nat /\ Len(q) # 0 /\ 1 \in 1 .. Len(q) + 1 /\ 1 \in 1 .. Len(q) /\ k \in Nat
          /\ w[t] \in Int /\ w[q[1]] \in Int
      BY <2>2, <2>5
    <3>2. CASE k = 1
      <4>1. p[1] = t
        BY <2>4, <3>1, <3>2
      <4>2. w[q[1]] > w[t]
        BY <2>6, <3>1, <3>2
      <4> QED
        BY <3>1, <4>1, <4>2
    <3>3. CASE k > 1
      <4>1. p[1] = q[1]
        BY <2>4, <3>1, <3>3
      <4>2. w[q[1]] <= w[t]
        BY <2>5, <3>1, <3>3
      <4> QED
        BY <3>1, <4>1, <4>2
    <3> QED
      BY <2>2, <3>2, <3>3
  <2> QED
    BY <2>4, <2>8, <2>9 DEF Added
<1> QED
  BY <1>2, <1>3

(* Queueing a timer that is queued changes nothing.                        *)
LEMMA EnqueueOld ==
    ASSUME NEW q \in Seq(Timers), NEW w \in [Timers -> Int], NEW t \in Timers,
           Sorted(q, w), Queued(q, t)
    PROVE  time_enqueue_int(q, w, t) = q
<1> DEFINE T == Stops(q, w, t)
<1>1. PICK m \in 1 .. Len(q) : q[m] = t
  BY DEF Queued
<1>2. m \in T /\ T \subseteq Nat
  BY <1>1 DEF Stops
<1> DEFINE k == Min(T)
<1>3. k \in T /\ k <= m
  BY <1>2, MinFacts
<1> HIDE DEF k
<1>4. k \in 1 .. Len(q) /\ (q[k] = t \/ w[q[k]] > w[t])
  BY <1>3 DEF Stops
<1>5. q[k] = t
  <2>1. CASE k < m
    <3>1. w[q[k]] <= w[q[m]] /\ q[k] \in Timers
      BY <2>1, <1>4 DEF Sorted
    <3>2. w[q[k]] \in Int /\ w[t] \in Int
      BY <3>1
    <3> QED
      BY <3>1, <3>2, <1>1, <1>4
  <2>2. CASE k = m
    BY <2>2, <1>1
  <2> QED
    BY <2>1, <2>2, <1>3, <1>4
<1> QED
  BY <1>2, <1>5, EnqueueInt DEF k

(* Unlinking a timer keeps the order and removes that timer only.          *)
LEMMA Dequeue ==
    ASSUME NEW q \in Seq(Timers), NEW w, NEW t \in Timers, Sorted(q, w), Queued(q, t)
    PROVE  Removed(RemoveFirst(q, t), q, w, t)
<1> SUFFICES ASSUME NEW p, p = RemoveFirst(q, t) PROVE Removed(p, q, w, t)
  OBVIOUS
<1> DEFINE T == {i \in 1 .. Len(q) : q[i] = t}
<1>1. PICK m \in 1 .. Len(q) : q[m] = t
  BY DEF Queued
<1>2. T # {} /\ T \subseteq Nat
  BY <1>1
<1> DEFINE k == Min(T)
<1>3. SelectInSeq(q, LAMBDA v : v = t) = k
  BY <1>2 DEF SelectInSeq
<1>4. k \in T
  BY <1>2, MinFacts
<1>5. p = RemoveAt(q, k)
  BY <1>1, <1>3 DEF RemoveFirst
<1> HIDE DEF k
<1>6. k \in 1 .. Len(q) /\ q[k] = t
  BY <1>4
<1>7. /\ p \in Seq(Timers) /\ Len(p) = Len(q) - 1
      /\ \A j \in 1 .. Len(q) - 1 : p[j] = IF j < k THEN q[j] ELSE q[j + 1]
  BY <1>5, <1>6, RemoveAtFacts
<1>8. ASSUME NEW i \in 1 .. Len(p), NEW j \in 1 .. Len(p), i < j
      PROVE  p[i] # p[j] /\ w[p[i]] <= w[p[j]]
  <2>1. PICK a \in 1 .. Len(q) : p[i] = q[a] /\ a = IF i < k THEN i ELSE i + 1
    BY <1>6, <1>7
  <2>2. PICK b \in 1 .. Len(q) : p[j] = q[b] /\ b = IF j < k THEN j ELSE j + 1
    BY <1>6, <1>7
  <2>3. a < b
    BY <2>1, <2>2, <1>6, <1>7, <1>8
  <2> QED
    BY <2>1, <2>2, <2>3 DEF Sorted
<1>9. Sorted(p, w)
  BY <1>8 DEF Sorted
<1>10. ASSUME NEW i \in 1 .. Len(p) PROVE p[i] # t
  <2>1. CASE i < k
    BY <2>1, <1>6, <1>7 DEF Sorted
  <2>2. CASE i >= k
    <3>1. p[i] = q[i + 1] /\ k < i + 1 /\ i + 1 \in 1 .. Len(q)
      BY <2>2, <1>6, <1>7
    <3> QED
      BY <3>1, <1>6 DEF Sorted
  <2> QED
    BY <2>1, <2>2, <1>6, <1>7
<1>11. ASSUME NEW i \in 1 .. Len(p) PROVE i + 1 \in 1 .. Len(q) /\ (p[i] = q[i] \/ p[i] = q[i + 1])
  BY <1>7
<1>12. ASSUME q[1] = t PROVE First(p) = Second(q)
  <2>1. k = 1
    BY <1>6, <1>12 DEF Sorted
  <2> QED
    BY <2>1, <1>7 DEF First, Second
<1> QED
  BY <1>7, <1>9, <1>10, <1>11, <1>12 DEF Removed

(* What the loop reads at its start and when it moves to the first timer.  *)
LEMMA NextOfFacts ==
    ASSUME NEW q \in Seq(Timers), NEW w, Sorted(q, w)
    PROVE  /\ NextOf(q, End) = First(q)
           /\ NextOf(q, First(q)) = Second(q)
<1>1. NextOf(q, End) = First(q)
  BY DEF NextOf, First
<1>2. CASE Len(q) = 0
  BY <1>1, <1>2 DEF First, Second
<1>3. CASE Len(q) > 0
  <2>1. q[1] \in Timers /\ q[1] # End
    BY <1>3, TimeAssumption
  <2>2. (CHOOSE i \in DOMAIN q : q[i] = q[1]) = 1
    <3>1. \A i \in DOMAIN q : q[i] = q[1] => i = 1
      BY <1>3 DEF Sorted
    <3>2. 1 \in DOMAIN q
      BY <1>3
    <3> QED
      BY <3>1, <3>2
  <2>3. NextOf(q, q[1]) = IF 1 < Len(q) THEN q[2] ELSE End
    <3> DEFINE pos == IF q[1] = End THEN 0 ELSE CHOOSE i \in DOMAIN q : q[i] = q[1]
    <3>1. NextOf(q, q[1]) = IF pos < Len(q) THEN q[pos + 1] ELSE End
      BY DEF NextOf
    <3>2. pos = 1
      BY <2>1, <2>2, Zenon
    <3> HIDE DEF pos
    <3> QED
      BY <3>1, <3>2
  <2> QED
    BY <1>1, <1>3, <2>3 DEF First, Second
<1> QED
  BY <1>2, <1>3

-----------------------------------------------------------------------------
(***************************************************************************)
(* The inductive invariant.                                                *)
(***************************************************************************)
Frames == [t : Timers \cup {End}, n : Timers \cup {End}, now : Int, ran : 0 .. MaxRun,
           pc : {"loop", "cb", "set"}, by : {"call", "dec"}]

(* What time_handle's locals are worth, with q the queue and w the due     *)
(* times: t and n are the first two timers or, during a callback, n is the *)
(* first one and t is out of the queue; now is at most ran ticks old; the  *)
(* timer that ended the loop is first and was not due at now.              *)
FrameOK(f, q, w) ==
    /\ f \in Frames
    /\ f.now <= 0 /\ f.now >= 0 - f.ran
    /\ f.pc = "loop" => f.t = First(q) /\ f.n = Second(q)
    /\ f.pc = "cb" => f.t \in Timers /\ ~Queued(q, f.t) /\ f.n = First(q)
    /\ f.pc = "set" => Len(q) > 0 /\ f.t = q[1] /\ w[f.t] > f.now /\ f.n = Second(q)

Armed(d, q, w) == Len(q) > 0 => d < 0 \/ d <= w[q[1]] + MaxRun

Types ==
    /\ reqs \in Seq(Timers) /\ when \in [Timers -> Int] /\ dec \in -1 .. DEC_DISABLE
    /\ ee \in BOOLEAN /\ ctx \in {"boot", "armed", "run", "trap", "dec"} /\ halt = "no"

(* At most one time_handle runs, and its locals agree with the queue.      *)
OneHandler ==
    /\ stack # <<>> => stack = <<stack[1]>> /\ FrameOK(stack[1], reqs, when)
    /\ ee => ctx = "run"

IInv ==
    /\ Types
    /\ Sorted(reqs, when)
    /\ OneHandler
    /\ stack = <<>> => Armed(dec, reqs, when)

(* A nested time_handle leaves the outer one with stale links.             *)
Inv == nested \in BOOLEAN /\ (~nested => IInv)

-----------------------------------------------------------------------------
(***************************************************************************)
(* The steps.                                                              *)
(***************************************************************************)
(* A call to time_handle starts at the first timer.                        *)
LEMMA FreshFrame ==
    ASSUME NEW q \in Seq(Timers), NEW w, Sorted(q, w), NEW by \in {"call", "dec"}
    PROVE  FrameOK(Frame(q, by), q, w)
<1> DEFINE f == Frame(q, by)
<1>1. f = [t |-> First(q), n |-> Second(q), now |-> 0, ran |-> 0, pc |-> "loop", by |-> by]
  BY NextOfFacts DEF Frame
<1>2. First(q) \in Timers \cup {End} /\ Second(q) \in Timers \cup {End}
  BY DEF First, Second
<1>3. 0 \in 0 .. MaxRun
  BY TimeAssumption
<1>4. f \in Frames
  BY <1>1, <1>2, <1>3 DEF Frames
<1> QED
  BY <1>1, <1>4 DEF FrameOK

(* There is at most one callback loop, and it is the top frame.            *)
LEMMA Inside ==
    ASSUME IInv, Running
    PROVE  /\ stack = <<Top>> /\ FrameOK(Top, reqs, when)
           /\ Front(stack) = <<>>
           /\ \A g : SetTop(g) => stack' = <<g>>
<1>1. stack = <<stack[1]>> /\ FrameOK(stack[1], reqs, when)
  BY DEF IInv, OneHandler, Running
<1> DEFINE f == stack[1]
<1> HIDE DEF f
<1>2. stack = <<f>>
  BY <1>1 DEF f
<1>3. Len(stack) = 1 /\ Top = f
  BY <1>2 DEF Top
<1>4. Front(stack) = <<>>
  BY <1>2 DEF Front
<1>5. ASSUME NEW g, SetTop(g) PROVE stack' = <<g>>
  <2>1. stack' = [<<f>> EXCEPT ![1] = g]
    BY <1>2, <1>3, <1>5 DEF SetTop, ReplaceAt
  <2> QED
    BY <2>1
<1> QED
  BY <1>1, <1>2, <1>3, <1>4, <1>5 DEF f

(* Moving on to the first timer of the queue.                              *)
LEMMA Advances ==
    ASSUME IInv, Running, NEW q \in Seq(Timers), NEW w, Sorted(q, w), Advance(q, First(q))
    PROVE  /\ halt' = halt /\ stack' = <<stack'[1]>>
           /\ FrameOK(stack'[1], q, w)
<1>1. First(q) = End \/ Queued(q, First(q))
  BY DEF First, Queued
<1> DEFINE g == [Top EXCEPT !.t = First(q), !.n = NextOf(q, First(q)), !.pc = "loop"]
<1>2. SetTop(g) /\ halt' = halt
  BY <1>1 DEF Advance
<1>3. stack' = <<g>>
  BY <1>2, Inside
<1>4. Top \in Frames /\ Top.now <= 0 /\ Top.now >= 0 - Top.ran
  BY Inside DEF FrameOK
<1>5. First(q) \in Timers \cup {End} /\ Second(q) \in Timers \cup {End} /\ NextOf(q, First(q)) = Second(q)
  BY NextOfFacts DEF First, Second
<1>6. g \in Frames /\ g.now = Top.now /\ g.ran = Top.ran /\ g.pc = "loop" /\ g.t = First(q) /\ g.n = Second(q)
  BY <1>4, <1>5 DEF Frames
<1> HIDE DEF g
<1>7. FrameOK(g, q, w)
  BY <1>4, <1>6 DEF FrameOK
<1>8. stack'[1] = g
  BY <1>3
<1> QED
  BY <1>2, <1>3, <1>7, <1>8

(* The frame after a callback has returned.                                *)
LEMMA Resets ==
    ASSUME NEW f \in Frames, NEW pc \in {"cb", "set"}, NEW g, g = [f EXCEPT !.now = 0, !.pc = pc]
    PROVE  g \in Frames /\ g.now = 0 /\ g.pc = pc /\ g.t = f.t /\ g.n = f.n /\ g.ran \in 0 .. MaxRun
<1>1. /\ f = [t |-> f.t, n |-> f.n, now |-> f.now, ran |-> f.ran, pc |-> f.pc, by |-> f.by]
      /\ f.t \in Timers \cup {End} /\ f.n \in Timers \cup {End} /\ f.ran \in 0 .. MaxRun /\ f.by \in {"call", "dec"}
  BY DEF Frames
<1>2. g = [t |-> f.t, n |-> f.n, now |-> 0, ran |-> f.ran, pc |-> pc, by |-> f.by]
  BY <1>1
<1>3. g.now = 0 /\ g.pc = pc /\ g.t = f.t /\ g.n = f.n /\ g.ran = f.ran
  BY <1>2
<1>4. g \in Frames
  BY <1>1, <1>2 DEF Frames
<1> QED
  BY <1>1, <1>3, <1>4

(* A round of the loop up to the callback.                                 *)
LEMMA ExpireStep == IInv /\ Expire => IInv'
<1> SUFFICES ASSUME IInv, Expire PROVE IInv'
  OBVIOUS
<1>1. FrameOK(Top, reqs, when) /\ \A g : SetTop(g) => stack' = <<g>>
  BY Inside DEF Expire
<1>2. Top \in Frames /\ Top.t = First(reqs) /\ Top.n = Second(reqs)
  BY <1>1 DEF FrameOK, Expire
<1>3. Types /\ Sorted(reqs, when) /\ (ee => ctx = "run")
  BY DEF IInv, OneHandler
<1>4. Len(reqs) > 0 /\ Top.t = reqs[1] /\ Top.t \in Timers
  BY <1>2, <1>3 DEF First, Types, Expire
<1>5. UNCHANGED <<when, dec, ee, ctx>>
  BY DEF cpu, Expire
<1>6. CASE when[Top.t] <= 0
  <2> DEFINE g == [Top EXCEPT !.now = 0, !.pc = "cb"]
  <2>2. Queued(reqs, Top.t)
    BY <1>3, <1>4 DEF Queued, Types
  <2>0. when[Top.t] \in Int
    BY <1>3, <1>4 DEF Types
  <2>1. stack' = <<g>> /\ reqs' = RemoveFirst(reqs, Top.t) /\ halt' = halt
    BY <1>1, <1>6, <2>0, <2>2 DEF Expire
  <2>3. /\ reqs' \in Seq(Timers) /\ Sorted(reqs', when)
        /\ \A i \in 1 .. Len(reqs') : reqs'[i] # Top.t
        /\ First(reqs') = Second(reqs)
    <3>1. reqs \in Seq(Timers) /\ Top.t \in Timers
      BY <1>3, <1>4 DEF Types
    <3>2. PICK q : q = RemoveFirst(reqs, Top.t)
      OBVIOUS
    <3>3. Removed(q, reqs, when, Top.t)
      BY <1>3, <1>4, <2>2, <3>1, <3>2, Dequeue, Zenon
    <3>4. reqs' = q
      BY <2>1, <3>2
    <3> QED
      BY <1>4, <3>3, <3>4 DEF Removed
  <2>4. ~Queued(reqs', Top.t)
    BY <2>3, SMTT(30) DEF Queued
  <2>5. g \in Frames /\ g.now = 0 /\ g.pc = "cb" /\ g.t = Top.t /\ g.n = Top.n /\ g.ran \in 0 .. MaxRun
    BY <1>2, Resets, Zenon
  <2> HIDE DEF g
  <2>6. FrameOK(g, reqs', when')
    BY <1>2, <1>4, <2>3, <2>4, <2>5, TimeAssumption DEF FrameOK
  <2>7. stack'[1] = g /\ stack' # <<>>
    BY <2>1
  <2> QED
    BY <1>3, <1>5, <2>1, <2>3, <2>6, <2>7 DEF IInv, OneHandler, Types
<1>7. CASE when[Top.t] > 0
  <2> DEFINE g == [Top EXCEPT !.now = 0, !.pc = "set"]
  <2>0. when[Top.t] \in Int
    BY <1>3, <1>4 DEF Types
  <2>1. stack' = <<g>> /\ reqs' = reqs /\ halt' = halt
    BY <1>1, <1>7, <2>0, SMTT(30) DEF Expire
  <2>5. g \in Frames /\ g.now = 0 /\ g.pc = "set" /\ g.t = Top.t /\ g.n = Top.n /\ g.ran \in 0 .. MaxRun
    BY <1>2, Resets, Zenon
  <2> HIDE DEF g
  <2>6. FrameOK(g, reqs, when)
    BY <1>2, <1>4, <1>7, <2>5, TimeAssumption DEF FrameOK
  <2>7. stack'[1] = g /\ stack' # <<>>
    BY <2>1
  <2> QED
    BY <1>3, <1>5, <2>1, <2>6, <2>7 DEF IInv, OneHandler, Types
<1> QED
  BY <1>3, <1>4, <1>6, <1>7 DEF Types

(* A one-shot callback returns.                                            *)
LEMMA OneShotStep == IInv /\ OneShot => IInv'
<1> SUFFICES ASSUME IInv, OneShot PROVE IInv'
  OBVIOUS
<1>1. Running /\ Top.pc = "cb" /\ Advance(reqs, Top.n) /\ UNCHANGED <<reqs, when, dec, ee, ctx>>
  BY DEF OneShot, cpu
<1>2. Top.n = First(reqs)
  BY <1>1, Inside DEF FrameOK
<1>3. Types /\ Sorted(reqs, when) /\ (ee => ctx = "run")
  BY DEF IInv, OneHandler
<1>4. halt' = halt /\ stack' = <<stack'[1]>> /\ FrameOK(stack'[1], reqs, when)
  BY <1>1, <1>2, <1>3, Advances DEF Types
<1> QED
  BY <1>1, <1>3, <1>4 DEF IInv, OneHandler, Types

(* A recurring callback puts itself back.                                  *)
LEMMA RecurringStep == ASSUME NEW p \in Periods, IInv, Recurring(p) PROVE IInv'
<1> DEFINE w == [when EXCEPT ![Top.t] = p]
           q == time_enqueue_int(reqs, w, Top.t)
           f == Top
<1>1. Running /\ Top.pc = "cb" /\ when' = w /\ reqs' = q /\ UNCHANGED <<dec, ee, ctx>>
  BY DEF Recurring, cpu, opal_timer_cb
<1>2. IF w[Top.t] <= Top.now THEN halt' = "stale" /\ UNCHANGED stack
      ELSE IF Top.n = End THEN SetTop([Top EXCEPT !.pc = "set"]) /\ UNCHANGED halt
      ELSE Advance(q, IF w[Top.t] < w[Top.n] THEN Top.t ELSE Top.n)
  BY DEF Recurring, opal_timer_cb
<1>3. FrameOK(f, reqs, when) /\ \A g : SetTop(g) => stack' = <<g>>
  BY <1>1, Inside
<1>4. Types /\ Sorted(reqs, when) /\ (ee => ctx = "run")
  BY DEF IInv, OneHandler
<1>5. f \in Frames /\ f.t \in Timers /\ ~Queued(reqs, f.t) /\ f.n = First(reqs) /\ f.now <= 0 /\ f.now >= 0 - f.ran
  BY <1>1, <1>3 DEF FrameOK
<1>6. p \in Nat /\ p > MaxRun /\ MaxRun \in Nat
  BY TimeAssumption
<1>7. w \in [Timers -> Int] /\ w[f.t] = p /\ \A x \in Timers : x # f.t => w[x] = when[x]
  BY <1>4, <1>5, <1>6 DEF Types
<1>8. \A i \in 1 .. Len(reqs) : reqs[i] \in Timers /\ reqs[i] # f.t
  BY <1>4, <1>5 DEF Types, Queued
<1> HIDE DEF w
<1>9. Sorted(reqs, w)
  BY <1>4, <1>7, <1>8 DEF Sorted
<1>10. /\ q \in Seq(Timers) /\ Len(q) = Len(reqs) + 1
       /\ Sorted(q, w)
       /\ q[1] = IF Len(reqs) = 0 \/ w[f.t] < w[reqs[1]] THEN f.t ELSE reqs[1]
  <2>1. reqs \in Seq(Timers) /\ f.t \in Timers /\ ~Queued(reqs, f.t)
    BY <1>4, <1>5 DEF Types
  <2>2. Added(q, reqs, w, f.t)
    BY <2>1, <1>7, <1>9, EnqueueNew
  <2> QED
    BY <2>2 DEF Added
<1> HIDE DEF q
<1>11. ~(w[f.t] <= f.now)
  BY <1>5, <1>6, <1>7 DEF Frames
<1>12. Len(reqs) \in Nat /\ Len(q) > 0 /\ First(q) = q[1]
  BY <1>4, <1>10 DEF Types, First
<1>13. CASE f.n = End
  <2> DEFINE g == [f EXCEPT !.pc = "set"]
  <2>1. stack' = <<g>> /\ halt' = halt
    BY <1>2, <1>3, <1>11, <1>13
  <2>2. Len(reqs) = 0
    BY <1>5, <1>8, <1>12, <1>13, TimeAssumption DEF First
  <2>3. g \in Frames /\ g.now = f.now /\ g.ran = f.ran /\ g.pc = "set" /\ g.t = f.t /\ g.n = f.n
    BY <1>5 DEF Frames
  <2> HIDE DEF g
  <2>4. q[1] = f.t /\ Second(q) = End
    BY <1>10, <2>2 DEF Second
  <2>5. w[f.t] > f.now
    BY <1>5, <1>6, <1>7 DEF Frames
  <2>6. FrameOK(g, q, w)
    BY <1>5, <1>12, <1>13, <2>3, <2>4, <2>5 DEF FrameOK
  <2>7. stack' # <<>> /\ stack'[1] = g
    BY <2>1
  <2> QED
    BY <1>1, <1>4, <1>7, <1>10, <2>1, <2>6, <2>7 DEF IInv, OneHandler, Types
<1>14. CASE f.n # End
  <2>1. f.n = reqs[1] /\ Len(reqs) > 0
    BY <1>5, <1>12, <1>14 DEF First
  <2>2. (IF w[f.t] < w[f.n] THEN f.t ELSE f.n) = First(q)
    BY <1>10, <1>12, <2>1
  <2>3. Advance(q, First(q))
    BY <1>2, <1>11, <1>14, <2>2, Zenon
  <2>4. halt' = halt /\ stack' = <<stack'[1]>> /\ FrameOK(stack'[1], q, w)
    BY <1>1, <1>10, <2>3, Advances
  <2>5. stack' # <<>>
    BY <2>4
  <2> QED
    BY <1>1, <1>4, <1>7, <1>10, <2>4, <2>5 DEF IInv, OneHandler, Types
<1> QED
  BY <1>13, <1>14

(* set_DEC and the return.                                                 *)
LEMMA SetDecStep == IInv /\ SetDec => IInv'
<1> SUFFICES ASSUME IInv, SetDec PROVE IInv'
  OBVIOUS
<1>1. Running /\ dec' = DecFor(Top) /\ stack' = Front(stack) /\ UNCHANGED <<reqs, when, halt>>
  BY DEF SetDec
<1>2. Top.pc # "cb" /\ (Top.pc = "loop" => Top.t = End)
  BY DEF SetDec
<1>3. stack' = <<>> /\ FrameOK(Top, reqs, when)
  BY <1>1, Inside
<1>4. Types /\ Sorted(reqs, when)
  BY DEF IInv
<1>5. ee' \in BOOLEAN /\ ctx' \in {"boot", "armed", "run", "trap", "dec"} /\ (ee' => ctx' = "run")
  <2>1. (ee' = TRUE /\ ctx' = "run") \/ UNCHANGED <<ee, ctx>>
    BY DEF SetDec, cpu
  <2>2. ee \in BOOLEAN /\ ctx \in {"boot", "armed", "run", "trap", "dec"} /\ (ee => ctx = "run")
    BY <1>4 DEF Types, IInv, OneHandler
  <2>3. CASE ee' = TRUE /\ ctx' = "run"
    BY <2>3, Zenon
  <2>4. CASE UNCHANGED <<ee, ctx>>
    BY <2>2, <2>4
  <2> QED
    BY <2>1, <2>3, <2>4, Zenon
<1>6. DEC_DISABLE \in Nat /\ MaxRun \in Nat
  BY TimeAssumption
<1>7. dec' \in -1 .. DEC_DISABLE
  BY <1>1, <1>6 DEF DecFor
<1>8. Armed(dec', reqs, when)
  <2>1. CASE Top.pc = "loop"
    <3>1. First(reqs) = End
      BY <1>2, <1>3, <2>1 DEF FrameOK
    <3>2. ~(Len(reqs) > 0)
      BY <3>1, <1>4, TimeAssumption DEF First, Types
    <3> QED
      BY <3>2 DEF Armed
  <2>2. CASE Top.pc = "set"
    <3> DEFINE f == Top
    <3>1. /\ f.t = reqs[1] /\ when[f.t] > f.now /\ f.now >= 0 - f.ran /\ Len(reqs) > 0
          /\ f.now \in Int /\ f.ran \in 0 .. MaxRun
      BY <1>3, <2>2 DEF FrameOK, Frames
    <3>2. f.t \in Timers /\ f.t # End /\ when[f.t] \in Int
      BY <3>1, <1>4, TimeAssumption DEF Types
    <3>3. dec' = IF when[f.t] - f.now \in 0 .. DEC_DISABLE - 1 THEN when[f.t] - f.now ELSE DEC_DISABLE
      BY <1>1, <3>2, Zenon DEF DecFor
    <3> HIDE DEF f
    <3>4. dec' <= when[f.t] - f.now
      BY <3>1, <3>2, <3>3, <1>6
    <3>5. dec' <= when[f.t] + MaxRun
      BY <3>1, <3>2, <3>4, <1>6, <1>7
    <3> QED
      BY <3>1, <3>5 DEF Armed
  <2>3. Top.pc \in {"loop", "cb", "set"}
    BY <1>3 DEF FrameOK, Frames
  <2> QED
    BY <1>2, <2>1, <2>2, <2>3
<1> QED
  BY <1>1, <1>3, <1>4, <1>5, <1>7, <1>8 DEF IInv, OneHandler, Types

(* A call that leaves the queue q and the due times w begins time_handle.  *)
LEMMA Begins ==
    ASSUME IInv, stack = <<>>, NEW by \in {"call", "dec"},
           reqs' \in Seq(Timers), when' \in [Timers -> Int], Sorted(reqs', when'),
           stack' = <<Frame(reqs', by)>>, UNCHANGED <<dec, halt>>,
           ee' \in BOOLEAN, ctx' \in {"boot", "armed", "run", "trap", "dec"}, ee' => ctx' = "run"
    PROVE  IInv'
<1> DEFINE f == Frame(reqs', by)
<1>1. FrameOK(f, reqs', when')
  BY FreshFrame
<1> HIDE DEF f
<1>2. stack' = <<f>>
  BY DEF f
<1>3. stack' # <<>> /\ stack'[1] = f /\ stack' = <<stack'[1]>>
  BY <1>2
<1> QED
  BY <1>1, <1>3 DEF IInv, OneHandler, Types

(* Queueing a timer.                                                       *)
LEMMA EnqueueStep == ASSUME NEW t \in Timers, NEW d \in Delays, IInv, Enqueue(t, d) PROVE IInv'
<1> DEFINE w == [when EXCEPT ![t] = d]
<1>1. stack = <<>> /\ ~Queued(reqs, t) /\ when' = w /\ reqs' = time_enqueue_int(reqs, w, t)
  BY DEF Enqueue, time_enqueue
<1>2. stack' = <<Frame(reqs', "call")>>
  BY DEF Enqueue, time_enqueue
<1>3. Types /\ Sorted(reqs, when)
  BY DEF IInv
<1>4. d \in Int
  BY TimeAssumption
<1>5. w \in [Timers -> Int] /\ \A x \in Timers : x # t => w[x] = when[x]
  BY <1>3, <1>4 DEF Types
<1> HIDE DEF w
<1>6. \A i \in 1 .. Len(reqs) : reqs[i] \in Timers /\ reqs[i] # t
  BY <1>1, <1>3 DEF Types, Queued
<1>7. Sorted(reqs, w)
  BY <1>3, <1>5, <1>6 DEF Sorted
<1>8. reqs \in Seq(Timers)
  BY <1>3 DEF Types
<1>9. Added(reqs', reqs, w, t)
  BY <1>1, <1>5, <1>7, <1>8, EnqueueNew
<1>10. reqs' \in Seq(Timers) /\ Sorted(reqs', when')
  BY <1>1, <1>9 DEF Added
<1>11. UNCHANGED <<dec, ee, ctx, halt>>
  BY DEF Enqueue, cpu
<1>12. ee' \in BOOLEAN /\ ctx' \in {"boot", "armed", "run", "trap", "dec"} /\ (ee' => ctx' = "run")
  BY <1>11 DEF IInv, OneHandler, Types
<1> QED
  BY <1>1, <1>2, <1>5, <1>10, <1>11, <1>12, Begins

(* Queueing a timer that is queued already.                                *)
LEMMA EnqueueAgainStep == ASSUME NEW t \in Timers, IInv, EnqueueAgain(t) PROVE IInv'
<1>1. /\ stack = <<>> /\ Queued(reqs, t) /\ reqs' = time_enqueue_int(reqs, when, t)
      /\ stack' = <<Frame(reqs', "call")>> /\ UNCHANGED <<when, dec, ee, ctx, halt>>
  BY DEF EnqueueAgain, cpu
<1>2. Types /\ Sorted(reqs, when) /\ reqs \in Seq(Timers) /\ when \in [Timers -> Int]
  BY DEF IInv, Types
<1>3. reqs' = reqs
  BY <1>1, <1>2, EnqueueOld
<1>4. ee' \in BOOLEAN /\ ctx' \in {"boot", "armed", "run", "trap", "dec"} /\ (ee' => ctx' = "run")
  BY <1>1 DEF IInv, OneHandler, Types
<1>5. reqs' \in Seq(Timers) /\ when' \in [Timers -> Int] /\ Sorted(reqs', when')
  BY <1>1, <1>2, <1>3
<1> QED
  BY <1>1, <1>4, <1>5, Begins

(* time_dequeue of a timer.                                                *)
LEMMA DequeueStep == ASSUME NEW t \in Timers, IInv, time_dequeue(t) PROVE IInv'
<1>1. stack = <<>> /\ Queued(reqs, t) /\ reqs' = RemoveFirst(reqs, t) /\ UNCHANGED <<when, dec, stack, ee, ctx, halt>>
  BY DEF time_dequeue, cpu
<1>2. Types /\ Sorted(reqs, when) /\ reqs \in Seq(Timers)
  BY DEF IInv, Types
<1>3. Removed(reqs', reqs, when, t)
  BY <1>1, <1>2, Dequeue
<1>4. reqs' \in Seq(Timers) /\ Sorted(reqs', when')
  BY <1>1, <1>3 DEF Removed
<1>5. Armed(dec, reqs, when)
  BY <1>1 DEF IInv
<1>6. Armed(dec', reqs', when')
  <2>1. ASSUME Len(reqs') > 0 PROVE dec < 0 \/ dec <= when[reqs'[1]] + MaxRun
    <3>1. Len(reqs) > 1 /\ (reqs'[1] = reqs[1] \/ reqs'[1] = reqs[2])
      BY <1>2, <1>3, <1>4, <2>1 DEF Removed
    <3>2. when[reqs[1]] <= when[reqs[2]]
      BY <3>1, <1>2 DEF Sorted
    <3>3. when[reqs[1]] \in Int /\ when[reqs[2]] \in Int /\ dec \in Int /\ MaxRun \in Int
      BY <3>1, <1>2, TimeAssumption DEF Types
    <3>4. dec < 0 \/ dec <= when[reqs[1]] + MaxRun
      BY <3>1, <1>2, <1>5 DEF Armed
    <3> QED
      BY <3>1, <3>2, <3>3, <3>4
  <2> QED
    BY <2>1, <1>1 DEF Armed
<1> QED
  BY <1>1, <1>2, <1>4, <1>6 DEF IInv, OneHandler, Types

(* The decrementer exception, outside time_handle.                         *)
LEMMA DecInterruptStep == ASSUME IInv, DecInterrupt, ~nested' PROVE IInv'
<1>1. stack = <<>>
  BY DEF DecInterrupt
<1>2. stack' = <<Frame(reqs, "dec")>> /\ ee' = FALSE /\ ctx' = "dec" /\ UNCHANGED <<reqs, when, dec, halt>>
  BY <1>1 DEF DecInterrupt
<1>3. reqs' \in Seq(Timers) /\ when' \in [Timers -> Int] /\ Sorted(reqs', when')
  BY <1>2 DEF IInv, Types
<1>4. stack' = <<Frame(reqs', "dec")>>
  BY <1>2
<1> QED
  BY <1>1, <1>2, <1>3, <1>4, Begins

(* A frame one tick later.                                                 *)
LEMMA Ages ==
    ASSUME NEW f \in Frames, f.ran < MaxRun, NEW g, g = [f EXCEPT !.now = @ - 1, !.ran = @ + 1]
    PROVE  g \in Frames /\ g.t = f.t /\ g.n = f.n /\ g.pc = f.pc /\ g.now = f.now - 1 /\ g.ran = f.ran + 1
<1>1. /\ f = [t |-> f.t, n |-> f.n, now |-> f.now, ran |-> f.ran, pc |-> f.pc, by |-> f.by]
      /\ f.t \in Timers \cup {End} /\ f.n \in Timers \cup {End} /\ f.now \in Int /\ f.ran \in 0 .. MaxRun
      /\ f.pc \in {"loop", "cb", "set"} /\ f.by \in {"call", "dec"}
  BY DEF Frames
<1>2. g = [t |-> f.t, n |-> f.n, now |-> f.now - 1, ran |-> f.ran + 1, pc |-> f.pc, by |-> f.by]
  BY <1>1
<1>3. f.now - 1 \in Int /\ f.ran + 1 \in 0 .. MaxRun
  BY <1>1, TimeAssumption
<1>4. g \in Frames
  BY <1>1, <1>2, <1>3 DEF Frames
<1>5. g.t = f.t /\ g.n = f.n /\ g.pc = f.pc /\ g.now = f.now - 1 /\ g.ran = f.ran + 1
  BY <1>2
<1> QED
  BY <1>4, <1>5

(* The stack one tick later.                                               *)
LEMMA AgesAll ==
    ASSUME NEW f
    PROVE  [i \in DOMAIN <<f>> |-> [<<f>>[i] EXCEPT !.now = @ - 1, !.ran = @ + 1]] =
           <<[f EXCEPT !.now = @ - 1, !.ran = @ + 1]>>
<1> DEFINE h == [f EXCEPT !.now = @ - 1, !.ran = @ + 1]
           e(i) == [<<f>>[i] EXCEPT !.now = @ - 1, !.ran = @ + 1]
<1>1. \A i \in DOMAIN <<f>> : <<f>>[i] = f
  OBVIOUS
<1>2. \A i \in DOMAIN <<f>> : e(i) = h
  BY <1>1, Zenon
<1> HIDE DEF h, e
<1>3. [i \in DOMAIN <<f>> |-> e(i)] = [i \in DOMAIN <<f>> |-> h]
  BY <1>2
<1>4. [i \in DOMAIN <<f>> |-> h] = <<h>>
  OBVIOUS
<1>5. [i \in DOMAIN <<f>> |-> e(i)] = <<h>>
  BY <1>3, <1>4, Zenon
<1> QED
  BY <1>5, Zenon DEF e, h

(* Time passes.                                                            *)
LEMMA TickStep == ASSUME IInv, Tick PROVE IInv'
<1>1. /\ when' = [t \in Timers |-> Earlier(when[t])] /\ dec' = IF dec < 0 THEN dec ELSE dec - 1
      /\ UNCHANGED <<reqs, ee, ctx, halt>>
  BY DEF Tick, cpu
<1>2. Types /\ Sorted(reqs, when) /\ reqs \in Seq(Timers) /\ when \in [Timers -> Int]
  BY DEF IInv, Types
<1>3. MaxLate \in Nat /\ MaxRun \in Nat /\ MaxLate > MaxRun /\ DEC_DISABLE \in Nat
  BY TimeAssumption
<1>4. \A t \in Timers : when[t] \in Int /\ when'[t] = IF when[t] > -MaxLate THEN when[t] - 1 ELSE when[t]
  BY <1>1, <1>2 DEF Earlier
<1>5. when' \in [Timers -> Int]
  BY <1>1, <1>2, <1>3 DEF Earlier
<1>6. Sorted(reqs, when')
  <2>1. ASSUME NEW a \in Timers, NEW b \in Timers, when[a] <= when[b] PROVE when'[a] <= when'[b]
    BY <2>1, <1>3, <1>4
  <2>2. \A i \in 1 .. Len(reqs) : reqs[i] \in Timers
    BY <1>2
  <2> QED
    BY <1>2, <2>1, <2>2 DEF Sorted
<1>7. dec \in -1 .. DEC_DISABLE /\ dec' \in -1 .. DEC_DISABLE
  BY <1>1, <1>2, <1>3 DEF Types
<1>8. ASSUME stack = <<>> PROVE stack' = <<>> /\ Armed(dec', reqs, when')
  <2>1. stack' = <<>>
    BY <1>8 DEF Tick
  <2>2. Armed(dec, reqs, when)
    BY <1>8 DEF IInv
  <2>3. ASSUME Len(reqs) > 0 PROVE dec' < 0 \/ dec' <= when'[reqs[1]] + MaxRun
    <3>1. reqs[1] \in Timers
      BY <1>2, <2>3
    <3>2. dec < 0 \/ dec <= when[reqs[1]] + MaxRun
      BY <2>2, <2>3 DEF Armed
    <3> QED
      BY <3>1, <3>2, <1>1, <1>3, <1>4, <1>7
  <2> QED
    BY <2>1, <2>3 DEF Armed
<1>9. ASSUME stack # <<>> PROVE stack' # <<>> /\ stack' = <<stack'[1]>> /\ FrameOK(stack'[1], reqs, when')
  <2> DEFINE f == stack[1]
             g == [f EXCEPT !.now = @ - 1, !.ran = @ + 1]
  <2>1. stack = <<f>> /\ FrameOK(f, reqs, when)
    BY <1>9 DEF IInv, OneHandler
  <2>2. f.ran < MaxRun
    <3>1. \A i \in DOMAIN stack : stack[i].ran < MaxRun
      BY DEF Tick
    <3>2. 1 \in DOMAIN stack
      <4> HIDE DEF f
      <4> QED
        BY <2>1
    <3> QED
      BY <3>1, <3>2, Zenon
  <2>3. stack' = <<g>>
    <3>1. stack' = [i \in DOMAIN stack |-> [stack[i] EXCEPT !.now = @ - 1, !.ran = @ + 1]]
      BY DEF Tick
    <3> HIDE DEF f
    <3>2. stack' = [i \in DOMAIN <<f>> |-> [<<f>>[i] EXCEPT !.now = @ - 1, !.ran = @ + 1]]
      BY <2>1, <3>1, Zenon
    <3> QED
      BY <3>2, AgesAll, Zenon
  <2> HIDE DEF f
  <2>4. g \in Frames /\ g.t = f.t /\ g.n = f.n /\ g.pc = f.pc /\ g.now = f.now - 1 /\ g.ran = f.ran + 1
    BY <2>1, <2>2, Ages DEF FrameOK
  <2> HIDE DEF g
  <2>5. f.now \in Int /\ f.ran \in Int /\ f.now <= 0 /\ f.now >= 0 - f.ran
    BY <2>1 DEF FrameOK, Frames
  <2>6. g.now <= 0 /\ g.now >= 0 - g.ran
    BY <2>4, <2>5
  <2>7. f.pc = "set" => when'[f.t] > g.now
    <3>1. ASSUME f.pc = "set" PROVE when'[f.t] > g.now
      <4>1. f.t = reqs[1] /\ Len(reqs) > 0 /\ when[f.t] > f.now
        BY <3>1, <2>1 DEF FrameOK
      <4>2. f.t \in Timers
        BY <4>1, <1>2
      <4> QED
        <5> DEFINE a == when[f.t]
        <5>1. a \in Int /\ when'[f.t] = IF a > -MaxLate THEN a - 1 ELSE a
          BY <4>2, <1>4
        <5>2. a > f.now /\ f.now >= 0 - f.ran /\ f.now \in Int /\ f.ran \in Int /\ f.ran < MaxRun
          BY <4>1, <2>2, <2>5
        <5> HIDE DEF a
        <5>3. a > -MaxLate
          BY <5>1, <5>2, <1>3
        <5> QED
          BY <5>1, <5>2, <5>3, <2>4
    <3> QED
      BY <3>1
  <2>8. FrameOK(g, reqs, when')
    BY <2>1, <2>4, <2>6, <2>7 DEF FrameOK
  <2>9. stack' # <<>> /\ stack'[1] = g
    BY <2>3
  <2> QED
    BY <2>3, <2>8, <2>9
<1> QED
  BY <1>1, <1>2, <1>5, <1>6, <1>7, <1>8, <1>9 DEF IInv, OneHandler, Types

(* The steps that do not touch the timers.                                 *)
LEMMA CpuStep ==
    ASSUME IInv, cpu_init \/ exc_enable_ee \/ Trap \/ exc_rfi \/ Halted \/ UNCHANGED vars
    PROVE  IInv'
<1>1. CASE cpu_init
  <2>1. UNCHANGED <<reqs, when, dec, stack, ee, halt>> /\ ctx' = "armed"
    BY <1>1 DEF cpu_init, fdt_node_check_compatible
  <2>2. ctx = "boot" /\ ~ee
    BY <1>1 DEF cpu_init, IInv, OneHandler
  <2> QED
    BY <2>1, <2>2 DEF IInv, OneHandler, Types
<1>2. CASE exc_enable_ee \/ Trap \/ exc_rfi
  <2>1. /\ UNCHANGED <<reqs, when, dec, stack, halt>> /\ ee' \in BOOLEAN /\ (ee' => ctx' = "run")
        /\ ctx' \in {"boot", "armed", "run", "trap", "dec"}
    BY <1>2 DEF exc_enable_ee, Trap, exc_rfi
  <2> QED
    BY <2>1 DEF IInv, OneHandler, Types
<1>3. CASE Halted \/ UNCHANGED vars
  BY <1>3 DEF Halted, vars, IInv, OneHandler, Types
<1> QED
  BY <1>1, <1>2, <1>3

-----------------------------------------------------------------------------
(* The timer queue starts in a state that satisfies the invariant.         *)
LEMMA InitIInv == Init => IInv
<1> SUFFICES ASSUME Init PROVE IInv
  OBVIOUS
<1>1. Types
  <2>1. dec \in -1 .. DEC_DISABLE
    BY TimeAssumption DEF Init
  <2>2. when \in [Timers -> Int]
    <3>1. -MaxLate \in Int
      BY TimeAssumption
    <3>2. when = [t \in Timers |-> -MaxLate]
      BY DEF Init
    <3> QED
      BY <3>1, <3>2
  <2>3. ee \in BOOLEAN /\ ctx = "boot" /\ halt = "no"
    BY Zenon DEF Init
  <2>4. reqs \in Seq(Timers)
    BY DEF Init
  <2> QED
    BY <2>1, <2>2, <2>3, <2>4 DEF Types
<1>2. Len(reqs) = 0 /\ stack = <<>> /\ ee = FALSE
  BY DEF Init
<1> QED
  BY <1>1, <1>2 DEF IInv, OneHandler, Sorted, Armed

(* Only an interrupt can nest, and what has nested stays so.               *)
LEMMA NestedStep ==
    ASSUME nested \in BOOLEAN, [Next]_vars
    PROVE  nested' \in BOOLEAN /\ (nested => nested')
<1>1. CASE DecInterrupt
  BY <1>1, Zenon DEF DecInterrupt
<1>2. CASE Handle \/ Call
  BY <1>2 DEF Handle, Expire, OneShot, SetDec, Recurring, Call, Enqueue, EnqueueAgain, time_dequeue, cpu
<1>3. CASE Tick \/ cpu_init \/ exc_enable_ee \/ Trap \/ exc_rfi \/ Halted \/ UNCHANGED vars
  BY <1>3 DEF Tick, cpu_init, exc_enable_ee, Trap, exc_rfi, Halted, cpu, vars
<1> QED
  BY <1>1, <1>2, <1>3 DEF Next

(* The invariant holds in every reachable state.                           *)
LEMMA Invariant == Spec => []Inv
<1>1. ASSUME IInv, [Next]_vars, ~nested' PROVE IInv'
  <2>1. CASE Handle
    BY <1>1, <2>1, ExpireStep, OneShotStep, SetDecStep, RecurringStep DEF Handle
  <2>2. CASE Call
    BY <1>1, <2>2, EnqueueStep, EnqueueAgainStep, DequeueStep DEF Call
  <2>3. CASE Tick
    BY <1>1, <2>3, TickStep
  <2>4. CASE DecInterrupt
    BY <1>1, <2>4, DecInterruptStep
  <2>5. CASE cpu_init \/ exc_enable_ee \/ Trap \/ exc_rfi \/ Halted \/ UNCHANGED vars
    BY <1>1, <2>5, CpuStep
  <2> QED
    BY <1>1, <2>1, <2>2, <2>3, <2>4, <2>5 DEF Next
<1>2. Inv /\ [Next]_vars => Inv'
  <2> SUFFICES ASSUME Inv, [Next]_vars PROVE Inv'
    OBVIOUS
  <2>1. nested' \in BOOLEAN /\ (nested => nested')
    BY NestedStep DEF Inv
  <2>2. ~nested' => IInv'
    BY <2>1, <1>1 DEF Inv
  <2> QED
    BY <2>1, <2>2 DEF Inv
<1>3. Init => Inv
  <2> SUFFICES ASSUME Init PROVE Inv
    OBVIOUS
  <2>1. nested \in BOOLEAN
    BY Zenon DEF Init
  <2> QED
    BY <2>1, InitIInv DEF Inv
<1> QED
  BY <1>2, <1>3, PTL DEF Spec

(* time_enqueue, time_dequeue and the rounds of time_handle keep the queue *)
(* in due order, without a timer twice, while time passes; the decrementer *)
(* holds what it can count. For every set of timers, delays and periods,   *)
(* as long as no interrupt runs time_handle inside time_handle.            *)
THEOREM QueueSortedAlways == Spec => []QueueSorted
<1>1. Inv => QueueSorted
  <2> SUFFICES ASSUME Inv, ~nested
               PROVE  TypeOK /\ \A i, j \in DOMAIN reqs :
                                    i < j => reqs[i] # reqs[j] /\ when[reqs[i]] <= when[reqs[j]]
    BY DEF QueueSorted
  <2>0. IInv /\ nested \in BOOLEAN
    BY DEF Inv
  <2>1. TypeOK
    BY <2>0 DEF IInv, Types, TypeOK
  <2>2. reqs \in Seq(Timers) /\ Sorted(reqs, when)
    BY <2>0 DEF IInv, Types
  <2> QED
    BY <2>1, <2>2 DEF Sorted
<1> QED
  BY <1>1, Invariant, PTL

(* Whenever time_handle is not running, the decrementer is pending or      *)
(* fires for the first timer at the latest MaxRun ticks after it is due,   *)
(* for every decrementer width and every bound on a time_handle run, as    *)
(* long as no interrupt runs time_handle inside time_handle.               *)
THEOREM DecArmedAlways == Spec => []DecArmed
<1>1. Inv => DecArmed
  <2> SUFFICES ASSUME Inv, ~nested, stack = <<>>, reqs # <<>> PROVE dec < 0 \/ dec <= when[reqs[1]] + MaxRun
    BY DEF DecArmed
  <2>0. IInv
    BY DEF Inv
  <2>1. Len(reqs) > 0
    BY <2>0 DEF IInv, Types
  <2> QED
    BY <2>0, <2>1 DEF IInv, Armed
<1> QED
  BY <1>1, Invariant, PTL
=============================================================================
