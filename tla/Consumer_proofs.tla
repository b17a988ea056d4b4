--------------------------- MODULE Consumer_proofs ---------------------------
(***************************************************************************)
(* Proofs about Consumer for every number of messages, set of keys, batch  *)
(* size, capacity and number of faults.                                    *)
(***************************************************************************)
EXTENDS Consumer, FiniteSetTheorems, TLAPS

DurableOK ==
  /\ last \in 0..NMsgs
  /\ key \in [Msgs -> Keys \cup {NoKey}]
  /\ cutover \in 0..last
  /\ watermark \in 0..last
  /\ completed \subseteq 1..last
  /\ handled \subseteq 1..last
  /\ failures \in [Msgs -> 0..MaxFailures]
  /\ faults \in 0..MaxFaults

MemoryOK ==
  /\ up \in BOOLEAN
  /\ rows \subseteq 1..last
  /\ queued \in BOOLEAN
  /\ queue \in [Keys -> Seq(1..last)]
  /\ backoff \in [Keys -> Nat]
  /\ run \in [Keys -> 0..last]
  /\ leaving \in [Keys -> BOOLEAN]

LEMMA TypeParts == TypeOK <=> DurableOK /\ MemoryOK
  BY DEF TypeOK, DurableOK, MemoryOK

-----------------------------------------------------------------------------
(* Operators *)

LEMMA BoundaryType ==
  ASSUME TypeOK
  PROVE  Boundary \in 0..last /\ cutover <= Boundary /\ watermark <= Boundary
  BY ConsumerAssumption DEF Boundary, Larger, TypeOK

(* A completion advances the watermark over handled messages only. *)
LEMMA CompleteAdvances ==
  ASSUME TypeOK, NEW m \in 1..last, Complete(m)
  PROVE  /\ watermark' \in Boundary..last
         /\ completed' \subseteq 1..last
         /\ completed' \subseteq completed \cup {m}
         /\ (Boundary + 1)..watermark' \subseteq completed \cup {m}
  BY DEF Complete, TypeOK

LEMMA CompleteType ==
  ASSUME TypeOK, NEW m \in 1..last, Complete(m)
  PROVE  watermark' \in 0..last /\ completed' \subseteq 1..last
<1>1. watermark' \in Boundary..last /\ completed' \subseteq 1..last
  BY CompleteAdvances
<1>2. Boundary \in 0..last
  BY BoundaryType
<1>3. last \in Nat
  BY ConsumerAssumption DEF TypeOK
<1>. QED BY <1>1, <1>2, <1>3

LEMMA SeqElement ==
  ASSUME NEW S, NEW s \in Seq(S), NEW x \in 1..Len(s)
  PROVE  s[x] \in S
  OBVIOUS

LEMMA DispatchedType ==
  ASSUME NEW q, NEW n \in Nat, q \in [Keys -> Seq(1..n)], run \in [Keys -> 0..n],
         NEW d \in Dispatched(q)
  PROVE  d \in [Keys -> 0..n]
<1>1. PICK K \in SUBSET Ready(q) : d = [k \in Keys |-> IF k \in K THEN Head(q[k]) ELSE run[k]]
  BY DEF Dispatched
<1>2. \A k \in K : k \in Keys /\ q[k] # <<>>
  BY DEF Ready
<1>3. \A k \in K : Head(q[k]) \in 1..n
  BY <1>2
<1>. QED BY <1>1, <1>3

LEMMA ShiftedType ==
  ASSUME TypeOK, NEW k \in Keys
  PROVE  Shifted(k) \in [Keys -> Seq(1..last)]
<1>1. queue[k] # <<>> => Tail(queue[k]) \in Seq(1..last)
  BY DEF TypeOK
<1>. QED BY <1>1 DEF Shifted, TypeOK

LEMMA NextBackoffType ==
  ASSUME TypeOK, NEW k \in Keys
  PROVE  NextBackoff(k) \in Nat
  BY ConsumerAssumption DEF NextBackoff, Smaller, Larger, TypeOK

LEMMA EndOfRowType ==
  ASSUME TypeOK, NEW m, NEW any \in BOOLEAN, NEW q \in [Keys -> Seq(1..last)],
         EndOfRow(m, q, any)
  PROVE  /\ rows' \subseteq 1..last
         /\ queued' \in BOOLEAN
         /\ queue' \in [Keys -> Seq(1..last)]
         /\ run' \in [Keys -> 0..last]
<1>1. last \in Nat
  BY ConsumerAssumption DEF TypeOK
<1>. QED BY <1>1, DispatchedType DEF EndOfRow, TypeOK

-----------------------------------------------------------------------------
(* Types *)

LEMMA InitType == Init => TypeOK
<1>. SUFFICES ASSUME Init PROVE TypeOK
  OBVIOUS
<1>. USE ConsumerAssumption DEF Init
<1>1. DurableOK
  BY DEF DurableOK
<1>2. queue \in [Keys -> Seq(1..last)]
  OBVIOUS
<1>3. backoff \in [Keys -> Nat] /\ run \in [Keys -> 0..last] /\ leaving \in [Keys -> BOOLEAN]
  OBVIOUS
<1>4. up \in BOOLEAN /\ rows \subseteq 1..last /\ queued \in BOOLEAN
  OBVIOUS
<1>5. MemoryOK
  BY <1>2, <1>3, <1>4 DEF MemoryOK
<1>. QED BY <1>1, <1>5, TypeParts

LEMMA ArriveType ==
  ASSUME TypeOK, NEW k \in Keys \cup {NoKey}, Arrive(k)
  PROVE  TypeOK'
<1>. USE ConsumerAssumption DEF TypeOK
<1>1. last' = last + 1 /\ last' \in 0..NMsgs /\ 1..last \subseteq 1..last'
  BY DEF Arrive
<1>2. key' \in [Msgs -> Keys \cup {NoKey}]
  BY DEF Arrive, Msgs
<1>3. Seq(1..last) \subseteq Seq(1..last')
  BY <1>1
<1>4. queue' \in [Keys -> Seq(1..last')]
  BY <1>3 DEF Arrive, memory
<1>5. run' \in [Keys -> 0..last']
  BY <1>1 DEF Arrive, memory
<1>6. /\ cutover' \in 0..last' /\ watermark' \in 0..last' /\ completed' \subseteq 1..last'
      /\ rows' \subseteq 1..last' /\ handled' \subseteq 1..last'
  BY <1>1 DEF Arrive, memory, history
<1>7. /\ up' \in BOOLEAN /\ queued' \in BOOLEAN /\ leaving' \in [Keys -> BOOLEAN]
      /\ backoff' \in [Keys -> Nat]
      /\ failures' \in [Msgs -> 0..MaxFailures] /\ faults' \in 0..MaxFaults
  BY DEF Arrive, memory, history
<1>. QED BY <1>1, <1>2, <1>4, <1>5, <1>6, <1>7

LEMMA RowType ==
  ASSUME TypeOK, NEW m \in Msgs, RowStep(m)
  PROVE  TypeOK'
<1>. DEFINE RowOK == /\ rows' \subseteq 1..last
                     /\ queued' \in BOOLEAN
                     /\ queue' \in [Keys -> Seq(1..last)]
                     /\ run' \in [Keys -> 0..last]
<1>1. m \in 1..last
  BY DEF RowStep, RowDone, RowUnroutable, RowQueued, NextOf, TypeOK
<1>2. queue \in [Keys -> Seq(1..last)] /\ queued \in BOOLEAN
  BY DEF TypeOK
<1>3. EndOfRow(m, queue, queued) => RowOK
  BY <1>2, EndOfRowType
<1>4. CASE RowDone(m)
  <2>1. RowOK
    BY <1>3, <1>4 DEF RowDone
  <2>. QED BY <1>4, <2>1 DEF RowDone, durable, history, TypeOK
<1>5. CASE RowUnroutable(m)
  <2>1. RowOK
    BY <1>3, <1>5 DEF RowUnroutable
  <2>2. Complete(m)
    BY <1>5 DEF RowUnroutable
  <2>3. watermark' \in 0..last /\ completed' \subseteq 1..last
    BY <1>1, <2>2, CompleteType
  <2>4. handled' \subseteq 1..last
    BY <1>1, <1>5 DEF RowUnroutable, TypeOK
  <2>. QED BY <1>5, <2>1, <2>3, <2>4 DEF RowUnroutable, TypeOK
<1>6. CASE RowQueued(m)
  <2>1. key[m] \in Keys
    BY <1>6, <1>1, ConsumerAssumption DEF RowQueued, TypeOK
  <2>2. Append(queue[key[m]], m) \in Seq(1..last)
    BY <1>1, <1>2, <2>1
  <2>3. [queue EXCEPT ![key[m]] = Append(@, m)] \in [Keys -> Seq(1..last)]
    BY <1>2, <2>1, <2>2
  <2>4. EndOfRow(m, [queue EXCEPT ![key[m]] = Append(@, m)], TRUE) => RowOK
    BY <2>3, EndOfRowType
  <2>5. RowOK
    BY <1>3, <1>6, <2>4 DEF RowQueued
  <2>. QED BY <1>6, <2>5 DEF RowQueued, durable, history, TypeOK
<1>. QED BY <1>4, <1>5, <1>6 DEF RowStep

LEMMA TaskType ==
  ASSUME TypeOK, NEW k \in Keys, TaskEnds(k)
  PROVE  TypeOK'
<1>. USE ConsumerAssumption DEF TypeOK
<1>1. run[k] \in 1..last /\ run[k] \in Msgs
  BY DEF TaskEnds, Finish, Fail, FinishFails, Running, Msgs
<1>2. Shifted(k) \in [Keys -> Seq(1..last)]
  BY ShiftedType
<1>3. ASSUME Failed(k)
      PROVE  /\ failures' \in [Msgs -> 0..MaxFailures]
             /\ backoff' \in [Keys -> Nat]
             /\ leaving' \in [Keys -> BOOLEAN]
  <2>1. failures' \in [Msgs -> 0..MaxFailures]
    BY <1>1, <1>3 DEF Failed, Smaller
  <2>2. backoff' \in [Keys -> Nat]
    BY <1>3, NextBackoffType DEF Failed
  <2>3. leaving' \in [Keys -> BOOLEAN]
    BY <1>3 DEF Failed
  <2>. QED BY <2>1, <2>2, <2>3
<1>4. CASE Finish(k)
  <2>1. Complete(run[k])
    BY <1>4 DEF Finish
  <2>2. watermark' \in 0..last /\ completed' \subseteq 1..last
    BY <1>1, <2>1, CompleteType
  <2>3. handled' \subseteq 1..last /\ queue' \in [Keys -> Seq(1..last)]
    BY <1>1, <1>2, <1>4 DEF Finish
  <2>4. leaving' \in [Keys -> BOOLEAN]
    BY <1>4 DEF Finish
  <2>. QED BY <1>4, <2>2, <2>3, <2>4 DEF Finish
<1>5. CASE Fail(k)
  BY <1>3, <1>5 DEF Fail, durable
<1>6. CASE FinishFails(k)
  BY <1>1, <1>2, <1>3, <1>6 DEF FinishFails, durable
<1>. QED BY <1>4, <1>5, <1>6 DEF TaskEnds

LEMMA ReleaseType ==
  ASSUME TypeOK, NEW k \in Keys, Release(k)
  PROVE  TypeOK'
<1>. USE ConsumerAssumption DEF TypeOK
<1>1. queue[k] # <<>> => Head(queue[k]) \in 1..last
  OBVIOUS
<1>. QED BY <1>1 DEF Release, durable, history

LEMMA RetryType == TypeOK /\ Retry => TypeOK'
<1>. SUFFICES ASSUME TypeOK, Retry PROVE TypeOK'
  OBVIOUS
<1>1. last \in Nat
  BY ConsumerAssumption DEF TypeOK
<1>2. run' \in [Keys -> 0..last]
  BY <1>1, DispatchedType DEF TypeOK, Retry
<1>. QED BY <1>2 DEF TypeOK, Retry, durable, history

LEMMA OtherType ==
  ASSUME TypeOK,
         \/ \E m \in Msgs, k \in Keys \cup {NoKey} : Rekey(m, k)
         \/ Poll \/ PollFails \/ Tick \/ Crash \/ Restart \/ Cutover
  PROVE  TypeOK'
<1>. USE ConsumerAssumption DEF TypeOK, durable, memory, history
<1>1. CASE \E m \in Msgs, k \in Keys \cup {NoKey} : Rekey(m, k)
  BY <1>1 DEF Rekey
<1>2. CASE Poll
  BY <1>2 DEF Poll, Batch, Pending
<1>3. CASE PollFails
  BY <1>3 DEF PollFails
<1>4. CASE Tick
  <2>1. \A k \in Keys : backoff[k] \in Nat /\ (backoff[k] > 0 => backoff[k] - 1 \in Nat)
    OBVIOUS
  <2>2. backoff' \in [Keys -> Nat]
    BY <1>4, <2>1 DEF Tick
  <2>. QED BY <1>4, <2>2 DEF Tick
<1>5. CASE Crash
  <2>1. /\ queue' \in [Keys -> Seq(1..last)] /\ run' \in [Keys -> 0..last]
        /\ backoff' \in [Keys -> Nat] /\ leaving' \in [Keys -> BOOLEAN]
    BY <1>5 DEF Crash
  <2>2. faults' \in 0..MaxFaults
    BY <1>5 DEF Crash
  <2>. QED BY <1>5, <2>1, <2>2 DEF Crash
<1>6. CASE Restart
  BY <1>6 DEF Restart
<1>7. CASE Cutover
  BY <1>7 DEF Cutover
<1>. QED BY <1>1, <1>2, <1>3, <1>4, <1>5, <1>6, <1>7

LEMMA StepType == TypeOK /\ [Next]_vars => TypeOK'
<1>. SUFFICES ASSUME TypeOK, [Next]_vars PROVE TypeOK'
  OBVIOUS
<1>1. CASE UNCHANGED vars
  BY <1>1 DEF vars, TypeOK
<1>. QED BY <1>1, ArriveType, RowType, TaskType, ReleaseType, RetryType, OtherType DEF Next

(* The consumer's rows and memory keep their types. *)
THEOREM TypeCorrect == Spec => []TypeOK
  BY InitType, StepType, PTL DEF Spec

-----------------------------------------------------------------------------
(* No message is left behind *)

Covered(n) == n \in handled \/ Retired(n)

(* A completion commits handled messages only. *)
LEMMA CompleteCovers ==
  ASSUME TypeOK, NothingSkipped, NEW m \in 1..last, Complete(m),
         last' = last, cutover' = cutover, handled' = handled \cup {m}
  PROVE  NothingSkipped'
<1>. SUFFICES ASSUME NEW n \in 1..last, Committed(n)' PROVE Covered(n)'
  BY DEF NothingSkipped, Covered
<1>1. watermark' \in Boundary..last /\ Boundary \in 0..last /\ cutover <= Boundary
  BY CompleteAdvances, BoundaryType
<1>2. n <= Boundary \/ n \in completed \cup {m}
  <2>1. CASE n \in completed'
    BY <2>1, CompleteAdvances
  <2>2. CASE n <= Boundary'
    <3>1. Boundary' = watermark'
      BY <1>1, ConsumerAssumption DEF Boundary, Larger, TypeOK
    <3>2. n <= Boundary \/ n \in (Boundary + 1)..watermark'
      BY <1>1, <2>2, <3>1, ConsumerAssumption DEF TypeOK
    <3>. QED BY <3>2, CompleteAdvances
  <2>. QED BY <2>1, <2>2 DEF Committed
<1>. QED BY <1>2 DEF NothingSkipped, Committed, Covered, Retired

LEMMA StepSkipped == TypeOK /\ NothingSkipped /\ [Next]_vars => NothingSkipped'
<1>. SUFFICES ASSUME TypeOK, NothingSkipped, [Next]_vars PROVE NothingSkipped'
  OBVIOUS
<1>1. ASSUME UNCHANGED <<last, cutover, watermark, completed>>, handled \subseteq handled'
      PROVE  NothingSkipped'
  BY <1>1 DEF NothingSkipped, Committed, Boundary, Retired
<1>2. ASSUME NEW k \in Keys \cup {NoKey}, Arrive(k) PROVE NothingSkipped'
  <2>1. last' = last + 1 /\ UNCHANGED <<cutover, watermark, completed, handled>>
    BY <1>2 DEF Arrive, history
  <2>2. ~Committed(last)' /\ last \in Nat
    BY <2>1, BoundaryType, ConsumerAssumption DEF Committed, Boundary, TypeOK
  <2>3. \A n \in 1..last' : n \in 1..last \/ n = last + 1
    BY <2>1, <2>2
  <2>. QED BY <2>1, <2>2, <2>3 DEF NothingSkipped, Committed, Boundary, Retired
<1>3. ASSUME NEW m \in Msgs, RowStep(m) PROVE NothingSkipped'
  <2>1. m \in 1..last
    BY <1>3 DEF RowStep, RowDone, RowUnroutable, RowQueued, NextOf, TypeOK
  <2>2. CASE RowUnroutable(m)
    BY <2>1, <2>2, CompleteCovers DEF RowUnroutable
  <2>3. CASE RowDone(m) \/ RowQueued(m)
    BY <1>1, <2>3 DEF RowDone, RowQueued, durable, history
  <2>. QED BY <1>3, <2>2, <2>3 DEF RowStep
<1>4. ASSUME NEW k \in Keys, TaskEnds(k) PROVE NothingSkipped'
  <2>1. run[k] \in 1..last
    BY <1>4, ConsumerAssumption DEF TaskEnds, Finish, Fail, FinishFails, Running, TypeOK
  <2>2. CASE Finish(k)
    BY <2>1, <2>2, CompleteCovers DEF Finish
  <2>3. CASE Fail(k) \/ FinishFails(k)
    BY <1>1, <2>3 DEF Fail, FinishFails, durable
  <2>. QED BY <1>4, <2>2, <2>3 DEF TaskEnds
<1>5. CASE Cutover
  <2>1. last' = last /\ cutover' = last /\ last \in Nat
    BY <1>5, ConsumerAssumption DEF Cutover, TypeOK
  <2>. QED BY <2>1 DEF NothingSkipped, Retired
<1>6. CASE \/ \E m \in Msgs, k \in Keys \cup {NoKey} : Rekey(m, k)
           \/ \E k \in Keys : Release(k)
           \/ Poll \/ PollFails \/ Retry \/ Tick \/ Crash \/ Restart
  BY <1>1, <1>6 DEF Rekey, Release, Poll, PollFails, Retry, Tick, Crash, Restart,
     durable, history
<1>7. CASE UNCHANGED vars
  BY <1>1, <1>7 DEF vars
<1>. QED BY <1>2, <1>3, <1>4, <1>5, <1>6, <1>7 DEF Next

(* Through crashes and failures, what the consumer will not read again has
   been handled or retired.  *)
THEOREM NothingLost == Spec => []NothingSkipped
<1>1. Init => NothingSkipped
  BY DEF Init, NothingSkipped
<1>. QED BY <1>1, TypeCorrect, StepSkipped, PTL DEF Spec

-----------------------------------------------------------------------------
(* Order within a key.  Unstable messages are exempt throughout. *)

Before(n, m) == n \in 1..last /\ n < m /\ n \notin Unstable

(* A queued message has its predecessors ahead of it, or they are covered. *)
QueueOrder ==
  \A k \in Keys : \A x \in 1..Len(queue[k]) : \A n :
    Before(n, queue[k][x]) /\ key[n] = k
      => Covered(n) \/ \E y \in 1..Len(queue[k]) : y < x /\ queue[k][y] = n

(* The queue of a key holds messages of the key. *)
QueueKey ==
  \A k \in Keys : \A x \in 1..Len(queue[k]) :
    queue[k][x] \notin Unstable => key[queue[k][x]] = k

Queued(n) == key[n] \in Keys /\ InQueue(queue[key[n]], n)

(* What precedes a fetched row is fetched too, covered, or queued. *)
RowOrder ==
  \A m \in rows : \A n :
    Before(n, m) /\ n \notin rows
      => Covered(n) \/ Queued(n)

(* The predecessors of a running message are covered. *)
RunOrder ==
  \A k \in Keys : run[k] # 0 =>
    /\ run[k] \notin Unstable => key[run[k]] = k
    /\ \A n : Before(n, run[k]) /\ key[n] = k => Covered(n)

OrderInv == QueueOrder /\ QueueKey /\ RowOrder /\ RunOrder

(* Nothing a step does uncovers a message or changes the key of a stable one,
   except that Arrive gives the new message its key.  *)
Steady ==
  /\ last' = last
  /\ \A n \in 1..last : Covered(n) => Covered(n)'
  /\ \A n \in 1..last : n \notin Unstable => key'[n] = key[n]

LEMMA OrderGivesInOrder == TypeOK /\ OrderInv => InOrder
<1>. SUFFICES ASSUME TypeOK, RunOrder, NEW k \in Keys, run[k] # 0, run[k] \notin Unstable,
                     NEW n \in (1..run[k] - 1) \ Unstable, key[n] = key[run[k]]
              PROVE  Covered(n)
  BY DEF OrderInv, InOrder, Covered
<1>1. key[n] = k
  BY DEF RunOrder
<1>2. Before(n, run[k])
  BY ConsumerAssumption DEF Before, TypeOK
<1>. QED BY <1>1, <1>2 DEF RunOrder

(* dispatchAll starts the heads of queues that are in order. *)
LEMMA DispatchedOrder ==
  ASSUME TypeOK, TypeOK', Steady, RunOrder, QueueOrder', QueueKey',
         NEW q, q = queue', run' \in Dispatched(q)
  PROVE  RunOrder'
<1>1. PICK K \in SUBSET Ready(q) : run' = [k \in Keys |-> IF k \in K THEN Head(q[k]) ELSE run[k]]
  BY DEF Dispatched
<1>2. ASSUME NEW k \in Keys, (run[k] # 0)'
      PROVE  /\ (run[k] \notin Unstable => key[run[k]] = k)'
             /\ \A n : (Before(n, run[k]) /\ key[n] = k)' => Covered(n)'
  <2>1. CASE k \in K
    <3>1. queue'[k] # <<>> /\ run'[k] = queue'[k][1]
      BY <1>1, <2>1 DEF Ready, TypeOK
    <3>2. 1 \in 1..Len(queue'[k]) /\ \A y \in 1..Len(queue'[k]) : ~(y < 1)
      BY <3>1 DEF TypeOK
    <3>. QED BY <3>1, <3>2 DEF QueueOrder, QueueKey
  <2>2. CASE k \notin K
    <3>1. run'[k] = run[k] /\ run[k] \in 1..last
      BY <1>1, <1>2, <2>2, ConsumerAssumption DEF TypeOK
    <3>2. run[k] \notin Unstable => key'[run[k]] = key[run[k]]
      BY <3>1 DEF Steady
    <3>3. \A n : Before(n, run[k])' => Before(n, run[k]) /\ key'[n] = key[n]
      BY <3>1 DEF Before, Steady
    <3>4. \A n : Before(n, run[k]) /\ Covered(n) => Covered(n)'
      BY DEF Before, Steady
    <3>. QED BY <1>2, <3>1, <3>2, <3>3, <3>4 DEF RunOrder
  <2>. QED BY <2>1, <2>2
<1>. QED BY <1>2 DEF RunOrder

(* Steps that leave the queues alone, and the rows or no row of the poll. *)
LEMMA SteadyOrder ==
  ASSUME TypeOK, OrderInv, Steady, queue' = queue
  PROVE  QueueOrder' /\ QueueKey' /\ (rows' \in {rows, {}} => RowOrder')
<1>1. \A k \in Keys : \A x \in 1..Len(queue[k]) : queue[k][x] \in 1..last
  BY DEF TypeOK
<1>2. \A n, m : Before(n, m)' <=> Before(n, m)
  BY DEF Before, Steady
<1>3. \A n, m : Before(n, m) => key'[n] = key[n] /\ (Covered(n) => Covered(n)')
  BY DEF Before, Steady
<1>4. QueueOrder'
  BY <1>2, <1>3 DEF OrderInv, QueueOrder
<1>5. QueueKey'
  BY <1>1 DEF OrderInv, QueueKey, Steady
<1>6. rows' \in {rows, {}} => RowOrder'
  BY <1>2, <1>3 DEF OrderInv, RowOrder, Queued, InQueue
<1>. QED BY <1>4, <1>5, <1>6

LEMMA RunSteady ==
  ASSUME TypeOK, OrderInv, Steady, NEW k \in Keys, run'[k] = run[k], (run[k] # 0)'
  PROVE  /\ (run[k] \notin Unstable => key[run[k]] = k)'
         /\ \A n : (Before(n, run[k]) /\ key[n] = k)' => Covered(n)'
<1>1. run[k] \in 1..last
  BY ConsumerAssumption DEF TypeOK
<1>3. run[k] \notin Unstable => key'[run[k]] = k
  BY <1>1 DEF OrderInv, RunOrder, Steady
<1>4. ASSUME NEW n, Before(n, run[k])', key'[n] = k PROVE Covered(n)'
  <2>1. Before(n, run[k]) /\ key[n] = k
    BY <1>1, <1>4 DEF Before, Steady
  <2>2. Covered(n) /\ n \in 1..last
    BY <2>1, <1>1, ConsumerAssumption DEF OrderInv, RunOrder, Before, TypeOK
  <2>. QED BY <2>2 DEF Steady
<1>. QED BY <1>3, <1>4

(* Row m leaves the poll, covered or queued: the rest stays in order. *)
LEMMA RowGone ==
  ASSUME TypeOK, OrderInv, Steady, NEW m, NextOf(m), rows' = rows \ {m},
         \A k \in Keys : \A n : InQueue(queue[k], n) => InQueue(queue'[k], n),
         m \notin Unstable =>
           Covered(m)' \/ (key[m] \in Keys /\ InQueue(queue'[key[m]], m))
  PROVE  RowOrder'
<1>. SUFFICES ASSUME NEW j \in rows', NEW n, Before(n, j)', n \notin rows'
              PROVE  Covered(n)' \/ Queued(n)'
  BY DEF RowOrder
<1>1. j \in rows /\ Before(n, j) /\ key'[n] = key[n] /\ (Covered(n) => Covered(n)')
  BY DEF Before, Steady
<1>2. CASE n = m
  BY <1>1, <1>2 DEF Before, Queued, InQueue
<1>3. CASE n # m
  <2>1. n \notin rows
    BY <1>3
  <2>2. Covered(n) \/ Queued(n)
    BY <1>1, <2>1 DEF OrderInv, RowOrder
  <2>3. key[n] \in Keys /\ InQueue(queue[key[n]], n) => InQueue(queue'[key[n]], n)
    OBVIOUS
  <2>4. key'[n] = key[n] /\ (Covered(n) => Covered(n)')
    BY <1>1
  <2>5. CASE Covered(n)
    BY <2>4, <2>5 DEF Covered, Retired
  <2>6. CASE Queued(n)
    BY <2>3, <2>4, <2>6 DEF InQueue, Queued
  <2>. QED BY <2>2, <2>5, <2>6
<1>. QED BY <1>2, <1>3

LEMMA ArriveOrder ==
  ASSUME TypeOK, OrderInv, NEW k \in Keys \cup {NoKey}, Arrive(k)
  PROVE  OrderInv'
<1>. USE ConsumerAssumption
<1>1. last' = last + 1 /\ last \in Nat /\ queue' = queue /\ rows' = rows /\ run' = run
  BY DEF Arrive, memory, TypeOK
<1>2. \A n \in 1..last : key'[n] = key[n] /\ (Covered(n)' <=> Covered(n))
  BY <1>1 DEF Arrive, memory, history, TypeOK, Covered, Retired, Msgs
<1>3. \A m \in 1..last : \A n : Before(n, m)' => Before(n, m) /\ n \in 1..last
  BY <1>1 DEF Before
<1>4. \A j \in Keys : \A x \in 1..Len(queue[j]) : queue[j][x] \in 1..last
  BY DEF TypeOK
<1>5. QueueOrder'
  BY <1>1, <1>2, <1>3, <1>4 DEF OrderInv, QueueOrder
<1>6. QueueKey'
  BY <1>1, <1>2, <1>4 DEF OrderInv, QueueKey
<1>7. RowOrder'
  <2>1. rows \subseteq 1..last
    BY DEF TypeOK
  <2>. QED BY <1>1, <1>2, <1>3, <2>1 DEF OrderInv, RowOrder, Queued, InQueue
<1>8. RunOrder'
  <2>1. \A j \in Keys : run[j] # 0 => run[j] \in 1..last
    BY DEF TypeOK
  <2>. QED BY <1>1, <1>2, <1>3, <2>1 DEF OrderInv, RunOrder
<1>. QED BY <1>5, <1>6, <1>7, <1>8 DEF OrderInv

(* What a poll leaves out below its newest row is committed. *)
LEMMA PollOrder ==
  ASSUME TypeOK, NothingSkipped, OrderInv, Poll
  PROVE  OrderInv'
<1>1. Steady /\ queue' = queue /\ run' = run
  BY DEF Poll, durable, history, Steady, Covered, Retired
<1>2. ASSUME NEW m \in Batch, NEW n \in 1..last, n < m, n \notin Batch
      PROVE  Covered(n)
  <2>1. IsFiniteSet({j \in Pending : j < m}) /\ Cardinality({j \in Pending : j < m}) < BatchSize
    <3>1. {j \in Pending : j < m} \subseteq 1..last
      BY DEF Pending
    <3>2. IsFiniteSet(1..last)
      BY FS_Interval, ConsumerAssumption DEF TypeOK
    <3>. QED BY <1>2, <3>1, <3>2, FS_Subset DEF Batch
  <2>2. {j \in Pending : j < n} \subseteq {j \in Pending : j < m}
    BY <1>2 DEF Batch, Pending
  <2>3. Cardinality({j \in Pending : j < n}) <= Cardinality({j \in Pending : j < m})
    BY <2>1, <2>2, FS_Subset
  <2>4. Cardinality({j \in Pending : j < n}) \in Nat /\ Cardinality({j \in Pending : j < m}) \in Nat
    BY <2>1, <2>2, FS_Subset, FS_CardinalityType
  <2>5. n \notin Pending
    BY <1>2, <2>1, <2>3, <2>4, ConsumerAssumption DEF Batch
  <2>6. Committed(n)
    BY <2>5, BoundaryType DEF Pending, Committed, TypeOK
  <2>. QED BY <2>6 DEF NothingSkipped, Covered
<1>3. RowOrder'
  <2>1. rows' = Batch /\ UNCHANGED <<last, handled, cutover>>
    BY DEF Poll, durable, history
  <2>2. ASSUME NEW m \in rows', NEW n, Before(n, m)', n \notin rows' PROVE Covered(n)'
    <3>1. m \in Batch /\ n \in 1..last /\ n < m /\ n \notin Batch
      BY <2>1, <2>2 DEF Before
    <3>2. Covered(n)
      BY <1>2, <3>1
    <3>. QED BY <2>1, <3>2 DEF Covered, Retired
  <2>. QED BY <2>2 DEF RowOrder
<1>4. RunOrder'
  BY <1>1, RunSteady DEF RunOrder
<1>. QED BY <1>1, <1>3, <1>4, SteadyOrder DEF OrderInv

LEMMA RowDoneOrder ==
  ASSUME TypeOK, NothingSkipped, OrderInv, NEW m \in Msgs, RowDone(m), TypeOK'
  PROVE  OrderInv'
<1>1. NextOf(m) /\ rows' = rows \ {m} /\ queue' = queue
  BY DEF RowDone, EndOfRow
<1>2. Steady
  BY DEF RowDone, durable, history, Steady, Covered, Retired
<1>3. Covered(m)'
  BY DEF RowDone, durable, history, NothingSkipped, Committed, Covered, Retired, TypeOK
<1>4. RowOrder'
  BY <1>1, <1>2, <1>3, RowGone
<1>5. QueueOrder' /\ QueueKey'
  BY <1>1, <1>2, SteadyOrder
<1>6. RunOrder'
  <2>1. CASE run' = run
    BY <1>2, <2>1, RunSteady DEF RunOrder
  <2>2. CASE run' \in Dispatched(queue)
    BY <1>1, <1>2, <1>5, <2>2, DispatchedOrder DEF OrderInv
  <2>. QED BY <2>1, <2>2 DEF RowDone, EndOfRow
<1>. QED BY <1>4, <1>5, <1>6 DEF OrderInv

LEMMA RowUnroutableOrder ==
  ASSUME TypeOK, OrderInv, NEW m \in Msgs, RowUnroutable(m), TypeOK'
  PROVE  OrderInv'
<1>1. NextOf(m) /\ rows' = rows \ {m} /\ queue' = queue
  BY DEF RowUnroutable, EndOfRow
<1>2. Steady
  BY DEF RowUnroutable, Steady, Covered, Retired
<1>3. Covered(m)'
  BY DEF RowUnroutable, Covered
<1>4. RowOrder'
  BY <1>1, <1>2, <1>3, RowGone
<1>5. QueueOrder' /\ QueueKey'
  BY <1>1, <1>2, SteadyOrder
<1>6. RunOrder'
  <2>1. CASE run' = run
    BY <1>2, <2>1, RunSteady DEF RunOrder
  <2>2. CASE run' \in Dispatched(queue)
    BY <1>1, <1>2, <1>5, <2>2, DispatchedOrder DEF OrderInv
  <2>. QED BY <2>1, <2>2 DEF RowUnroutable, EndOfRow
<1>. QED BY <1>4, <1>5, <1>6 DEF OrderInv

(* The next row of the poll joins a queue: every predecessor is covered or
   already queued, because rows are dealt with in id order.  *)
LEMMA RowQueuedOrder ==
  ASSUME TypeOK, OrderInv, NEW m \in Msgs, RowQueued(m), TypeOK'
  PROVE  OrderInv'
<1>. DEFINE k == key[m]
            grown == [queue EXCEPT ![k] = Append(@, m)]
<1>1. NextOf(m) /\ rows' = rows \ {m} /\ m \in rows /\ m \in 1..last /\ k \in Keys
  BY ConsumerAssumption DEF RowQueued, EndOfRow, NextOf, TypeOK
<1>2. Steady
  BY DEF RowQueued, durable, history, Steady, Covered, Retired
<1>3. (queue' = queue /\ InQueue(queue[k], m)) \/ queue' = grown
  BY DEF RowQueued, EndOfRow
<1>4. queue[k] \in Seq(1..last) /\ \A j \in Keys : queue[j] \in Seq(1..last)
  BY <1>1 DEF TypeOK
<1>5. ASSUME queue' = grown PROVE QueueOrder' /\ QueueKey' /\ RowOrder'
  <2>1. /\ queue'[k] = Append(queue[k], m) /\ Len(queue'[k]) = Len(queue[k]) + 1
        /\ Len(queue[k]) \in Nat /\ queue'[k][Len(queue[k]) + 1] = m
        /\ \A x \in 1..Len(queue[k]) : queue'[k][x] = queue[k][x]
    BY <1>1, <1>4, <1>5 DEF TypeOK
  <2>2. \A j \in Keys : j # k => queue'[j] = queue[j]
    BY <1>5 DEF TypeOK
  <2>3. ASSUME NEW n, Before(n, m), key[n] = k
        PROVE  Covered(n) \/ \E y \in 1..Len(queue[k]) : queue[k][y] = n
    <3>1. n \notin rows
      BY <1>1, <2>3, ConsumerAssumption DEF NextOf, Before, TypeOK
    <3>. QED BY <1>1, <2>3, <3>1 DEF OrderInv, RowOrder, Queued, InQueue
  <2>4. ASSUME NEW j \in Keys, NEW x \in 1..Len(queue'[j]), NEW n,
               Before(n, queue[j][x])', key'[n] = j
        PROVE  Covered(n)' \/ \E y \in 1..Len(queue'[j]) : y < x /\ queue'[j][y] = n
    <3>1. n \in 1..last /\ n \notin Unstable /\ n < queue'[j][x] /\ key[n] = j
      BY <1>2, <2>4 DEF Before, Steady
    <3>2. CASE j # k
      <4>1. Covered(n) \/ \E y \in 1..Len(queue[j]) : y < x /\ queue[j][y] = n
        BY <2>2, <2>4, <3>1, <3>2 DEF OrderInv, QueueOrder, Before
      <4>. QED BY <1>2, <2>2, <3>1, <3>2, <4>1 DEF Steady
    <3>3. CASE j = k /\ x \in 1..Len(queue[k])
      <4>1. queue'[j][x] = queue[k][x]
        BY <2>1, <3>3
      <4>2. Covered(n) \/ \E y \in 1..Len(queue[k]) : y < x /\ queue[k][y] = n
        BY <1>1, <3>1, <3>3, <4>1 DEF OrderInv, QueueOrder, Before
      <4>3. Covered(n) => Covered(n)'
        BY <1>2, <3>1 DEF Steady
      <4>4. ASSUME NEW y \in 1..Len(queue[k])
            PROVE  y \in 1..Len(queue'[k]) /\ queue'[k][y] = queue[k][y]
        BY <2>1
      <4>. QED BY <3>3, <4>2, <4>3, <4>4
    <3>4. CASE j = k /\ x = Len(queue[k]) + 1
      <4>1. Before(n, m)
        BY <2>1, <3>1, <3>4 DEF Before
      <4>2. Covered(n) \/ \E y \in 1..Len(queue[k]) : queue[k][y] = n
        BY <2>3, <3>1, <3>4, <4>1
      <4>3. Covered(n) => Covered(n)'
        BY <1>2, <3>1 DEF Steady
      <4>4. ASSUME NEW y \in 1..Len(queue[k])
            PROVE  y \in 1..Len(queue'[k]) /\ y < x /\ queue'[k][y] = queue[k][y]
        BY <2>1, <3>4
      <4>. QED BY <3>4, <4>2, <4>3, <4>4
    <3>. QED BY <2>1, <2>4, <3>2, <3>3, <3>4
  <2>5. QueueOrder'
    BY <2>4 DEF QueueOrder
  <2>6. QueueKey'
    <3>1. ASSUME NEW j \in Keys, NEW x \in 1..Len(queue'[j]), queue'[j][x] \notin Unstable
          PROVE  key'[queue'[j][x]] = j
      <4>1. queue'[j][x] \in 1..last
        <5>1. queue'[j] \in Seq(1..last)
          BY <1>2 DEF TypeOK, Steady
        <5>. QED BY <3>1, <5>1, SeqElement
      <4>2. key'[queue'[j][x]] = key[queue'[j][x]]
        BY <1>2, <3>1, <4>1 DEF Steady
      <4>3. CASE j # k
        BY <2>2, <3>1, <4>2, <4>3 DEF OrderInv, QueueKey
      <4>4. CASE j = k /\ x \in 1..Len(queue[k])
        BY <2>1, <3>1, <4>2, <4>4, <1>1 DEF OrderInv, QueueKey
      <4>5. CASE j = k /\ x = Len(queue[k]) + 1
        BY <2>1, <4>2, <4>5
      <4>. QED BY <2>1, <3>1, <4>3, <4>4, <4>5
    <3>. QED BY <3>1 DEF QueueKey
  <2>7. \A j \in Keys : \A n : InQueue(queue[j], n) => InQueue(queue'[j], n)
    BY <2>1, <2>2 DEF InQueue
  <2>8. InQueue(queue'[k], m)
    BY <2>1 DEF InQueue
  <2>9. RowOrder'
    BY <1>1, <1>2, <2>7, <2>8, RowGone
  <2>. QED BY <2>5, <2>6, <2>9
<1>6. ASSUME queue' = queue, InQueue(queue[k], m)
      PROVE  QueueOrder' /\ QueueKey' /\ RowOrder'
  <2>1. RowOrder'
    BY <1>1, <1>2, <1>6, RowGone
  <2>. QED BY <1>2, <1>6, <2>1, SteadyOrder
<1>7. QueueOrder' /\ QueueKey' /\ RowOrder'
  BY <1>3, <1>5, <1>6
<1>8. RunOrder'
  <2>1. CASE run' = run
    BY <1>2, <2>1, RunSteady DEF RunOrder
  <2>2. CASE run' \in Dispatched(queue')
    BY <1>2, <1>7, <2>2, DispatchedOrder DEF OrderInv
  <2>. QED BY <2>1, <2>2 DEF RowQueued, EndOfRow
<1>. QED BY <1>7, <1>8 DEF OrderInv

LEMMA RowStepOrder ==
  ASSUME TypeOK, NothingSkipped, OrderInv, NEW m \in Msgs, RowStep(m)
  PROVE  OrderInv'
<1>1. TypeOK'
  BY RowType
<1>. QED BY <1>1, RowDoneOrder, RowUnroutableOrder, RowQueuedOrder DEF RowStep

(* The head of a queue leaves it when its task has called done: it is
   handled from then on, so its successors may lose sight of it.  *)
LEMMA ShiftOrder ==
  ASSUME TypeOK, OrderInv, Steady, NEW k \in Keys, run[k] \in 1..last, rows' = rows,
         run' = run, queue' = Shifted(k), Covered(run[k])'
  PROVE  OrderInv'
<1>. DEFINE q == queue[k]
<1>1. \A j \in Keys : queue[j] \in Seq(1..last)
  BY DEF TypeOK
<1>2. RunOrder'
  BY RunSteady DEF RunOrder
<1>3. CASE queue' = queue
  BY <1>2, <1>3, SteadyOrder DEF OrderInv
<1>4. CASE q # <<>> /\ Head(q) = run[k] /\ queue' = [queue EXCEPT ![k] = Tail(q)]
  <2>1. /\ queue'[k] = Tail(q) /\ Len(q) \in Nat /\ Len(q) > 0
        /\ Len(queue'[k]) = Len(q) - 1 /\ q[1] = run[k]
        /\ \A x \in 1..Len(queue'[k]) : queue'[k][x] = q[x + 1] /\ x + 1 \in 1..Len(q)
    BY <1>1, <1>4 DEF TypeOK
  <2>2. \A j \in Keys : j # k => queue'[j] = queue[j]
    BY <1>4 DEF TypeOK
  <2>3. \A y \in 1..Len(q) : y # 1 => y - 1 \in 1..Len(queue'[k]) /\ queue'[k][y - 1] = q[y]
    BY <2>1
  <2>4. ASSUME NEW j \in Keys, NEW x \in 1..Len(queue'[j]), NEW n,
               Before(n, queue[j][x])', key'[n] = j
        PROVE  Covered(n)' \/ \E y \in 1..Len(queue'[j]) : y < x /\ queue'[j][y] = n
    <3>1. /\ n \in 1..last /\ n \notin Unstable /\ n < queue'[j][x] /\ key[n] = j
          /\ Covered(n) => Covered(n)'
      BY <2>4 DEF Before, Steady
    <3>2. CASE j # k
      <4>1. Covered(n) \/ \E y \in 1..Len(queue[j]) : y < x /\ queue[j][y] = n
        BY <2>2, <2>4, <3>1, <3>2 DEF OrderInv, QueueOrder, Before
      <4>. QED BY <2>2, <3>1, <3>2, <4>1
    <3>3. CASE j = k
      <4>1. x + 1 \in 1..Len(q) /\ q[x + 1] = queue'[k][x]
        BY <2>1, <3>3
      <4>2. Covered(n) \/ \E y \in 1..Len(q) : y < x + 1 /\ q[y] = n
        BY <3>1, <3>3, <4>1 DEF OrderInv, QueueOrder, Before
      <4>3. ASSUME NEW y \in 1..Len(q), y < x + 1, q[y] = n
            PROVE  Covered(n)' \/ \E z \in 1..Len(queue'[k]) : z < x /\ queue'[k][z] = n
        <5>1. CASE y = 1
          BY <2>1, <4>3, <5>1
        <5>2. CASE y # 1
          <6>1. y - 1 \in 1..Len(queue'[k]) /\ queue'[k][y - 1] = n /\ y - 1 < x
            BY <2>1, <2>3, <2>4, <3>3, <4>3, <5>2
          <6>. QED BY <6>1
        <5>. QED BY <5>1, <5>2
      <4>. QED BY <3>1, <3>3, <4>2, <4>3
    <3>. QED BY <3>2, <3>3
  <2>5. QueueOrder'
    BY <2>4 DEF QueueOrder
  <2>6. QueueKey'
    <3>1. ASSUME NEW j \in Keys, NEW x \in 1..Len(queue'[j]), queue'[j][x] \notin Unstable
          PROVE  key'[queue'[j][x]] = j
      <4>1. PICK y \in 1..Len(queue[j]) : queue'[j][x] = queue[j][y]
        <5>1. CASE j = k
          <6>1. x + 1 \in 1..Len(queue[j]) /\ queue'[j][x] = queue[j][x + 1]
            BY <2>1, <3>1, <5>1
          <6>. QED BY <6>1
        <5>2. CASE j # k
          BY <2>2, <3>1, <5>2
        <5>. QED BY <5>1, <5>2
      <4>2. queue[j] \in Seq(1..last)
        BY <1>1
      <4>3. queue[j][y] \in 1..last
        BY <4>2, SeqElement
      <4>. QED BY <3>1, <4>1, <4>3 DEF OrderInv, QueueKey, Steady
    <3>. QED BY <3>1 DEF QueueKey
  <2>7. ASSUME NEW m \in rows', NEW n, Before(n, m)', n \notin rows'
        PROVE  Covered(n)' \/ Queued(n)'
    <3>1. /\ Before(n, m) /\ n \notin rows /\ m \in rows /\ n \in 1..last
          /\ key'[n] = key[n]
          /\ Covered(n) => Covered(n)'
      BY <2>7 DEF Before, Steady
    <3>2. Covered(n) \/ Queued(n)
      BY <3>1 DEF OrderInv, RowOrder
    <3>3. ASSUME Queued(n) PROVE Covered(n)' \/ Queued(n)'
      <4>1. PICK y \in 1..Len(queue[key[n]]) : queue[key[n]][y] = n
        BY <3>3 DEF Queued, InQueue
      <4>2. CASE key[n] # k
        BY <2>2, <3>1, <3>3, <4>1, <4>2 DEF Queued, InQueue
      <4>3. CASE key[n] = k /\ y = 1
        BY <2>1, <4>1, <4>3
      <4>4. CASE key[n] = k /\ y # 1
        BY <2>3, <3>1, <4>1, <4>4 DEF Queued, InQueue
      <4>. QED BY <4>2, <4>3, <4>4
    <3>. QED BY <3>1, <3>2, <3>3
  <2>8. RowOrder'
    BY <2>7 DEF RowOrder
  <2>. QED BY <1>2, <2>5, <2>6, <2>8 DEF OrderInv
<1>. QED BY <1>3, <1>4 DEF Shifted

LEMMA TaskOrder ==
  ASSUME TypeOK, OrderInv, NEW k \in Keys, TaskEnds(k)
  PROVE  OrderInv'
<1>1. run[k] \in 1..last
  BY ConsumerAssumption DEF TaskEnds, Finish, Fail, FinishFails, Running, TypeOK
<1>2. Steady /\ rows' = rows /\ run' = run
  BY DEF TaskEnds, Finish, Fail, FinishFails, durable, Steady, Covered, Retired
<1>3. CASE Finish(k) \/ FinishFails(k)
  <2>1. queue' = Shifted(k) /\ Covered(run[k])'
    BY <1>2, <1>3 DEF Finish, FinishFails, Covered
  <2>. QED BY <1>1, <1>2, <2>1, ShiftOrder
<1>4. CASE Fail(k)
  <2>1. queue' = queue
    BY <1>4 DEF Fail
  <2>2. RunOrder'
    BY <1>2, RunSteady DEF RunOrder
  <2>. QED BY <1>2, <2>1, <2>2, SteadyOrder DEF OrderInv
<1>. QED BY <1>3, <1>4 DEF TaskEnds

LEMMA ReleaseOrder ==
  ASSUME TypeOK, OrderInv, NEW k \in Keys, Release(k)
  PROVE  OrderInv'
<1>1. Steady /\ queue' = queue /\ rows' = rows
  BY DEF Release, durable, history, Steady, Covered, Retired
<1>2. QueueOrder' /\ QueueKey' /\ RowOrder'
  BY <1>1, SteadyOrder
<1>3. ASSUME NEW j \in Keys, (run[j] # 0)'
      PROVE  /\ (run[j] \notin Unstable => key[run[j]] = j)'
             /\ \A n : (Before(n, run[j]) /\ key[n] = j)' => Covered(n)'
  <2>1. CASE j # k
    <3>1. run'[j] = run[j]
      BY <2>1 DEF Release, TypeOK
    <3>. QED BY <1>1, <1>3, <3>1, RunSteady
  <2>2. CASE j = k
    <3>1. queue'[j] # <<>> /\ run'[j] = queue'[j][1] /\ queue'[j] \in Seq(1..last)
      BY <1>1, <1>3, <2>2 DEF Release, TypeOK
    <3>2. 1 \in 1..Len(queue'[j]) /\ \A y \in 1..Len(queue'[j]) : ~(y < 1)
      BY <3>1
    <3>. QED BY <1>2, <3>1, <3>2 DEF QueueOrder, QueueKey
  <2>. QED BY <2>1, <2>2
<1>4. RunOrder'
  BY <1>3 DEF RunOrder
<1>. QED BY <1>2, <1>4 DEF OrderInv

LEMMA CrashOrder ==
  ASSUME TypeOK, OrderInv, Crash
  PROVE  OrderInv'
<1>1. /\ rows' = {} /\ queue' = [j \in Keys |-> <<>>] /\ run' = [j \in Keys |-> 0]
  BY DEF Crash
<1>2. \A j \in Keys : Len(queue'[j]) = 0 /\ run'[j] = 0
  BY <1>1
<1>. QED BY <1>1, <1>2 DEF OrderInv, QueueOrder, QueueKey, RowOrder, RunOrder

LEMMA StepOrder == TypeOK /\ NothingSkipped /\ OrderInv /\ [Next]_vars => OrderInv'
<1>. SUFFICES ASSUME TypeOK, NothingSkipped, OrderInv, [Next]_vars PROVE OrderInv'
  OBVIOUS
<1>1. TypeOK'
  BY StepType
<1>2. ASSUME Steady, queue' = queue, run' = run, rows' \in {rows, {}} PROVE OrderInv'
  <2>1. RunOrder'
    BY <1>2, RunSteady DEF RunOrder
  <2>. QED BY <1>2, <2>1, SteadyOrder DEF OrderInv
<1>3. ASSUME Retry PROVE OrderInv'
  <2>1. Steady /\ queue' = queue /\ rows' = rows /\ run' \in Dispatched(queue)
    BY <1>3 DEF Retry, durable, history, Steady, Covered, Retired
  <2>2. QueueOrder' /\ QueueKey' /\ RowOrder'
    BY <2>1, SteadyOrder
  <2>3. RunOrder'
    BY <1>1, <2>1, <2>2, DispatchedOrder DEF OrderInv
  <2>. QED BY <2>2, <2>3 DEF OrderInv
<1>4. CASE \E m \in Msgs, k \in Keys \cup {NoKey} : Rekey(m, k)
  BY <1>2, <1>4 DEF Rekey, memory, history, Steady, Covered, Retired, TypeOK
<1>5. CASE PollFails \/ Tick \/ Restart
  BY <1>2, <1>5 DEF PollFails, Tick, Restart, durable, history, Steady, Covered, Retired
<1>6. ASSUME Cutover PROVE OrderInv'
  <2>1. Steady
    BY <1>6, ConsumerAssumption DEF Cutover, history, Steady, Covered, Retired, TypeOK
  <2>. QED BY <1>2, <1>6, <2>1 DEF Cutover, memory
<1>7. CASE UNCHANGED vars
  BY <1>2, <1>7 DEF vars, Steady, Covered, Retired
<1>. QED
  BY <1>3, <1>4, <1>5, <1>6, <1>7, ArriveOrder, PollOrder, RowStepOrder, TaskOrder,
     ReleaseOrder, CrashOrder DEF Next

(* Messages of one key are handled in id order, for any batch size, capacity
   and number of crashes: a task starts when its predecessors are covered.  *)
THEOREM Ordered == Spec => []InOrder
<1>1. Init => OrderInv
  BY DEF Init, OrderInv, QueueOrder, QueueKey, RowOrder, RunOrder
<1>. QED BY <1>1, TypeCorrect, NothingLost, StepOrder, OrderGivesInOrder, PTL DEF Spec

-----------------------------------------------------------------------------
(* Refinement.  What a step can do to the mapped state: a message arrives or   *)
(* gets another key; a message whose turn it is is handled, and perhaps        *)
(* settled; everything is retired.                                             *)

SettledSet == {m \in 1..last : Committed(m)}

(* A completion settles its message and no other. *)
LEMMA CompleteSettles ==
  ASSUME TypeOK, NEW m \in 1..last, Complete(m), last' = last, cutover' = cutover
  PROVE  SettledSet' = SettledSet \cup {m}
<1>1. /\ Boundary \in 0..last /\ cutover <= Boundary /\ last \in Nat
      /\ watermark' \in Boundary..last
  BY BoundaryType, CompleteAdvances, ConsumerAssumption DEF TypeOK
<1>2. Boundary' = watermark'
  BY <1>1, ConsumerAssumption DEF Boundary, Larger, TypeOK
<1>3. completed' = {n \in completed \cup {m} : n > watermark'}
  BY DEF Complete
<1>4. \A n \in (Boundary + 1)..watermark' : n \in completed \cup {m}
  BY CompleteAdvances
<1>5. ASSUME NEW n \in 1..last
      PROVE  Committed(n)' <=> Committed(n) \/ n = m
  <2>1. n <= watermark' \/ n > watermark'
    BY <1>1
  <2>2. CASE n > watermark'
    <3>1. ~(n <= watermark') /\ ~(n <= Boundary)
      BY <1>1, <2>2
    <3> QED
      BY <1>2, <1>3, <2>2, <3>1 DEF Committed
  <2>3. CASE n <= watermark'
    <3>1. n <= Boundary \/ n \in (Boundary + 1)..watermark'
      BY <1>1, <2>3
    <3> QED
      BY <1>2, <1>4, <2>3, <3>1 DEF Committed
  <2> QED
    BY <2>1, <2>2, <2>3
<1> QED
  BY <1>5 DEF SettledSet

(* What the queues know of a task is what KeyedConsumption asks of it. *)
LEMMA TaskHasTurn ==
  ASSUME TypeOK, OrderInv, NEW k \in Keys, run[k] # 0
  PROVE  run[k] \in 1..last /\ Consumption!Turn(run[k])
<1>1. run[k] \in 1..last
  BY ConsumerAssumption DEF TypeOK
<1> SUFFICES ASSUME run[k] \notin Unstable, NEW n \in (1..run[k] - 1) \ Unstable,
                    key[n] = key[run[k]]
             PROVE  n \in handled \/ n <= cutover
  BY <1>1 DEF Consumption!Turn
<1>2. Before(n, run[k])
  BY <1>1, ConsumerAssumption DEF Before, TypeOK
<1> QED
  BY <1>2 DEF OrderInv, RunOrder, Covered, Retired

LEMMA StepConsumption ==
  ASSUME TypeOK, OrderInv, [Next]_vars
  PROVE  [Consumption!Next]_Consumption!vars
<1>1. /\ Consumption!vars = <<last, key, cutover, SettledSet, handled>>
      /\ Consumption!vars' = <<last', key', cutover', SettledSet', handled'>>
  BY DEF Consumption!vars, SettledSet
<1>2. ASSUME UNCHANGED <<last, cutover, watermark, completed>>
      PROVE  SettledSet' = SettledSet
  BY <1>2 DEF SettledSet, Committed, Boundary
<1>3. ASSUME UNCHANGED <<durable, handled>> PROVE UNCHANGED Consumption!vars
  BY <1>1, <1>2, <1>3 DEF durable
<1>4. ASSUME NEW m \in 1..last, Consumption!Turn(m), handled' = handled \cup {m},
             SettledSet' \in {SettledSet, SettledSet \cup {m}},
             UNCHANGED <<last, key, cutover>>
      PROVE  Consumption!Next
  BY <1>4 DEF Consumption!Next, Consumption!Handle, SettledSet
<1>5. ASSUME NEW k \in Keys \cup {NoKey}, Arrive(k) PROVE Consumption!Next
  <2>1. /\ last < NMsgs /\ last' = last + 1 /\ key' = [key EXCEPT ![last + 1] = k]
        /\ UNCHANGED <<cutover, watermark, completed, handled>>
    BY <1>5 DEF Arrive, history
  <2>2. ~Committed(last)' /\ last \in Nat
    BY <2>1, BoundaryType, ConsumerAssumption DEF Committed, Boundary, TypeOK
  <2>3. \A n : n \in 1..last' <=> n \in 1..last \/ n = last + 1
    BY <2>1, <2>2
  <2>4. \A n : Committed(n)' <=> Committed(n)
    BY <2>1 DEF Committed, Boundary
  <2>5. SettledSet' = SettledSet
    BY <2>1, <2>2, <2>3, <2>4 DEF SettledSet
  <2> QED
    BY <2>1, <2>5 DEF Consumption!Next, Consumption!Arrive, SettledSet
<1>6. ASSUME NEW m \in Msgs, NEW k \in Keys \cup {NoKey}, Rekey(m, k) PROVE Consumption!Next
  <2>1. SettledSet' = SettledSet
    BY <1>2, <1>6 DEF Rekey
  <2> QED
    BY <1>6, <2>1 DEF Rekey, history, Msgs, Consumption!Next, Consumption!Rekey, SettledSet
<1>7. ASSUME NEW m \in Msgs, RowUnroutable(m) PROVE Consumption!Next
  <2>1. m \in 1..last
    BY <1>7 DEF RowUnroutable, NextOf, TypeOK
  <2>2. SettledSet' = SettledSet \cup {m}
    BY <1>7, <2>1, CompleteSettles DEF RowUnroutable
  <2>3. Consumption!Turn(m)
    BY <1>7 DEF RowUnroutable, Consumption!Turn
  <2> QED
    BY <1>4, <1>7, <2>1, <2>2, <2>3 DEF RowUnroutable
<1>8. ASSUME NEW k \in Keys, Finish(k) \/ FinishFails(k) PROVE Consumption!Next
  <2>1. run[k] \in 1..last /\ Consumption!Turn(run[k])
    BY <1>8, TaskHasTurn DEF Finish, FinishFails, Running
  <2>2. handled' = handled \cup {run[k]} /\ UNCHANGED <<last, key, cutover>>
    BY <1>8 DEF Finish, FinishFails, durable
  <2>3. SettledSet' \in {SettledSet, SettledSet \cup {run[k]}}
    <3>1. CASE Finish(k)
      BY <2>1, <2>2, <3>1, CompleteSettles DEF Finish
    <3>2. CASE FinishFails(k)
      BY <1>2, <3>2 DEF FinishFails, durable
    <3> QED
      BY <1>8, <3>1, <3>2
  <2> QED
    BY <1>4, <2>1, <2>2, <2>3
<1>9. CASE Cutover
  <2>1. /\ cutover' = last /\ last' = last /\ key' = key /\ handled' = handled
        /\ watermark' = watermark /\ last \in Nat /\ watermark <= last
    BY <1>9, ConsumerAssumption DEF Cutover, history, TypeOK
  <2>2. Boundary' = last
    BY <2>1, ConsumerAssumption DEF Boundary, Larger, TypeOK
  <2>3. SettledSet' = SettledSet \cup (1..last)
    BY <2>1, <2>2 DEF SettledSet, Committed
  <2> QED
    BY <2>1, <2>3 DEF Consumption!Next, Consumption!Retire, SettledSet
<1>10. CASE \/ \E m \in Msgs : RowDone(m) \/ RowQueued(m)
            \/ \E k \in Keys : Fail(k) \/ Release(k)
            \/ Poll \/ PollFails \/ Retry \/ Tick \/ Crash \/ Restart
            \/ UNCHANGED vars
  BY <1>3, <1>10 DEF RowDone, RowQueued, Fail, Release, Poll, PollFails, Retry, Tick,
     Crash, Restart, history, durable, vars
<1> QED
  BY <1>5, <1>6, <1>7, <1>8, <1>9, <1>10 DEF Next, RowStep, TaskEnds

(* The consumer keeps its promise to the handler, for any number of messages,
   keys, faults and crashes: a message is settled by its handler, in its turn,
   or by the cutover, and for good.  *)
THEOREM Refinement == Spec => ImplementsConsumption
<1>1. Init => OrderInv
  BY DEF Init, OrderInv, QueueOrder, QueueKey, RowOrder, RunOrder
<1>2. Init => Consumption!Init
  <2> SUFFICES ASSUME Init PROVE SettledSet = {}
    BY DEF Init, Msgs, Consumption!Init, SettledSet
  <2> QED
    BY DEF Init, SettledSet
<1>3. TypeOK /\ NothingSkipped /\ OrderInv /\ [Next]_vars => [Consumption!Next]_Consumption!vars
  BY StepConsumption
<1> QED
  BY <1>1, <1>2, <1>3, TypeCorrect, NothingLost, StepOrder, PTL
  DEF Spec, ImplementsConsumption, Consumption!Spec
=============================================================================
