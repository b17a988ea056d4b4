--------------------------- MODULE BtSearch_proofs ---------------------------
(* Proofs about BtSearch, for any requests, any length of the queue and any *)
(* number of aborted requests, and about MessageRecall, which deletes the   *)
(* cards of adult results again, for any cards and any durations.           *)
EXTENDS BtSearch, MessageRecall, FiniteSetTheorems, TLAPS

Places == Queued \cup Searching \cup Telling \cup {"ended", "done"}
Outcomes == {"none", "cancelled", "busy", "found", "nothing", "timeout", "failed"}

(* The slot and the queue: at most one request holds the slot, exactly if it  *)
(* is taken; the queue lists the waiting requests, each once.                 *)
SlotOK ==
  /\ \A r, q \in Requests : pc[r] \in Holding /\ pc[q] \in Holding => r = q
  /\ active <=> \E r \in Requests : pc[r] \in Holding
  /\ waiters # <<>> => active

QueueOK ==
  /\ waiters \in Seq(Requests) /\ Len(waiters) <= MaxWaiting
  /\ \A r \in Requests : pc[r] = "waiting" <=> \E i \in 1..Len(waiters) : waiters[i] = r
  /\ \A i, j \in 1..Len(waiters) : waiters[i] = waiters[j] => i = j

PcOK == /\ pc \in [Requests -> Places]
        /\ outcome \in [Requests -> Outcomes]
        /\ active \in BOOLEAN

(* The part of the type that the queue does not touch. *)
RestOK ==
  /\ aborted \in [Requests -> BOOLEAN] /\ cut \in [Requests -> BOOLEAN]
  /\ reason \in [Requests -> {"none", "complete", "timeout"}]
  /\ progress \in [Requests -> {"off", "armed", "sending"}]
  /\ answers \in [Requests -> Nat] /\ errors \in [Requests -> 0..MaxErrors]
  /\ closed \in BOOLEAN
  /\ awaited = NotStopping \/ awaited \subseteq Requests

Queue == PcOK /\ SlotOK /\ QueueOK

LEMMA TypeParts == Queue /\ RestOK => TypeOK
BY DEF Queue, PcOK, QueueOK, RestOK, TypeOK, Places, Outcomes

-----------------------------------------------------------------------------
(* Removing a request from the queue *)

LEMMA Shorter ==
  ASSUME NEW S, NEW s \in Seq(S), NEW i \in 1..Len(s)
  PROVE  LET t == [k \in 1..Len(s) - 1 |-> IF k < i THEN s[k] ELSE s[k + 1]]
         IN  t \in Seq(S) /\ Len(t) = Len(s) - 1
<1> DEFINE n == Len(s) - 1
           t == [k \in 1..n |-> IF k < i THEN s[k] ELSE s[k + 1]]
<1>1. n \in Nat
  OBVIOUS
<1>2. \A k \in 1..n : t[k] \in S
  OBVIOUS
<1>3. t \in [1..n -> S]
  BY <1>2
<1>4. t \in Seq(S)
  BY <1>1, <1>3
<1>5. Len(t) = n
  BY <1>1, <1>3, <1>4
<1>. QED BY <1>4, <1>5

LEMMA WithoutOne ==
  ASSUME NEW r \in Requests, QueueOK, pc[r] = "waiting"
  PROVE  LET t == Without(waiters, r)
         IN  /\ t \in Seq(Requests) /\ Len(t) <= MaxWaiting
             /\ \A q \in Requests :
                  (\E k \in 1..Len(t) : t[k] = q) <=> pc[q] = "waiting" /\ q # r
             /\ \A j, k \in 1..Len(t) : t[j] = t[k] => j = k
<1> DEFINE t == Without(waiters, r)
           i == CHOOSE i \in 1..Len(waiters) : waiters[i] = r
           n == Len(waiters) - 1
<1>1. i \in 1..Len(waiters) /\ waiters[i] = r
  BY DEF QueueOK
<1>2. t = [k \in 1..n |-> IF k < i THEN waiters[k] ELSE waiters[k + 1]]
  BY DEF Without
<1>. HIDE DEF i
<1>3. t \in Seq(Requests) /\ Len(t) = n /\ n \in Nat
  BY <1>1, <1>2, Shorter DEF QueueOK
<1>4. \A k \in 1..n : t[k] = IF k < i THEN waiters[k] ELSE waiters[k + 1]
  BY <1>2
<1>. HIDE DEF t
<1>5. ASSUME NEW q \in Requests
      PROVE  (\E k \in 1..Len(t) : t[k] = q) <=> pc[q] = "waiting" /\ q # r
  <2>1. ASSUME NEW k \in 1..n, t[k] = q PROVE pc[q] = "waiting" /\ q # r
    BY <2>1, <1>1, <1>3, <1>4 DEF QueueOK
  <2>2. ASSUME pc[q] = "waiting", q # r PROVE \E k \in 1..n : t[k] = q
    <3>1. PICK j \in 1..Len(waiters) : waiters[j] = q
      BY <2>2 DEF QueueOK
    <3>2. CASE j < i
      BY <3>1, <3>2, <1>1, <1>3, <1>4
    <3>3. CASE j > i
      <4>1. j - 1 \in 1..n /\ ~(j - 1 < i) /\ (j - 1) + 1 = j
        BY <3>3, <1>1, <1>3
      <4>. QED BY <4>1, <3>1, <1>4
    <3>. QED BY <3>1, <3>2, <3>3, <2>2, <1>1
  <2>. QED BY <2>1, <2>2, <1>3
<1>6. ASSUME NEW j \in 1..n, NEW k \in 1..n, t[j] = t[k] PROVE j = k
  BY <1>6, <1>1, <1>3, <1>4 DEF QueueOK
<1>7. Len(t) <= MaxWaiting
  BY <1>3, BtAssumption DEF QueueOK
<1>. QED BY <1>3, <1>5, <1>6, <1>7 DEF t

-----------------------------------------------------------------------------
(* What the steps do to the queue and its slot *)

(* A step that leaves the queue alone and moves no request in or out. *)
LEMMA Stays ==
  ASSUME Queue, UNCHANGED service, pc' \in [Requests -> Places],
         outcome' \in [Requests -> Outcomes],
         \A r \in Requests : (pc'[r] \in Holding) = (pc[r] \in Holding),
         \A r \in Requests : (pc'[r] = "waiting") = (pc[r] = "waiting")
  PROVE  Queue'
BY DEF Queue, PcOK, SlotOK, QueueOK, service

LEMMA ReleaseStep ==
  ASSUME NEW r \in Requests, NEW o \in Outcomes, Queue, pc[r] \in Holding, Release(r, o)
  PROVE  Queue'
<1>. USE DEF Queue
<1>1. CASE waiters = <<>>
  <2>1. /\ pc' = [pc EXCEPT ![r] = "ended"] /\ waiters' = waiters
        /\ active' = FALSE /\ outcome' = [outcome EXCEPT ![r] = o]
    BY <1>1 DEF Release, Goto
  <2>2. PcOK'
    BY <2>1 DEF PcOK, Places
  <2>3. SlotOK'
    BY <1>1, <2>1 DEF SlotOK, Holding, Searching, PcOK
  <2>4. QueueOK'
    BY <1>1, <2>1 DEF QueueOK, PcOK, Holding, Searching
  <2>. QED BY <2>2, <2>3, <2>4
<1>2. CASE waiters # <<>>
  <2> DEFINE h == Head(waiters)
  <2>1. /\ pc' = [pc EXCEPT ![r] = "ended", ![h] = "granted"] /\ waiters' = Tail(waiters)
        /\ active' = active /\ outcome' = [outcome EXCEPT ![r] = o]
    BY <1>2 DEF Release
  <2>2. /\ waiters \in Seq(Requests) /\ Len(waiters) \in Nat /\ Len(waiters) >= 1
        /\ h = waiters[1] /\ Len(waiters') = Len(waiters) - 1 /\ waiters' \in Seq(Requests)
        /\ \A i \in 1..Len(waiters') : waiters'[i] = waiters[i + 1]
    BY <1>2, <2>1 DEF QueueOK
  <2>3. h \in Requests /\ pc[h] = "waiting"
    BY <2>2 DEF QueueOK
  <2>4. h # r
    BY <2>3 DEF Holding, Searching
  <2>. HIDE DEF h
  <2>5. /\ pc'[r] = "ended" /\ pc'[h] = "granted"
        /\ \A q \in Requests : q # r /\ q # h => pc'[q] = pc[q]
    BY <2>1, <2>3, <2>4 DEF PcOK
  <2>6. PcOK'
    BY <2>1 DEF PcOK, Places, Queued
  <2>7. SlotOK'
    BY <2>1, <2>5, <2>3, <1>2 DEF SlotOK, Holding, Searching
  <2>8. QueueOK'
    <3>1. Len(waiters') <= MaxWaiting
      BY <2>2, BtAssumption DEF QueueOK
    <3>2. \A i, j \in 1..Len(waiters') : waiters'[i] = waiters'[j] => i = j
      <4> SUFFICES ASSUME NEW i \in 1..Len(waiters'), NEW j \in 1..Len(waiters'),
                          waiters'[i] = waiters'[j]
                   PROVE  i = j
        OBVIOUS
      <4>1. i + 1 \in 1..Len(waiters) /\ j + 1 \in 1..Len(waiters)
        BY <2>2
      <4>. QED BY <4>1, <2>2 DEF QueueOK
    <3>3. ASSUME NEW q \in Requests
          PROVE  pc'[q] = "waiting" <=> \E i \in 1..Len(waiters') : waiters'[i] = q
      <4>1. ASSUME pc'[q] = "waiting" PROVE \E i \in 1..Len(waiters') : waiters'[i] = q
        <5>1. q # h /\ pc[q] = "waiting"
          BY <4>1, <2>5
        <5>2. PICK j \in 1..Len(waiters) : waiters[j] = q
          BY <5>1 DEF QueueOK
        <5>3. j - 1 \in 1..Len(waiters') /\ (j - 1) + 1 = j
          BY <5>1, <5>2, <2>2
        <5>. QED BY <5>2, <5>3, <2>2
      <4>2. ASSUME NEW i \in 1..Len(waiters'), waiters'[i] = q PROVE pc'[q] = "waiting"
        <5>1. i + 1 \in 1..Len(waiters) /\ waiters[i + 1] = q
          BY <4>2, <2>2
        <5>2. pc[q] = "waiting" /\ q # h
          BY <5>1, <2>2 DEF QueueOK
        <5>. QED BY <5>2, <2>5 DEF Holding, Searching
      <4>. QED BY <4>1, <4>2
    <3>. QED BY <2>2, <3>1, <3>2, <3>3 DEF QueueOK
  <2>. QED BY <2>6, <2>7, <2>8
<1>. QED BY <1>1, <1>2

LEMMA AcquireQueue == ASSUME NEW r \in Requests, Queue, Acquire(r) PROVE Queue'
<1>. USE DEF Queue
<1>1. CASE Ends(r, "cancelled") /\ UNCHANGED service
  BY <1>1, Stays DEF Acquire, Ends, Goto, PcOK, Places, Outcomes, Queued, Holding, Searching
<1>2. CASE Ends(r, "busy") /\ UNCHANGED service
  BY <1>2, Stays DEF Acquire, Ends, Goto, PcOK, Places, Outcomes, Queued, Holding, Searching
<1>3. CASE /\ ~active /\ active' = TRUE /\ pc' = [pc EXCEPT ![r] = "granted"]
           /\ UNCHANGED <<waiters, outcome>>
  <2>. USE <1>3 DEF Acquire
  <2>1. PcOK'
    BY DEF PcOK, Places, Queued
  <2>2. SlotOK'
    BY DEF PcOK, SlotOK, Holding, Searching
  <2>3. QueueOK'
    BY DEF PcOK, QueueOK
  <2>. QED BY <2>1, <2>2, <2>3
<1>4. CASE /\ active /\ ~QueueFull /\ waiters' = Append(waiters, r)
           /\ pc' = [pc EXCEPT ![r] = "waiting"] /\ UNCHANGED <<active, outcome>>
  <2>1. PcOK'
    BY <1>4 DEF PcOK, Places, Queued
  <2>2. SlotOK'
    BY <1>4 DEF Acquire, PcOK, SlotOK, Holding, Searching
  <2>3. QueueOK'
    <3>1. /\ waiters \in Seq(Requests) /\ Len(waiters) \in Nat
          /\ waiters' \in Seq(Requests) /\ Len(waiters') = Len(waiters) + 1
          /\ waiters'[Len(waiters')] = r
          /\ \A i \in 1..Len(waiters) : waiters'[i] = waiters[i]
      BY <1>4 DEF QueueOK
    <3>2. Len(waiters') <= MaxWaiting
      BY <1>4, <3>1, BtAssumption DEF QueueFull
    <3>3. ASSUME NEW i \in 1..Len(waiters) PROVE waiters[i] \in Requests /\ waiters[i] # r
      BY <3>1 DEF QueueOK, Acquire
    <3>4. \A i, j \in 1..Len(waiters') : waiters'[i] = waiters'[j] => i = j
      BY <3>1, <3>3 DEF QueueOK
    <3>5. ASSUME NEW q \in Requests
          PROVE  pc'[q] = "waiting" <=> \E i \in 1..Len(waiters') : waiters'[i] = q
      <4>1. CASE q = r
        BY <4>1, <1>4, <3>1 DEF PcOK
      <4>2. CASE q # r
        BY <4>2, <1>4, <3>1 DEF PcOK, QueueOK
      <4>. QED BY <4>1, <4>2
    <3>. QED BY <3>1, <3>2, <3>4, <3>5 DEF QueueOK
  <2>. QED BY <2>1, <2>2, <2>3
<1>. QED BY <1>1, <1>2, <1>3, <1>4 DEF Acquire, Goto

(* An abort takes a waiter out of the queue; stop() empties it. *)
LEMMA AbortQueue == ASSUME NEW r \in Requests, Queue, Abort(r) PROVE Queue'
<1>. USE DEF Queue
<1>1. /\ \A q \in Requests : pc'[q] = CASE q = r /\ pc[q] = "engine" -> "killed"
                                       [] q = r /\ pc[q] = "waiting" -> "ended"
                                       [] OTHER -> pc[q]
      /\ pc' \in [Requests -> Places] /\ outcome' \in [Requests -> Outcomes]
      /\ active' = active
  BY DEF Abort, CutOff, PcOK, Places, Searching, Outcomes
<1>2. CASE pc[r] # "waiting"
  BY <1>1, <1>2, Stays DEF Abort, service, Holding, Searching
<1>3. CASE pc[r] = "waiting"
  <2>1. PcOK'
    BY <1>1 DEF PcOK
  <2>2. pc'[r] = "ended" /\ \A q \in Requests \ {r} : pc'[q] = pc[q]
    BY <1>1, <1>3
  <2>3. QueueOK'
    <3>1. waiters' = Without(waiters, r)
      BY <1>3 DEF Abort
    <3>2. /\ waiters' \in Seq(Requests) /\ Len(waiters') <= MaxWaiting
          /\ \A j, k \in 1..Len(waiters') : waiters'[j] = waiters'[k] => j = k
          /\ \A q \in Requests : (\E k \in 1..Len(waiters') : waiters'[k] = q) <=>
                                pc[q] = "waiting" /\ q # r
      <4>1. QueueOK
        OBVIOUS
      <4> DEFINE t == Without(waiters, r)
      <4>2. /\ t \in Seq(Requests) /\ Len(t) <= MaxWaiting
            /\ \A q \in Requests : (\E k \in 1..Len(t) : t[k] = q) <=> pc[q] = "waiting" /\ q # r
            /\ \A j, k \in 1..Len(t) : t[j] = t[k] => j = k
        BY <4>1, <1>3, WithoutOne
      <4>. QED BY <3>1, <4>2
    <3>3. \A q \in Requests : pc'[q] = "waiting" <=> pc[q] = "waiting" /\ q # r
      BY <2>2
    <3>. QED BY <3>2, <3>3 DEF QueueOK
  <2>4. SlotOK'
    <3>1. waiters # <<>>
      BY <1>3 DEF QueueOK
    <3>. QED BY <3>1, <2>2, <1>1, <1>3 DEF SlotOK, Holding, Searching
  <2>. QED BY <2>1, <2>3, <2>4
<1>. QED BY <1>2, <1>3

LEMMA StopQueue == ASSUME Queue, Stop PROVE Queue'
<1>. USE DEF Queue
<1>1. /\ \A q \in Requests : pc'[q] = CASE pc[q] = "engine" -> "killed"
                                       [] pc[q] = "waiting" -> "ended"
                                       [] OTHER -> pc[q]
      /\ pc' \in [Requests -> Places] /\ outcome' \in [Requests -> Outcomes]
      /\ active' = active /\ waiters' = <<>>
  BY DEF Stop, CutOff, PcOK, Places, Searching, Outcomes
<1>2. PcOK'
  BY <1>1 DEF PcOK
<1>3. SlotOK'
  BY <1>1 DEF SlotOK, Holding, Searching
<1>4. QueueOK'
  BY <1>1, BtAssumption DEF QueueOK
<1>. QED BY <1>2, <1>3, <1>4

LEMMA StepQueue == ASSUME NEW r \in Requests, Queue, RestOK, Step(r) PROVE Queue'
<1>. USE DEF Queue
<1>1. CASE Acquire(r)
  BY <1>1, AcquireQueue
<1>2. CASE Start(r)
  <2>1. CASE aborted[r] \/ closed
    BY <1>2, <2>1, ReleaseStep DEF Start, Holding, Outcomes
  <2>2. CASE ~(aborted[r] \/ closed)
    BY <1>2, <2>2, Stays DEF Start, Goto, service, PcOK, Places, Queued, Holding, Searching
  <2>. QED BY <2>1, <2>2
<1>3. CASE Prepare(r)
  BY <1>3, Stays DEF Prepare, Goto, service, PcOK, Places, Holding, Searching
<1>4. CASE Spawn(r)
  <2>1. CASE CutMeanwhile(r)
    BY <1>4, <2>1, ReleaseStep DEF Spawn, Holding, Searching, Outcomes
  <2>2. CASE ~CutMeanwhile(r)
    BY <1>4, <2>2, Stays DEF Spawn, Goto, service, PcOK, Places, Holding, Searching
  <2>. QED BY <2>1, <2>2
<1>5. CASE Terminate(r)
  BY <1>5, Stays DEF Terminate, Goto, service, PcOK, Places, Holding, Searching
<1>6. CASE Close(r)
  <2>1. PICK o \in Verdict(r) : Release(r, o)
    BY <1>6 DEF Close
  <2>2. o \in Outcomes
    BY <2>1 DEF Verdict, Outcomes
  <2>. QED BY <2>1, <2>2, <1>6, ReleaseStep DEF Close, Engine, Holding, Searching
<1>7. CASE ProgressSent(r)
  BY <1>7, Stays DEF ProgressSent, service, PcOK
<1>8. CASE FinishProgress(r)
  BY <1>8, Stays DEF FinishProgress, Leave, Goto, service, PcOK, Places, Telling, Outcomes,
                     Holding, Searching
<1>9. CASE Answer(r)
  BY <1>9, Stays DEF Answer, Leave, Goto, service, PcOK, Places, Outcomes, Holding, Searching
<1>10. CASE AnswerFails(r)
  BY <1>10, Stays DEF AnswerFails, Leave, Goto, service, PcOK, Places, Telling, Outcomes,
                      Holding, Searching
<1>11. CASE Excuse(r)
  BY <1>11, Stays DEF Excuse, Leave, Goto, service, PcOK, Places, Outcomes, Holding, Searching
<1>12. CASE ExcuseFails(r)
  BY <1>12, Stays DEF ExcuseFails, Goto, service, PcOK, Places, Queued, Outcomes, Holding,
                      Searching
<1>. QED BY <1>1, <1>2, <1>3, <1>4, <1>5, <1>6, <1>7, <1>8, <1>9, <1>10, <1>11, <1>12 DEF Step

LEMMA NextQueue == Queue /\ RestOK /\ [Next]_vars => Queue'
<1> SUFFICES ASSUME Queue, RestOK, [Next]_vars PROVE Queue'
  OBVIOUS
<1>1. CASE UNCHANGED vars
  BY <1>1, Stays DEF vars, service, Queue, PcOK
<1>2. CASE Stop
  BY <1>2, StopQueue
<1>3. ASSUME NEW r \in Requests, Progress(r) PROVE Queue'
  BY <1>3, Stays DEF Progress, service, Queue, PcOK
<1>. QED BY <1>1, <1>2, <1>3, StepQueue, AbortQueue DEF Next

-----------------------------------------------------------------------------
(* Type correctness *)

LEMMA RestStep == RestOK /\ Queue /\ [Next]_vars => RestOK'
<1> SUFFICES ASSUME RestOK, Queue, [Next]_vars PROVE RestOK'
  OBVIOUS
<1>1. CASE UNCHANGED vars
  BY <1>1 DEF RestOK, vars
<1>2. CASE Stop
  BY <1>2 DEF Stop, CutOff, told, RestOK, Running, Searching
<1>3. ASSUME NEW r \in Requests, Step(r) \/ Progress(r) \/ Abort(r) PROVE RestOK'
  <2>1. CASE Acquire(r)
    BY <2>1 DEF Acquire, search, told, RestOK
  <2>2. CASE Start(r)
    BY <2>2 DEF Start, search, told, RestOK
  <2>3. CASE Prepare(r)
    BY <2>3 DEF Prepare, search, told, RestOK
  <2>4. CASE Spawn(r)
    BY <2>4 DEF Spawn, Settle, told, RestOK
  <2>5. CASE Terminate(r)
    BY <2>5 DEF Terminate, told, RestOK
  <2>6. CASE Close(r)
    BY <2>6 DEF Close, Settle, told, RestOK
  <2>7. CASE ProgressSent(r)
    BY <2>7 DEF ProgressSent, search, told, RestOK
  <2>8. CASE FinishProgress(r)
    BY <2>8 DEF FinishProgress, search, told, RestOK
  <2>9. CASE Answer(r) \/ Excuse(r)
    BY <2>9 DEF Answer, Excuse, Tell, search, RestOK
  <2>10. CASE AnswerFails(r) \/ ExcuseFails(r)
    <3>1. SendThrows(r) /\ UNCHANGED <<cut, reason, progress, closed, awaited>>
      BY <2>10 DEF AnswerFails, ExcuseFails, search
    <3>2. errors[r] + 1 \in 0..MaxErrors
      BY <3>1, BtAssumption DEF SendThrows, RestOK
    <3>3. /\ errors' = [errors EXCEPT ![r] = errors[r] + 1]
          /\ answers' = [answers EXCEPT ![r] = answers[r] + 1]
      BY <3>1 DEF SendThrows, Tell
    <3>4. aborted' \in [Requests -> BOOLEAN]
      BY <2>10 DEF AnswerFails, ExcuseFails, RestOK
    <3>5. answers' \in [Requests -> Nat] /\ errors' \in [Requests -> 0..MaxErrors]
      BY <3>2, <3>3 DEF RestOK
    <3>. QED BY <3>1, <3>4, <3>5 DEF RestOK
  <2>11. CASE Progress(r)
    BY <2>11 DEF Progress, search, told, RestOK
  <2>12. CASE Abort(r)
    BY <2>12 DEF Abort, CutOff, Searching, told, RestOK
  <2>. QED BY <1>3, <2>1, <2>2, <2>3, <2>4, <2>5, <2>6, <2>7, <2>8, <2>9, <2>10, <2>11, <2>12
           DEF Step
<1>. QED BY <1>1, <1>2, <1>3 DEF Next

LEMMA InitOK == Init => Queue /\ RestOK
<1> SUFFICES ASSUME Init PROVE Queue /\ RestOK
  OBVIOUS
<1>1. RestOK
  <2>1. 0 \in 0..MaxErrors
    BY BtAssumption
  <2>2. errors \in [Requests -> 0..MaxErrors]
    BY <2>1 DEF Init
  <2>. QED BY <2>2 DEF Init, RestOK
<1>2. PcOK /\ SlotOK
  BY DEF Init, PcOK, SlotOK, Places, Queued, Outcomes, Holding, Searching
<1>3. QueueOK
  BY BtAssumption DEF Init, QueueOK
<1>. QED BY <1>1, <1>2, <1>3 DEF Queue

LEMMA Always == Spec => [](Queue /\ RestOK)
<1>. QED BY InitOK, NextQueue, RestStep, PTL DEF Spec

(* Every variable keeps its type, and the queue its length. *)
THEOREM TypeCorrect == Spec => []TypeOK
<1>. QED BY Always, TypeParts, PTL

(* One request at most holds the slot, the slot is taken exactly if one does, *)
(* and the queue holds the waiting requests, for any number of them.          *)
THEOREM OneAtATime == Spec => []OneSearch
<1>1. Queue => OneSearch
  <2> SUFFICES ASSUME Queue PROVE OneSearch
    OBVIOUS
  <2>1. Cardinality(Holders) = IF active THEN 1 ELSE 0
    <3>1. CASE active
      <4>1. PICK r \in Requests : pc[r] \in Holding
        BY <3>1 DEF Queue, SlotOK
      <4>2. Holders = {r}
        BY <4>1 DEF Holders, Queue, SlotOK
      <4>. QED BY <3>1, <4>2, FS_Singleton
    <3>2. CASE ~active
      <4>1. Holders = {}
        BY <3>2 DEF Holders, Queue, SlotOK
      <4>. QED BY <3>2, <4>1, FS_EmptySet
    <3>. QED BY <3>1, <3>2
  <2>2. ASSUME NEW r \in Requests PROVE pc[r] = "waiting" <=> r \in ToSet(waiters)
    BY DEF Queue, QueueOK, ToSet
  <2>. QED BY <2>1, <2>2 DEF OneSearch, Queue, SlotOK
<1>. QED BY <1>1, Always, PTL

-----------------------------------------------------------------------------
(* The end of the service *)

(* Before stop() nobody is waited for; after it every search that has no     *)
(* engine yet will see its aborted signal, and every engine is waited for.   *)
StopOK ==
  /\ ~closed => awaited = NotStopping
  /\ closed => \A r \in Requests : /\ pc[r] \in {"starting", "preparing"} => cut[r]
                                   /\ pc[r] \in Engine => r \in awaited

LEMMA ReleasePc ==
  ASSUME NEW r \in Requests, NEW o \in Outcomes, Queue, pc[r] \in Holding, Release(r, o)
  PROVE  \A q \in Requests : pc'[q] = IF q = r THEN "ended" ELSE
                                      IF waiters # <<>> /\ q = Head(waiters) THEN "granted"
                                      ELSE pc[q]
<1>1. waiters # <<>> => Head(waiters) \in Requests /\ pc[Head(waiters)] = "waiting"
  BY DEF Queue, QueueOK
<1>2. waiters # <<>> => Head(waiters) # r
  BY <1>1 DEF Holding, Searching
<1>. QED BY <1>1, <1>2 DEF Release, Goto, Queue, PcOK

LEMMA StopStep == Queue /\ RestOK /\ StopOK /\ [Next]_vars => StopOK'
<1> SUFFICES ASSUME Queue, RestOK, StopOK, [Next]_vars PROVE StopOK'
  OBVIOUS
<1>. USE DEF StopOK, Engine
<1>1. CASE UNCHANGED vars
  BY <1>1 DEF vars
<1>2. CASE Stop
  BY <1>2 DEF Stop, CutOff, Running, Searching, RestOK, Queue, PcOK
<1>3. ASSUME NEW r \in Requests, Step(r) \/ Progress(r) \/ Abort(r) PROVE StopOK'
  <2>1. CASE Acquire(r)
    BY <2>1 DEF Acquire, Ends, Goto, search, Queue, PcOK
  <2>2. CASE Start(r)
    <3>1. CASE aborted[r] \/ closed
      BY <2>2, <3>1, ReleasePc DEF Start, search, Holding, Outcomes
    <3>2. CASE ~(aborted[r] \/ closed)
      BY <2>2, <3>2 DEF Start
    <3>. QED BY <3>1, <3>2
  <2>3. CASE Prepare(r)
    BY <2>3 DEF Prepare, Goto, search, Queue, PcOK
  <2>4. CASE Spawn(r)
    <3>1. CASE CutMeanwhile(r)
      <4>1. /\ pc[r] \in Holding /\ Release(r, "cancelled") /\ Settle(r)
            /\ closed' = closed /\ cut' = [cut EXCEPT ![r] = FALSE]
        BY <2>4, <3>1 DEF Spawn, Holding, Searching
      <4>2. \A q \in Requests : pc'[q] = IF q = r THEN "ended" ELSE
                                          IF waiters # <<>> /\ q = Head(waiters) THEN "granted"
                                          ELSE pc[q]
        BY <4>1, ReleasePc DEF Outcomes
      <4>. QED BY <4>1, <4>2 DEF Settle, RestOK
    <3>2. CASE ~CutMeanwhile(r)
      <4>1. ~closed
        BY <2>4, <3>2 DEF Spawn, CutMeanwhile
      <4>. QED BY <2>4, <3>2, <4>1 DEF Spawn
    <3>. QED BY <3>1, <3>2
  <2>5. CASE Terminate(r)
    BY <2>5 DEF Terminate, Goto, Queue, PcOK
  <2>6. CASE Close(r)
    <3>1. PICK o \in Verdict(r) : Release(r, o)
      BY <2>6 DEF Close
    <3>2. o \in Outcomes
      BY <3>1 DEF Verdict, Outcomes
    <3>. QED BY <3>1, <3>2, <2>6, ReleasePc DEF Close, Settle, Holding, Searching, RestOK
  <2>7. CASE ProgressSent(r)
    BY <2>7 DEF ProgressSent, search
  <2>8. CASE FinishProgress(r)
    BY <2>8 DEF FinishProgress, Leave, Goto, search, Queue, PcOK
  <2>9. CASE Answer(r) \/ Excuse(r)
    BY <2>9 DEF Answer, Excuse, Leave, Goto, search, Queue, PcOK
  <2>10. CASE AnswerFails(r) \/ ExcuseFails(r)
    BY <2>10 DEF AnswerFails, ExcuseFails, Leave, Goto, search, Queue, PcOK
  <2>11. CASE Progress(r)
    BY <2>11 DEF Progress, search
  <2>12. CASE Abort(r)
    BY <2>12 DEF Abort, CutOff, Searching, Queue, PcOK, RestOK
  <2>. QED BY <1>3, <2>1, <2>2, <2>3, <2>4, <2>5, <2>6, <2>7, <2>8, <2>9, <2>10, <2>11, <2>12
           DEF Step
<1>. QED BY <1>1, <1>2, <1>3 DEF Next

(* When stop() has returned no engine runs, for any number of searches that  *)
(* were on their way when it was called.                                     *)
THEOREM Quiet == Spec => []QuietAfterStop
<1>1. Init => StopOK
  BY DEF Init, StopOK
<1>2. StopOK => QuietAfterStop
  BY DEF StopOK, QuietAfterStop, Stopped, NotStopping, Engine
<1>. QED BY <1>1, <1>2, StopStep, Always, PTL DEF Spec

-----------------------------------------------------------------------------
(* What the group is told *)

(* Until its handler has returned a request has no answer that was not        *)
(* followed by an error, and its progress message is not under way when the   *)
(* handler tells something.                                                   *)
ToldOK ==
  \A r \in Requests :
    /\ answers[r] <= 1 + errors[r]
    /\ pc[r] # "done" => answers[r] <= errors[r]
    /\ progress[r] # "off" => pc[r] \notin Queued \cup Telling \cup {"done"}

(* A step that tells nothing and brings no request back to the queue or to   *)
(* its answer.                                                                *)
LEMMA Silent ==
  ASSUME Queue, RestOK, ToldOK, UNCHANGED <<answers, errors, progress>>,
         \A r \in Requests : /\ pc'[r] \in Telling \cup {"done"} => pc[r] = pc'[r]
                             /\ pc'[r] \in Queued => pc[r] \in Queued
                             /\ pc[r] = "done" => pc'[r] = "done"
  PROVE  ToldOK'
BY DEF ToldOK

LEMMA ReleaseSilent ==
  ASSUME NEW r \in Requests, NEW o \in Outcomes, Queue, RestOK, ToldOK,
         pc[r] \in Holding, Release(r, o), UNCHANGED <<answers, errors, progress>>
  PROVE  ToldOK'
<1>1. waiters # <<>> => Head(waiters) \in Requests /\ pc[Head(waiters)] = "waiting"
  BY DEF Queue, QueueOK
<1>. QED BY <1>1, ReleasePc, Silent DEF Queued, Holding, Searching, Telling

LEMMA ToldStep == Queue /\ RestOK /\ ToldOK /\ [Next]_vars => ToldOK'
<1> SUFFICES ASSUME Queue, RestOK, ToldOK, [Next]_vars PROVE ToldOK'
  OBVIOUS
<1>. USE DEF told, Telling
<1>1. CASE UNCHANGED vars
  BY <1>1, Silent DEF vars
<1>2. CASE Stop
  BY <1>2, Silent DEF Stop, CutOff, Queued
<1>3. ASSUME NEW r \in Requests, Step(r) \/ Progress(r) \/ Abort(r)
      PROVE  ToldOK'
  <2>1. CASE Acquire(r)
    BY <2>1, Silent DEF Acquire, Ends, Goto, Queued, Queue, PcOK
  <2>2. CASE Start(r)
    <3>1. CASE aborted[r] \/ closed
      BY <2>2, <3>1, ReleaseSilent DEF Start, Holding, Outcomes
    <3>2. CASE ~(aborted[r] \/ closed)
      <4>1. /\ pc[r] = "granted" /\ pc' = [pc EXCEPT ![r] = "starting"]
            /\ UNCHANGED <<answers, errors>>
            /\ progress' = [progress EXCEPT ![r] = "armed"]
        BY <2>2, <3>2 DEF Start, Goto
      <4>. QED BY <4>1 DEF ToldOK, Queued, Queue, PcOK, RestOK
    <3>. QED BY <3>1, <3>2
  <2>3. CASE Prepare(r)
    BY <2>3, Silent DEF Prepare, Goto, Queued, Queue, PcOK
  <2>4. CASE Spawn(r)
    <3>1. CASE CutMeanwhile(r)
      BY <2>4, <3>1, ReleaseSilent DEF Spawn, Holding, Searching, Outcomes
    <3>2. CASE ~CutMeanwhile(r)
      BY <2>4, <3>2, Silent DEF Spawn, Goto, Queued, Queue, PcOK
    <3>. QED BY <3>1, <3>2
  <2>5. CASE Terminate(r)
    BY <2>5, Silent DEF Terminate, Goto, Queued, Queue, PcOK
  <2>6. CASE Close(r)
    <3>1. PICK o \in Verdict(r) : Release(r, o)
      BY <2>6 DEF Close
    <3>2. o \in Outcomes
      BY <3>1 DEF Verdict, Outcomes
    <3>. QED BY <3>1, <3>2, <2>6, ReleaseSilent DEF Close, Engine, Holding, Searching
  <2>7. CASE ProgressSent(r)
    BY <2>7 DEF ProgressSent, RestOK, ToldOK
  <2>8. CASE FinishProgress(r)
    BY <2>8 DEF FinishProgress, ProgressOver, Leave, Goto, Queued, Queue, PcOK, RestOK, ToldOK
  <2>9. CASE Answer(r) \/ Excuse(r)
    <3>1. /\ pc[r] \in Telling /\ pc' = [pc EXCEPT ![r] = "done"] /\ progress' = progress
          /\ answers' = [answers EXCEPT ![r] = answers[r] + 1] /\ errors' = errors
      BY <2>9 DEF Answer, Excuse, Tell, Leave, Goto
    <3>. QED BY <3>1 DEF ToldOK, Queued, Queue, PcOK, RestOK
  <2>10. CASE AnswerFails(r) \/ ExcuseFails(r)
    <3>1. /\ pc[r] \in Telling /\ progress' = progress
          /\ answers' = [answers EXCEPT ![r] = answers[r] + 1]
          /\ errors' = [errors EXCEPT ![r] = errors[r] + 1]
          /\ \E p \in {"done", "excusing", "again"} : pc' = [pc EXCEPT ![r] = p]
      BY <2>10 DEF AnswerFails, ExcuseFails, SendThrows, Tell, Leave, Goto
    <3>2. progress[r] = "off" /\ answers[r] <= errors[r]
      BY <3>1 DEF ToldOK, RestOK
    <3>3. ASSUME NEW q \in Requests, q # r
          PROVE  pc'[q] = pc[q] /\ answers'[q] = answers[q] /\ errors'[q] = errors[q]
      BY <3>1, <3>3 DEF Queue, PcOK, RestOK
    <3>4. answers'[r] = answers[r] + 1 /\ errors'[r] = errors[r] + 1
      BY <3>1 DEF RestOK
    <3>5. answers[r] \in Nat /\ errors[r] \in Nat
      BY BtAssumption DEF RestOK
    <3>. QED BY <3>1, <3>2, <3>3, <3>4, <3>5 DEF ToldOK
  <2>11. CASE Progress(r)
    BY <2>11 DEF Progress, RestOK, ToldOK
  <2>12. CASE Abort(r)
    BY <2>12, Silent DEF Abort, CutOff, Queued
  <2>. QED BY <1>3, <2>1, <2>2, <2>3, <2>4, <2>5, <2>6, <2>7, <2>8, <2>9, <2>10, <2>11, <2>12
           DEF Step
<1>. QED BY <1>1, <1>2, <1>3 DEF Next

(* While the worker lives the group gets at most one answer to a request and  *)
(* one more for each error of sending it, and no progress message after it,   *)
(* however the timers, aborts and sends of all requests interleave.           *)
THEOREM AnsweredOnce == Spec => []OneAnswer
<1>1. Init => ToldOK
  BY DEF Init, ToldOK
<1>2. ToldOK => OneAnswer
  BY DEF ToldOK, OneAnswer
<1>. QED BY <1>1, <1>2, ToldStep, Always, PTL DEF Spec
-----------------------------------------------------------------------------
(***************************************************************************)
(* MessageRecall: the cards of adult results, once they are in the group.  *)
(* The two components share no state; the second one has its own names.    *)
(***************************************************************************)

(* A card is untouched while a delete_msg for it has neither reached QQ nor is
   on its way.  Every job that may still be dispatched has an untouched card,
   and so has every job whose action found no socket.  *)
Untouched(i) == reached[i] = 0 /\ i \notin wire

Budget == \A i \in Cards : reached[i] \in Nat /\ reached[i] <= 1
                            /\ (i \in wire => reached[i] = 0)
Fresh == \A i \in Cards : status[i] \in {"none", "pending"} => Untouched(i)
UnsentFresh == \A i \in unsent : i \in Cards /\ Untouched(i)
DueLate == \A i \in Cards : status[i] = "pending" => due[i] \in Nat /\ due[i] >= After
AgeNat == \A i \in Cards : age[i] \in Nat
RecallShape == /\ DOMAIN status = Cards /\ DOMAIN due = Cards /\ DOMAIN reached = Cards
         /\ status = [i \in Cards |-> status[i]]
         /\ unsent \subseteq awaiting /\ awaiting \subseteq Cards
         /\ wire \subseteq Cards

RecallInv == RecallShape /\ Budget /\ Fresh /\ UnsentFresh /\ DueLate /\ AgeNat

LEMMA RecallInvInit == RecallInit => RecallInv
BY RecallAssumption DEF RecallInit, RecallInv, RecallShape, Budget, Fresh, UnsentFresh, DueLate,
   AgeNat, Untouched

LEMMA RecallInvStep == RecallInv /\ [RecallNext]_recallVars => RecallInv'
<1> SUFFICES ASSUME RecallInv, [RecallNext]_recallVars PROVE RecallInv'
  OBVIOUS
<1> USE RecallAssumption DEF RecallInv, RecallShape, Budget, Fresh, UnsentFresh, DueLate,
                             AgeNat, Untouched
<1>1. ASSUME NEW i \in Cards, Ack(i) PROVE RecallInv'
  BY <1>1 DEF Ack
<1>2. ASSUME NEW i \in Cards, NotSent(i) PROVE RecallInv'
  BY <1>2 DEF NotSent, Marked, Larger
<1>3. ASSUME NEW i \in Cards, Land(i) PROVE RecallInv'
  BY <1>3 DEF Land
<1>4. ASSUME NEW i \in Cards, Lose(i) PROVE RecallInv'
  BY <1>4 DEF Lose
<1>5. ASSUME NEW i \in Cards, RecordFails(i) PROVE RecallInv'
  BY <1>5 DEF RecordFails
<1>6. ASSUME NEW i \in Cards, Notice(i) PROVE RecallInv'
  BY <1>6 DEF Notice
<1>7. ASSUME NEW i \in Cards, NEW s \in {"recalled", "rejected", "outcome_unknown"},
             Outcome(i, s) PROVE RecallInv'
  BY <1>7 DEF Outcome, Settled
<1>8. CASE Run
  <2>1. \A i \in Cards : /\ status'[i] = "none" => status[i] = "none"
                         /\ status'[i] = "pending" => status[i] = "pending" /\ i \notin Due
    BY <1>8 DEF Run, Overdue, Stale
  <2>2. /\ \A i \in awaiting' : i \in Cards /\ status[i] = "pending"
        /\ wire' \subseteq wire \cup awaiting'
        /\ unsent' \subseteq awaiting' /\ awaiting' \subseteq Cards
        /\ \A i \in unsent' : wire' = wire
    BY <1>8 DEF Run, Due
  <2>3. RecallShape'
    BY <1>8, <2>2 DEF Run
  <2>4. awaiting' \subseteq Due
    BY <1>8 DEF Run
  <2>5. Budget' /\ Fresh'
    BY <1>8, <2>1, <2>2, <2>4 DEF Run
  <2>6. UnsentFresh'
    BY <1>8, <2>2 DEF Run
  <2>7. DueLate' /\ AgeNat'
    BY <1>8, <2>1 DEF Run
  <2> QED
    BY <2>3, <2>5, <2>6, <2>7
<1>9. CASE Crash
  BY <1>9 DEF Crash
<1>10. CASE Restart
  BY <1>10 DEF Restart, Marked
<1>11. CASE Tick
  BY <1>11 DEF Tick, Elapse
<1>12. CASE UNCHANGED recallVars
  BY <1>12 DEF recallVars
<1> QED
  BY <1>1, <1>2, <1>3, <1>4, <1>5, <1>6, <1>7, <1>8, <1>9, <1>10, <1>11, <1>12
  DEF RecallNext

(* The invariant behind the theorems below. *)
THEOREM RecallInvariant == RecallSpec => []RecallInv
<1> QED
  BY RecallInvInit, RecallInvStep, PTL DEF RecallSpec

(* QQ is asked at most once to delete a card. *)
THEOREM DeletedOnce == RecallSpec => []OneDeletion
<1>1. RecallInv => OneDeletion
  BY DEF RecallInv, Budget, OneDeletion
<1> QED
  BY <1>1, RecallInvariant, PTL

(* Every dispatch is between due time and deadline, of a card not known to be
   recalled.  *)
THEOREM InTime == RecallSpec => DispatchInTime
<1>1. RecallInv /\ [RecallNext]_recallVars =>
        [\A i \in awaiting' \ awaiting :
           /\ age[i] \in After..Deadline
           /\ i \notin retracted]_recallVars
  <2> SUFFICES ASSUME RecallInv, [RecallNext]_recallVars, NEW i \in awaiting' \ awaiting
               PROVE  age[i] \in After..Deadline /\ i \notin retracted
    OBVIOUS
  <2>1. Run
    BY DEF RecallNext, Ack, NotSent, Land, Lose, RecordFails, Notice, Outcome, Crash,
           Restart, Tick, recallVars
  <2>2. i \in Due \ retracted
    BY <2>1 DEF Run
  <2> QED
    BY <2>2, RecallAssumption DEF Due, RecallInv, DueLate, AgeNat
<1> QED
  BY <1>1, RecallInvariant, PTL DEF RecallSpec, DispatchInTime

(* Nothing changes the status of a recalled card. *)
THEOREM RecalledFinal == RecallSpec => RecalledIsFinal
<1>1. RecallInv /\ [RecallNext]_recallVars =>
        [\A i \in Cards : status[i] = "recalled" => status'[i] = "recalled"]_recallVars
  <2> SUFFICES ASSUME RecallInv, [RecallNext]_recallVars, NEW i \in Cards, status[i] = "recalled"
               PROVE  status'[i] = "recalled"
    OBVIOUS
  <2> USE DEF RecallInv, RecallShape
  <2>1. ASSUME NEW j \in Cards,
               Ack(j) \/ Land(j) \/ Lose(j) \/ RecordFails(j) \/ Notice(j)
        PROVE  status'[i] = "recalled"
    BY <2>1 DEF Ack, Land, Lose, RecordFails, Notice
  <2>2. ASSUME NEW j \in Cards, NotSent(j) PROVE status'[i] = "recalled"
    BY <2>2 DEF NotSent, Marked
  <2>3. ASSUME NEW j \in Cards,
               NEW s \in {"recalled", "rejected", "outcome_unknown"}, Outcome(j, s)
        PROVE  status'[i] = "recalled"
    BY <2>3 DEF Outcome, Settled
  <2>4. CASE Run
    BY <2>4 DEF Run, Due, Overdue, Stale
  <2>5. CASE Crash \/ Restart \/ Tick \/ UNCHANGED recallVars
    BY <2>5 DEF Crash, Restart, Tick, Marked, recallVars
  <2> QED
    BY <2>1, <2>2, <2>3, <2>4, <2>5 DEF RecallNext
<1> QED
  BY <1>1, RecallInvariant, PTL DEF RecallSpec, RecalledIsFinal
-----------------------------------------------------------------------------
(* A job that waits has an attempt left, and one that is not there has none. *)
Left == \A i \in Cards : /\ status[i] = "none" => attempts[i] = 0
                         /\ status[i] = "pending" => attempts[i] < MaxAttempts

RecallTypeInv == RecallTypeOK /\ Left

(* What an action changes: the tables of the jobs, or what the process does. *)
JobTypes == /\ status \in [Cards -> {"none", "pending", "sending"} \cup Terminal]
            /\ attempts \in [Cards -> 0..MaxAttempts]
            /\ due \in [Cards -> Ages]
            /\ age \in [Cards -> Ages]
            /\ held \in [Cards -> Nat]
            /\ reached \in [Cards -> Nat]

RunTypes == /\ up \in BOOLEAN /\ polled \in BOOLEAN
            /\ retracted \subseteq Cards /\ wire \subseteq Cards
            /\ awaiting \subseteq Cards /\ unsent \subseteq awaiting
            /\ timeout \in 0..ActionTimeout
            /\ crashes \in 0..MaxCrashes /\ faults \in 0..MaxFaults

LEMMA RecallTypeParts == RecallTypeOK <=> JobTypes /\ RunTypes
BY DEF RecallTypeOK, JobTypes, RunTypes

LEMMA RecallTypeInit == RecallInit => RecallTypeInv
<1> SUFFICES ASSUME RecallInit PROVE JobTypes /\ RunTypes /\ Left
  BY RecallTypeParts DEF RecallTypeInv
<1> USE RecallAssumption
<1>1. JobTypes
  BY DEF RecallInit, JobTypes, Ages
<1>2. RunTypes
  <2>1. timeout \in 0..ActionTimeout /\ crashes \in 0..MaxCrashes /\ faults \in 0..MaxFaults
    BY DEF RecallInit
  <2>2. retracted = {} /\ wire = {} /\ awaiting = {} /\ unsent = {} /\ up = TRUE /\ polled = FALSE
    BY DEF RecallInit
  <2> QED
    BY <2>1, <2>2 DEF RunTypes
<1>3. Left
  BY DEF RecallInit, Left
<1> QED
  BY <1>1, <1>2, <1>3

LEMMA RunKeepsTypes ==
  ASSUME RecallTypeInv, Run PROVE RecallTypeInv'
<1> USE RecallAssumption
<1>1. JobTypes /\ RunTypes /\ Left
  BY RecallTypeParts DEF RecallTypeInv
<1>2. Due \subseteq Cards /\ \A i \in Due : status[i] = "pending"
  BY DEF Due
<1>3. status' \in [Cards -> {"none", "pending", "sending"} \cup Terminal]
  BY <1>1 DEF Run, JobTypes, Terminal
<1>4. attempts' \in [Cards -> 0..MaxAttempts]
  <2>1. \A i \in Cards : attempts[i] \in 0..MaxAttempts
    BY <1>1 DEF JobTypes
  <2>2. \A i \in Due : attempts[i] + 1 \in 0..MaxAttempts
    BY <1>1, <1>2, <2>1 DEF Left
  <2>3. attempts' = [i \in Cards |-> IF i \in Due THEN attempts[i] + 1 ELSE attempts[i]]
    BY DEF Run
  <2> QED
    BY <2>1, <2>2, <2>3
<1>5. held' \in [Cards -> Nat]
  BY <1>1 DEF Run, JobTypes
<1>6. JobTypes'
  BY <1>1, <1>3, <1>4, <1>5 DEF Run, JobTypes, Ages
<1>7. RunTypes'
  BY <1>1, <1>2 DEF Run, RunTypes
<1>8. Left'
  <2>1. ASSUME NEW i \in Cards
        PROVE  /\ status'[i] = "none" => status[i] = "none"
               /\ status'[i] = "pending" => status[i] = "pending"
               /\ status'[i] \in {"none", "pending"} => i \notin Due
    BY <1>2, <1>1 DEF Run, Overdue, Stale
  <2>2. \A i \in Cards : i \notin Due => attempts'[i] = attempts[i]
    BY DEF Run
  <2> QED
    BY <1>1, <2>1, <2>2 DEF Left
<1> QED
  BY <1>6, <1>7, <1>8, RecallTypeParts, PTL DEF RecallTypeInv

LEMMA RecallTypeStep == RecallTypeInv /\ [RecallNext]_recallVars => RecallTypeInv'
<1> SUFFICES ASSUME RecallTypeInv, [RecallNext]_recallVars PROVE (JobTypes /\ RunTypes /\ Left)'
  BY RecallTypeParts, PTL DEF RecallTypeInv
<1>0. JobTypes /\ RunTypes /\ Left
  BY RecallTypeParts DEF RecallTypeInv
<1> USE <1>0, RecallAssumption DEF JobTypes, RunTypes, Left
<1>1. ASSUME NEW i \in Cards, Ack(i) PROVE (JobTypes /\ RunTypes /\ Left)'
  <2>1. After \in Ages
    BY DEF Ages
  <2> QED
    BY <1>1, <2>1 DEF Ack
<1>2. ASSUME NEW i \in Cards, NotSent(i) PROVE (JobTypes /\ RunTypes /\ Left)'
  <2> PICK retry : retry = Larger(age[i], RetryAt)
    OBVIOUS
  <2>1. retry \in Nat /\ (retry <= Deadline => retry \in Ages)
    BY DEF Larger, Ages
  <2>2. RunTypes'
    BY <1>2 DEF NotSent
  <2>3. attempts[i] \in 0..MaxAttempts
    OBVIOUS
  <2>4. CASE status[i] # "sending" \/ retry > Deadline \/ attempts[i] >= MaxAttempts
    BY <1>2, <2>1, <2>2, <2>3, <2>4 DEF NotSent, Marked, Terminal
  <2>5. CASE status[i] = "sending" /\ retry <= Deadline /\ attempts[i] < MaxAttempts
    <3>1. /\ status' = Marked({i}, "pending") /\ due' = [due EXCEPT ![i] = retry]
          /\ attempts' = attempts /\ age' = age /\ held' = held /\ reached' = reached
      BY <1>2, <2>1, <2>3, <2>5 DEF NotSent
    <3>2. JobTypes'
      BY <2>1, <2>5, <3>1 DEF Marked
    <3>3. Left'
      BY <2>5, <3>1 DEF Marked
    <3> QED
      BY <2>2, <3>2, <3>3
  <2> QED
    BY <2>1, <2>3, <2>4, <2>5
<1>3. ASSUME NEW i \in Cards, Land(i) PROVE (JobTypes /\ RunTypes /\ Left)'
  BY <1>3 DEF Land
<1>4. ASSUME NEW i \in Cards, Lose(i) PROVE (JobTypes /\ RunTypes /\ Left)'
  BY <1>4 DEF Lose
<1>5. ASSUME NEW i \in Cards, RecordFails(i) PROVE (JobTypes /\ RunTypes /\ Left)'
  BY <1>5 DEF RecordFails
<1>6. ASSUME NEW i \in Cards, Notice(i) PROVE (JobTypes /\ RunTypes /\ Left)'
  BY <1>6 DEF Notice, Terminal
<1>7. ASSUME NEW i \in Cards, NEW s \in {"recalled", "rejected", "outcome_unknown"},
             Outcome(i, s) PROVE (JobTypes /\ RunTypes /\ Left)'
  BY <1>7 DEF Outcome, Settled, Terminal
<1>8. CASE Run
  <2>1. RecallTypeInv'
    BY <1>8, RunKeepsTypes
  <2> QED
    BY <2>1, RecallTypeParts, PTL DEF RecallTypeInv
<1>9. CASE Crash
  <2>1. crashes' \in 0..MaxCrashes
    BY <1>9 DEF Crash
  <2>2. JobTypes' /\ Left'
    BY <1>9 DEF Crash
  <2> QED
    BY <1>9, <2>1, <2>2 DEF Crash
<1>10. CASE Restart
  BY <1>10 DEF Restart, Marked, Terminal
<1>11. CASE Tick
  <2>1. age' \in [Cards -> Ages] /\ held' \in [Cards -> Nat]
    BY <1>11 DEF Tick, Elapse, Ages
  <2>2. timeout' \in 0..ActionTimeout
    BY <1>11 DEF Tick, Elapse, Sooner
  <2>3. JobTypes'
    BY <1>11, <2>1 DEF Tick
  <2>4. RunTypes'
    BY <1>11, <2>2 DEF Tick, Elapse
  <2>5. Left'
    BY <1>11 DEF Tick
  <2> QED
    BY <2>3, <2>4, <2>5
<1>12. CASE UNCHANGED recallVars
  BY <1>12 DEF recallVars
<1> QED
  BY <1>1, <1>2, <1>3, <1>4, <1>5, <1>6, <1>7, <1>8, <1>9, <1>10, <1>11, <1>12
  DEF RecallNext

(* The types, with the count of attempts within MaxAttempts: the retry that
   follows a missing socket is the last one.  *)
THEOREM RecallTypeCorrect == RecallSpec => []RecallTypeOK
<1>1. RecallTypeInv => RecallTypeOK
  BY DEF RecallTypeInv
<1> QED
  BY <1>1, RecallTypeInit, RecallTypeStep, PTL DEF RecallSpec
-----------------------------------------------------------------------------
(* Behind NoneForgotten: a job that was never tried and has come to its due
   time waits for the end of a run begun before.  As the time goes on, what is
   left of the timeout of that run goes down.  *)
Untried(i) == status[i] = "pending" /\ attempts[i] = 0

Waits == \A i \in Cards :
  /\ status[i] = "none" => age[i] = 0
  /\ status[i] = "sending" => attempts[i] > 0
  /\ crashes = 0 /\ status[i] = "expired" => attempts[i] > 0
  /\ Untried(i) => due[i] = After
  /\ crashes = 0 /\ Untried(i) /\ age[i] >= After =>
       ~polled /\ age[i] + timeout <= After + ActionTimeout

UpUntilCrash == crashes = 0 => up

LEMMA WaitsStep ==
  ASSUME After > 0, After + ActionTimeout <= Deadline
  PROVE  RecallTypeInv /\ UpUntilCrash /\ Waits /\ [RecallNext]_recallVars => (UpUntilCrash /\ Waits)'
<1> SUFFICES ASSUME RecallTypeInv, UpUntilCrash, Waits, [RecallNext]_recallVars PROVE UpUntilCrash' /\ Waits'
  OBVIOUS
<1>0. JobTypes /\ RunTypes /\ Left
  BY RecallTypeParts DEF RecallTypeInv
<1> USE <1>0, RecallAssumption DEF JobTypes, RunTypes, Left, Waits, Untried, UpUntilCrash
<1>1. ASSUME NEW i \in Cards, Ack(i) PROVE UpUntilCrash' /\ Waits'
  BY <1>1 DEF Ack
<1>2. ASSUME NEW i \in Cards, NotSent(i) PROVE UpUntilCrash' /\ Waits'
  BY <1>2 DEF NotSent, Marked
<1>3. ASSUME NEW i \in Cards, Land(i) \/ Lose(i) \/ RecordFails(i) PROVE UpUntilCrash' /\ Waits'
  BY <1>3 DEF Land, Lose, RecordFails
<1>4. ASSUME NEW i \in Cards, Notice(i) PROVE UpUntilCrash' /\ Waits'
  BY <1>4 DEF Notice
<1>5. ASSUME NEW i \in Cards, NEW s \in {"recalled", "rejected", "outcome_unknown"},
             Outcome(i, s) PROVE UpUntilCrash' /\ Waits'
  BY <1>5 DEF Outcome, Settled
<1>6. CASE Run
  <2>1. UNCHANGED <<up, crashes, due, age>> /\ timeout' = ActionTimeout
    BY <1>6 DEF Run
  <2>2. ASSUME NEW i \in Cards
        PROVE  /\ i \in Due => attempts'[i] = attempts[i] + 1 /\ status'[i] \in {"recalled", "sending"}
               /\ i \notin Due => /\ attempts'[i] = attempts[i]
                                  /\ \/ status'[i] = status[i]
                                     \/ i \in Overdue /\ status'[i] = "expired"
                                     \/ status'[i] = "outcome_unknown"
    BY <1>6 DEF Run, Due, Overdue, Stale
  <2>3. ASSUME NEW i \in Cards, crashes = 0, Untried(i), age[i] >= After
        PROVE  i \in Due
    BY <2>3 DEF Due, Ages
  <2>4. ASSUME NEW i \in Cards, crashes = 0, i \in Overdue PROVE attempts[i] > 0
    BY <2>4 DEF Overdue, Ages
  <2> QED
    BY <2>1, <2>2, <2>3, <2>4
<1>7. CASE Crash
  BY <1>7 DEF Crash
<1>8. CASE Restart
  BY <1>8 DEF Restart, Marked
<1>9. CASE Tick
  <2>1. UNCHANGED <<up, status, attempts, due, crashes>>
    BY <1>9 DEF Tick
  <2>2. ASSUME NEW i \in Cards, crashes = 0, Untried(i), age'[i] >= After
        PROVE  ~polled' /\ age'[i] + timeout' <= After + ActionTimeout
    <3>1. /\ age'[i] = IF age[i] <= Deadline THEN age[i] + 1 ELSE age[i]
          /\ timeout' = (IF timeout > 0 THEN timeout - 1 ELSE 0) /\ polled' = FALSE
          /\ polled \/ timeout > 0
      BY <1>9, <2>2 DEF Tick, Elapse, Sooner
    <3> QED
      BY <2>2, <3>1 DEF Ages
  <2>3. \A i \in Cards : status[i] = "none" => age'[i] = age[i]
    BY <1>9 DEF Tick, Elapse
  <2> QED
    BY <2>1, <2>2, <2>3
<1>10. CASE UNCHANGED recallVars
  BY <1>10 DEF recallVars
<1> QED
  BY <1>1, <1>2, <1>3, <1>4, <1>5, <1>6, <1>7, <1>8, <1>9, <1>10 DEF RecallNext

(* With the durations of the code (90 s, 10 s, 105 s) no card misses its
   deadline because the service was busy with another one.  *)
THEOREM NobodyForgotten ==
  ASSUME After > 0, After + ActionTimeout <= Deadline
  PROVE  RecallSpec => []NoneForgotten
<1>1. RecallInit => UpUntilCrash /\ Waits
  BY DEF RecallInit, UpUntilCrash, Waits, Untried
<1>2. Waits => NoneForgotten
  BY DEF Waits, NoneForgotten
<1> QED
  BY <1>1, <1>2, WaitsStep, RecallTypeInit, RecallTypeStep, PTL DEF RecallSpec
=============================================================================
