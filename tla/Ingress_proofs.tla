---------------------------- MODULE Ingress_proofs ----------------------------
(* Proofs about Ingress, for any messages, actions and connections and any
   lengths of the windows.  *)
EXTENDS Ingress, FiniteSetTheorems, TLAPS

(* The parts of the state that the three kinds of steps work on. *)
LinkOK == /\ conn \in [Conns -> {"none", "open", "closing", "closed"}]
          /\ active \in Conns \cup {NoConn}
CallOK == /\ call \in [Calls -> {"none", "pending"} \cup Settled]
          /\ via \in [Calls -> Conns \cup {NoConn}]
          /\ remote \in [Calls -> {"none", "frame", "done", "failed"}]
Times == {Never} \cup 0..MaxTime
EventOK == /\ now \in 0..MaxTime
           /\ posted \in [Msgs -> Times]
           /\ row \in [Msgs -> {"none", "dropped", "processable"}]
           /\ created \in [Msgs -> Times]
           /\ mark \in [Msgs -> Times]
           /\ noticed \in [Msgs -> Times]
           /\ handled \in [Msgs -> {"no", "skipped", "answered"}]

LEMMA TypeParts == /\ TypeOK <=> LinkOK /\ CallOK /\ EventOK
                   /\ TypeOK' <=> LinkOK' /\ CallOK' /\ EventOK'
BY DEF TypeOK, LinkOK, CallOK, EventOK, Times

-----------------------------------------------------------------------------
(* Type correctness *)

LEMMA LinkType == TypeOK /\ LinkStep => TypeOK'
<1> SUFFICES ASSUME TypeOK, NEW s \in Conns, Connect(s) \/ Break(s) \/ CloseEvent(s)
             PROVE  TypeOK'
  BY DEF LinkStep
<1>. USE TypeParts
<1>1. EventOK'
  BY DEF EventOK, Connect, Break, CloseEvent, events
<1>2. LinkOK'
  BY DEF LinkOK, Connect, Break, CloseEvent
<1>3. CallOK'
  BY DEF CallOK, Connect, Break, CloseEvent, actions, Settled
<1>. QED BY <1>1, <1>2, <1>3

LEMMA CallType == ASSUME NEW c \in Calls, TypeOK, CallStep(c) PROVE TypeOK'
<1>. USE TypeParts
<1>1. EventOK' /\ LinkOK'
  BY DEF EventOK, LinkOK, CallStep, NotSent, Dispatch, Remote, Answer, NoAnswer, events, link
<1>2. CallOK'
  BY DEF CallOK, LinkOK, CallStep, NotSent, Dispatch, Remote, Answer, NoAnswer, link,
         Settled, TimedOut
<1>. QED BY <1>1, <1>2

LEMMA EventType == TypeOK /\ EventStep => TypeOK'
<1> SUFFICES ASSUME TypeOK, EventStep PROVE TypeOK'
  OBVIOUS
<1>. USE TypeParts
<1>1. LinkOK' /\ CallOK'
  BY DEF LinkOK, CallOK, EventStep, Tick, Prune, Post, Receive, Recall, Take, link, actions
<1>2. EventOK'
  <2>. USE IngressAssumption DEF EventOK, Times
  <2>1. CASE Tick
    BY <2>1 DEF Tick
  <2>2. CASE Prune
    BY <2>2 DEF Prune, Never
  <2>3. ASSUME NEW m \in Msgs, Post(m) PROVE EventOK'
    BY <2>3 DEF Post
  <2>4. ASSUME NEW m \in Msgs, Receive(m) PROVE EventOK'
    BY <2>4 DEF Receive
  <2>5. ASSUME NEW m \in Msgs, Recall(m) PROVE EventOK'
    BY <2>5 DEF Recall
  <2>6. ASSUME NEW m \in Msgs, Take(m) PROVE EventOK'
    BY <2>6 DEF Take
  <2>. QED BY <2>1, <2>2, <2>3, <2>4, <2>5, <2>6 DEF EventStep
<1>. QED BY <1>1, <1>2

LEMMA TypeStep == TypeOK /\ [Next]_vars => TypeOK'
<1>1. ASSUME TypeOK, UNCHANGED vars PROVE TypeOK'
  BY <1>1 DEF TypeOK, vars
<1>. QED BY <1>1, LinkType, CallType, EventType DEF Next

LEMMA TypeInit == Init => TypeOK
BY IngressAssumption DEF Init, TypeOK, Conns, NoConn, Never

(* Every variable keeps its type. *)
THEOREM TypeCorrect == Spec => []TypeOK
<1>. QED BY TypeInit, TypeStep, PTL DEF Spec

-----------------------------------------------------------------------------
(* Outcomes of actions *)

(* An action that has not been sent is unknown to NapCat. *)
Unsent == \A c \in Calls : call[c] = "none" => remote[c] = "none"

LEMMA ReportsStep == TypeOK /\ ReportsTrue /\ Unsent /\ [Next]_vars => (ReportsTrue /\ Unsent)'
<1> SUFFICES ASSUME TypeOK, ReportsTrue, Unsent, [Next]_vars, NEW d \in Calls
             PROVE  /\ call'[d] \in {"none", "notsent"} => remote'[d] = "none"
                    /\ call'[d] = "answered" => remote'[d] = "done"
                    /\ call'[d] = "refused" => remote'[d] = "failed"
  BY DEF ReportsTrue, Unsent
<1>. USE DEF ReportsTrue, Unsent
<1>1. CASE LinkStep
  BY <1>1 DEF LinkStep, Connect, Break, CloseEvent, actions
<1>2. ASSUME NEW c \in Calls, CallStep(c)
      PROVE  /\ call'[d] \in {"none", "notsent"} => remote'[d] = "none"
             /\ call'[d] = "answered" => remote'[d] = "done"
             /\ call'[d] = "refused" => remote'[d] = "failed"
  <2>. USE DEF TypeOK
  <2>1. CASE NotSent(c)
    BY <2>1 DEF NotSent
  <2>2. CASE Dispatch(c)
    BY <2>2 DEF Dispatch
  <2>3. CASE Remote(c)
    BY <2>3 DEF Remote
  <2>4. CASE Answer(c)
    BY <2>4 DEF Answer
  <2>5. CASE NoAnswer(c)
    BY <2>5 DEF NoAnswer, TimedOut
  <2>. QED BY <1>2, <2>1, <2>2, <2>3, <2>4, <2>5 DEF CallStep
<1>3. CASE EventStep \/ UNCHANGED vars
  BY <1>3 DEF EventStep, Tick, Prune, Post, Receive, Recall, Take, actions, vars
<1>. QED BY <1>1, <1>2, <1>3 DEF Next

(* What callAction reports of an action is what became of it, for any number
   of connections that overlap and any loss of answers.  *)
THEOREM Truthful == Spec => []ReportsTrue
<1>1. Init => ReportsTrue /\ Unsent
  BY DEF Init, ReportsTrue, Unsent
<1>. QED BY <1>1, ReportsStep, TypeCorrect, PTL DEF Spec

(* The first outcome of an action is its last. *)
THEOREM Final == Spec => SettledOnce
<1>1. TypeOK /\ [Next]_vars => [\A c \in Calls : call[c] \in Settled => call'[c] = call[c]]_vars
  <2> SUFFICES ASSUME TypeOK, [Next]_vars, NEW c \in Calls, call[c] \in Settled
               PROVE  call'[c] = call[c]
    OBVIOUS
  <2>1. call[c] # "none" /\ call[c] # "pending"
    BY DEF Settled
  <2>2. CASE LinkStep
    BY <2>1, <2>2 DEF LinkStep, Connect, Break, CloseEvent, GivenUp, actions, TypeOK
  <2>3. ASSUME NEW d \in Calls, CallStep(d) PROVE call'[c] = call[c]
    BY <2>1, <2>3 DEF CallStep, NotSent, Dispatch, Remote, Answer, Awaited, NoAnswer, TypeOK
  <2>4. CASE EventStep \/ UNCHANGED vars
    BY <2>4 DEF EventStep, Tick, Prune, Post, Receive, Recall, Take, actions, vars
  <2>. QED BY <2>2, <2>3, <2>4 DEF Next
<1>. QED BY <1>1, TypeCorrect, PTL DEF Spec, SettledOnce

-----------------------------------------------------------------------------
(* Recalls *)

(* A notice is marked until its mark is pruned, which happens only when the
   notice is old.  *)
Remembered ==
  \A m \in Msgs : /\ mark[m] # Never => mark[m] = noticed[m]
                  /\ mark[m] = Never => noticed[m] = Never \/ noticed[m] < now - KeepMarks

LEMMA RememberedStep == TypeOK /\ Remembered /\ [Next]_vars => Remembered'
<1> SUFFICES ASSUME TypeOK, Remembered, [Next]_vars PROVE Remembered'
  OBVIOUS
<1>. USE DEF Remembered
<1>1. ASSUME NEW m \in Msgs
      PROVE  mark[m] \in Int /\ noticed[m] \in Int /\ now \in Int /\ KeepMarks \in Int
  BY IngressAssumption DEF TypeOK, Never
<1>2. CASE Tick
  BY <1>1, <1>2 DEF Tick
<1>3. CASE Prune
  <2> SUFFICES ASSUME NEW m \in Msgs
               PROVE  /\ mark'[m] # Never => mark'[m] = noticed[m]
                      /\ mark'[m] = Never => noticed[m] = Never \/ noticed[m] < now - KeepMarks
    BY <1>3 DEF Prune
  <2>1. mark'[m] = IF mark[m] < now - KeepMarks THEN Never ELSE mark[m]
    BY <1>3 DEF Prune
  <2>. QED BY <1>1, <2>1 DEF Never
<1>4. ASSUME NEW m \in Msgs, Recall(m) PROVE Remembered'
  BY <1>4 DEF Recall, Markable, TypeOK, Never
<1>5. ASSUME NEW m \in Msgs, Post(m) \/ Receive(m) \/ Take(m) PROVE Remembered'
  BY <1>5 DEF Post, Receive, Take
<1>6. CASE LinkStep \/ UNCHANGED vars
  BY <1>6 DEF LinkStep, Connect, Break, CloseEvent, events, vars
<1>7. ASSUME NEW c \in Calls, CallStep(c) PROVE Remembered'
  BY <1>7 DEF CallStep, NotSent, Dispatch, Remote, Answer, NoAnswer, events
<1>. QED BY <1>2, <1>3, <1>4, <1>5, <1>6, <1>7 DEF Next, EventStep

(* The worker answers no message whose recall came in and is remembered, in
   whatever order the two events arrived.  *)
THEOREM Heeded == Spec => RecallHeeded
<1>1. Init => Remembered
  BY DEF Init, Remembered
<1>2. TypeOK /\ Remembered /\ [Next]_vars =>
        [\A m \in Msgs :
           handled[m] = "no" /\ handled'[m] = "answered" =>
             noticed[m] = Never \/ noticed[m] < now - KeepMarks]_vars
  <2> SUFFICES ASSUME TypeOK, Remembered, [Next]_vars, NEW m \in Msgs,
                      handled[m] = "no", handled'[m] = "answered"
               PROVE  noticed[m] = Never \/ noticed[m] < now - KeepMarks
    OBVIOUS
  <2>1. handled' # handled
    OBVIOUS
  <2>2. PICK n \in Msgs : Take(n)
    <3>1. ~LinkStep /\ ~UNCHANGED vars
      BY <2>1 DEF LinkStep, Connect, Break, CloseEvent, events, vars
    <3>2. \A c \in Calls : ~CallStep(c)
      BY <2>1 DEF CallStep, NotSent, Dispatch, Remote, Answer, NoAnswer, events
    <3>. QED BY <2>1, <3>1, <3>2 DEF Next, EventStep, Tick, Prune, Post, Receive, Recall
  <2>3. m = n /\ mark[m] = Never
    BY <2>2 DEF Take, TypeOK
  <2>. QED BY <2>3 DEF Remembered
<1>. QED BY <1>1, <1>2, RememberedStep, TypeCorrect, PTL DEF Spec, RecallHeeded

-----------------------------------------------------------------------------
(* The rate limit *)

(* Rows are inserted with the time of the clock. *)
NoneLater == \A m \in Msgs : row[m] # "none" => created[m] <= now

LEMMA NoneLaterStep == TypeOK /\ NoneLater /\ [Next]_vars => NoneLater'
<1> SUFFICES ASSUME TypeOK, NoneLater, [Next]_vars PROVE NoneLater'
  OBVIOUS
<1>. USE DEF NoneLater
<1>1. now \in Int /\ \A m \in Msgs : created[m] \in Int
  BY IngressAssumption DEF TypeOK, Never
<1>2. CASE Tick
  BY <1>1, <1>2 DEF Tick
<1>3. ASSUME NEW m \in Msgs, Receive(m) PROVE NoneLater'
  BY <1>1, <1>3 DEF Receive, TypeOK
<1>4. CASE Prune \/ \E m \in Msgs : Post(m) \/ Recall(m) \/ Take(m)
  BY <1>4 DEF Prune, Post, Recall, Take
<1>5. CASE LinkStep \/ UNCHANGED vars
  BY <1>5 DEF LinkStep, Connect, Break, CloseEvent, events, vars
<1>6. ASSUME NEW c \in Calls, CallStep(c) PROVE NoneLater'
  BY <1>6 DEF CallStep, NotSent, Dispatch, Remote, Answer, NoAnswer, events
<1>. QED BY <1>2, <1>3, <1>4, <1>5, <1>6 DEF Next, EventStep

LEMMA FiniteParts == \A S : S \subseteq Msgs => IsFiniteSet(S) /\ Cardinality(S) \in Nat
BY IngressAssumption, FS_Subset, FS_CardinalityType

(* The clock moves on: the window that ends now holds no more than the one
   that ended before.  *)
LEMMA TickRate == TypeOK /\ NoneLater /\ RateBound /\ Tick => RateBound'
<1> SUFFICES ASSUME TypeOK, NoneLater, RateBound, Tick, NEW t \in 0..now'
             PROVE  Cardinality(Admitted(t)') <= Burst
  BY DEF RateBound
<1>0. /\ now \in Nat /\ now' = now + 1 /\ Window \in Nat /\ Burst \in Nat
      /\ \A m \in Msgs : created[m] \in Int
  BY IngressAssumption DEF TypeOK, Never, Tick
<1>1. Admitted(t)' = Admitted(t)
  BY DEF Admitted, Tick
<1>2. CASE t \in 0..now
  BY <1>1, <1>2 DEF RateBound
<1>3. CASE t = now + 1
  <2>1. Admitted(t) \subseteq Admitted(now)
    BY <1>0, <1>3 DEF Admitted, NoneLater
  <2>2. Cardinality(Admitted(now)) <= Burst
    BY <1>0 DEF RateBound
  <2>3. Admitted(now) \subseteq Msgs
    BY DEF Admitted
  <2>4. /\ Cardinality(Admitted(t)) <= Cardinality(Admitted(now))
        /\ Cardinality(Admitted(t)) \in Nat /\ Cardinality(Admitted(now)) \in Nat
    BY <2>1, <2>3, FiniteParts, FS_Subset
  <2>. QED BY <1>0, <1>1, <2>2, <2>4
<1>. QED BY <1>0, <1>2, <1>3

(* A message is admitted only while the window that ends now has room. *)
LEMMA ReceiveRate ==
  ASSUME NEW m \in Msgs, TypeOK, NoneLater, RateBound, Receive(m)
  PROVE  RateBound'
<1> SUFFICES ASSUME NEW t \in 0..now PROVE Cardinality(Admitted(t)') <= Burst
  BY DEF RateBound, Receive
<1>0. /\ now \in Nat /\ Window \in Nat /\ Burst \in Nat
      /\ \A n \in Msgs : created[n] \in Int
  BY IngressAssumption DEF TypeOK, Never
<1>1. /\ row' = [row EXCEPT ![m] = IF Limited(m) THEN "dropped" ELSE "processable"]
      /\ created' = [created EXCEPT ![m] = now] /\ row[m] = "none"
  BY DEF Receive
<1>2. Admitted(t)' \subseteq Admitted(t) \cup {m}
  BY <1>1 DEF Admitted, TypeOK
<1>3. CASE m \notin Admitted(t)'
  <2>1. Admitted(t)' \subseteq Admitted(t) /\ Admitted(t) \subseteq Msgs
    BY <1>2, <1>3 DEF Admitted
  <2>2. /\ Cardinality(Admitted(t)') <= Cardinality(Admitted(t))
        /\ Cardinality(Admitted(t)') \in Nat /\ Cardinality(Admitted(t)) \in Nat
    BY <2>1, FiniteParts, FS_Subset
  <2>. QED BY <1>0, <2>2 DEF RateBound
<1>4. CASE m \in Admitted(t)'
  <2>1. t = now /\ m \notin Muted /\ ~Limited(m)
    BY <1>0, <1>1, <1>4 DEF Admitted, TypeOK
  <2>2. Recent \subseteq Msgs /\ m \notin Recent
    BY <1>1 DEF Recent
  <2>3. Admitted(t) \subseteq Recent
    BY <1>0, <2>1 DEF Admitted, Recent
  <2>4. Cardinality(Recent) < Burst
    BY <1>0, <2>1, <2>2, FiniteParts DEF Limited
  <2>5. Cardinality(Recent \cup {m}) = Cardinality(Recent) + 1
    BY <2>2, FiniteParts, FS_AddElement
  <2>6. Cardinality(Admitted(t)') <= Cardinality(Recent \cup {m})
    BY <1>2, <2>2, <2>3, FiniteParts, FS_Subset
  <2>7. Cardinality(Admitted(t)') \in Nat /\ Cardinality(Recent) \in Nat
    BY <1>2, <2>2, <2>3, FiniteParts
  <2>. QED BY <1>0, <2>4, <2>5, <2>6, <2>7
<1>. QED BY <1>3, <1>4

LEMMA RateStep == TypeOK /\ NoneLater /\ RateBound /\ [Next]_vars => RateBound'
<1> SUFFICES ASSUME TypeOK, NoneLater, RateBound, [Next]_vars PROVE RateBound'
  OBVIOUS
<1>1. ASSUME UNCHANGED <<now, row, created>> PROVE RateBound'
  BY <1>1 DEF RateBound, Admitted
<1>2. CASE LinkStep \/ UNCHANGED vars
  BY <1>1, <1>2 DEF LinkStep, Connect, Break, CloseEvent, events, vars
<1>3. ASSUME NEW c \in Calls, CallStep(c) PROVE RateBound'
  BY <1>1, <1>3 DEF CallStep, NotSent, Dispatch, Remote, Answer, NoAnswer, events
<1>4. CASE Prune \/ \E m \in Msgs : Post(m) \/ Recall(m) \/ Take(m)
  BY <1>1, <1>4 DEF Prune, Post, Recall, Take
<1>. QED BY <1>2, <1>3, <1>4, TickRate, ReceiveRate DEF Next, EventStep

(* No window holds more admitted messages than the bucket, for any length of
   the window and any size of the bucket.  *)
THEOREM Bounded == Spec => []RateBound
<1>1. Init => NoneLater /\ RateBound
  <2> SUFFICES ASSUME Init PROVE NoneLater /\ RateBound
    OBVIOUS
  <2>1. \A t : Admitted(t) = {}
    BY DEF Init, Admitted
  <2>2. Cardinality({}) = 0
    BY FS_EmptySet
  <2>. QED BY <2>1, <2>2, IngressAssumption DEF Init, NoneLater, RateBound
<1>. QED BY <1>1, NoneLaterStep, RateStep, TypeCorrect, PTL DEF Spec
=============================================================================
