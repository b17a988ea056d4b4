--------------------------- MODULE ReplyTurn_proofs ---------------------------
(***************************************************************************)
(* Proofs about ReplyTurn, for any number of messages, parts, clears,      *)
(* crashes, failures and attempts.                                         *)
(***************************************************************************)
EXTENDS ReplyTurn, FiniteSetTheorems, TLAPS

(* Pcs at which the attempt has not stored its turn. *)
Drafting == {"generating", "sending", "failing", "notified"}

(* What a task works on. *)
TaskInv ==
  /\ \A g \in Gens : task[g].pc # "idle" => task[g].msg \in Msgs
  /\ \A g \in Gens : task[g].pc \in Working =>
       task[g].id \in DOMAIN begun /\ begun[task[g].id].msg = task[g].msg
  /\ \A g, h \in Gens : g # h /\ task[g].pc \in Working /\ task[h].pc \in Working
       => task[g].id # task[h].id

(* Attempts belong to generations that exist; what was never begun has no
   rows.  *)
BegunInv ==
  /\ Len(begun) <= MaxAttempts
  /\ \A a \in DOMAIN begun : Branch(a) <= gen
  /\ \A a \in Attempts \ DOMAIN begun : \A p \in Parts : outbox[a][p] = "none"

IndInv == TypeOK /\ TaskInv /\ BegunInv

-----------------------------------------------------------------------------
(* Types *)

Rows == [Attempts -> [Parts -> {"none", "preparing", "pending", "sent", "cancelled"}]]
Tasks == [Gens -> [pc : {"idle", "deciding"} \cup Working,
                   msg : {0} \cup Msgs, id : {0} \cup Attempts, part : Parts]]
Registry == [Gens -> [task : {0} \cup Attempts, fresh : BOOLEAN, cancel : BOOLEAN]]

LEMMA InitInv == Init => IndInv
  BY ReplyTurnAssumption DEF Init, IndInv, TypeOK, TaskInv, BegunInv, Idle, NoRow,
     Working, Gens, Msgs, Attempts, Parts, Branch

LEMMA IdleType ==
  Idle \in [pc : {"idle", "deciding"} \cup Working, msg : {0} \cup Msgs,
            id : {0} \cup Attempts, part : Parts]
  BY ReplyTurnAssumption DEF Idle, Parts

(* The route of a message leads to an existing generation. *)
LEMMA RouteType ==
  ASSUME TypeOK, NEW m \in Msgs
  PROVE  RouteOf(m) \in Gens /\ RouteOf(m) \in 1..gen
  BY ReplyTurnAssumption DEF TypeOK, RouteOf, Gens

LEMMA SeqElement ==
  ASSUME NEW S, NEW s \in Seq(S), NEW x \in 1..Len(s)
  PROVE  s[x] \in S
  OBVIOUS

(* The domain of the history, and its elements. *)
LEMMA BegunType ==
  ASSUME TypeOK, Len(begun) <= MaxAttempts
  PROVE  /\ DOMAIN begun = 1..Len(begun) /\ DOMAIN begun \subseteq Attempts
         /\ \A a \in DOMAIN begun : begun[a].msg \in Msgs /\ Branch(a) \in Gens
<1>1. /\ begun \in Seq([msg : Msgs, gen : Gens])
      /\ DOMAIN begun = 1..Len(begun) /\ Len(begun) \in Nat
  BY DEF TypeOK
<1>2. \A a \in DOMAIN begun : begun[a] \in [msg : Msgs, gen : Gens]
  BY <1>1, SeqElement
<1>3. DOMAIN begun \subseteq Attempts
  BY <1>1, ReplyTurnAssumption DEF Attempts
<1> QED
  BY <1>1, <1>2, <1>3 DEF Branch

LEMMA DraftsType ==
  ASSUME TypeOK, NEW m, NEW g
  PROVE  WithoutDraftsOf(m, g) \in Rows
  BY DEF TypeOK, Rows, WithoutDraftsOf

LEMMA ClearedType ==
  ASSUME TypeOK, NEW a
  PROVE  Cleared(a) \in Registry
  BY DEF TypeOK, Registry, Cleared, NoRow

(* The end of a handler takes its message off the queue and frees the key. *)
LEMMA CompleteType ==
  ASSUME TypeOK, NEW g \in Gens, NEW m \in Msgs, Complete(g, m)
  PROVE  queue' \in [Gens -> Seq(Msgs)] /\ done' \subseteq Msgs /\ task' \in Tasks
<1>1. queue' \in [Gens -> Seq(Msgs)]
  <2>1. queue[g] \in Seq(Msgs)
    BY DEF TypeOK
  <2>2. queue[g] # <<>> => Tail(queue[g]) \in Seq(Msgs)
    BY <2>1
  <2> QED
    BY <2>1, <2>2 DEF TypeOK, Complete
<1>2. done' \subseteq Msgs /\ task' \in Tasks
  BY IdleType DEF TypeOK, Complete, Tasks
<1> QED
  BY <1>1, <1>2

(* A step of a task that only moves task g and keeps begun, gen and what was
   never begun.  *)
LEMMA TaskMoves ==
  ASSUME IndInv, NEW g \in Gens, begun' = begun, gen' = gen,
         NEW t, task' = [task EXCEPT ![g] = t],
         t.pc # "idle" => t.msg \in Msgs,
         t.pc \in Working => t.id = task[g].id /\ t.msg = task[g].msg /\ task[g].pc \in Working
  PROVE  TaskInv'
<1>1. \A h \in Gens : task'[h] = IF h = g THEN t ELSE task[h]
  BY DEF IndInv, TypeOK
<1>2. \A h \in Gens : task'[h].pc \in Working =>
        task[h].pc \in Working /\ task'[h].id = task[h].id /\ task'[h].msg = task[h].msg
  BY <1>1
<1> QED
  BY <1>1, <1>2 DEF IndInv, TaskInv

(* Rows of attempts that were never begun are not touched. *)
LEMMA RowsMove ==
  ASSUME IndInv, begun' = begun, gen' = gen,
         \A a \in Attempts \ DOMAIN begun : outbox'[a] = outbox[a]
  PROVE  BegunInv'
  BY DEF IndInv, BegunInv, Branch

-----------------------------------------------------------------------------
(* Steps of the runner *)

LEMMA PollInv ==
  ASSUME IndInv, NEW m \in Msgs, Poll(m)
  PROVE  IndInv'
<1>1. RouteOf(m) \in Gens /\ RouteOf(m) \in 0..gen
  BY RouteType DEF IndInv
<1>2. route' \in [Msgs -> 0..gen]
  BY <1>1 DEF Poll, IndInv, TypeOK
<1>3. queue' \in [Gens -> Seq(Msgs)]
  BY <1>1 DEF Poll, IndInv, TypeOK
<1>4. TypeOK'
  BY <1>2, <1>3 DEF Poll, IndInv, TypeOK
<1>5. TaskInv' /\ BegunInv'
  BY DEF Poll, IndInv, TaskInv, BegunInv, Branch
<1> QED
  BY <1>4, <1>5 DEF IndInv

LEMMA EndsInv ==
  ASSUME IndInv, NEW g \in Gens, NEW m \in Msgs, Complete(g, m),
         begun' = begun, gen' = gen, up' = up, retracted' = retracted,
         turns' = turns, answered' = answered, crashes' = crashes, faults' = faults,
         route' \in [Msgs -> 0..gen], inflight' \in Registry, outbox' \in Rows,
         \A a \in Attempts \ DOMAIN begun : outbox'[a] = outbox[a]
  PROVE  IndInv'
<1>1. TypeOK'
  BY CompleteType DEF IndInv, TypeOK, Rows, Tasks, Registry
<1>2. TaskInv'
  <2>1. task' = [task EXCEPT ![g] = Idle] /\ Idle.pc = "idle"
    BY DEF Complete, Idle
  <2> QED
    BY <2>1, TaskMoves DEF Working
<1>3. BegunInv'
  BY RowsMove
<1> QED
  BY <1>1, <1>2, <1>3 DEF IndInv

LEMMA SkipRetractedInv ==
  ASSUME IndInv, NEW g \in Gens, SkipRetracted(g)
  PROVE  IndInv'
<1>1. Head(queue[g]) \in Msgs
  <2>1. queue[g] \in Seq(Msgs) /\ queue[g] # <<>>
    BY DEF SkipRetracted, IndInv, TypeOK
  <2> QED
    BY <2>1
<1> QED
  BY <1>1, EndsInv DEF SkipRetracted, IndInv, TypeOK, Rows, Registry

LEMMA StartInv ==
  ASSUME IndInv, NEW g \in Gens, Start(g)
  PROVE  IndInv'
<1>1. Head(queue[g]) \in Msgs
  <2>1. queue[g] \in Seq(Msgs) /\ queue[g] # <<>>
    BY DEF Start, IndInv, TypeOK
  <2> QED
    BY <2>1
<1> DEFINE t == [pc |-> "deciding", msg |-> Head(queue[g]), id |-> 0, part |-> 0]
<1>2. t.pc = "deciding" /\ t.msg = Head(queue[g])
  OBVIOUS
<1>3. task' = [task EXCEPT ![g] = t]
  BY DEF Start
<1>4. task' \in Tasks
  <2>1. t \in [pc : {"idle", "deciding"} \cup Working, msg : {0} \cup Msgs,
                id : {0} \cup Attempts, part : Parts]
    BY <1>1, ReplyTurnAssumption DEF Parts
  <2> HIDE DEF t
  <2> QED
    BY <2>1, <1>3 DEF IndInv, TypeOK, Tasks
<1>5. TypeOK'
  BY <1>4 DEF Start, IndInv, TypeOK, Tasks
<1> HIDE DEF t
<1>6. TaskInv'
  BY <1>1, <1>2, <1>3, TaskMoves DEF Start, Working
<1>7. BegunInv'
  BY RowsMove DEF Start
<1> QED
  BY <1>5, <1>6, <1>7 DEF IndInv

-----------------------------------------------------------------------------
(* Steps of the handler *)

LEMMA ReroutedType ==
  ASSUME IndInv, NEW m \in Msgs, Rerouted(m)
  PROVE  /\ route' \in [Msgs -> 0..gen] /\ outbox' \in Rows
         /\ \A a \in Attempts \ DOMAIN begun : outbox'[a] = outbox[a]
<1>1. route' \in [Msgs -> 0..gen]
  BY RouteType DEF Rerouted, IndInv, TypeOK
<1>2. outbox' \in Rows
  BY DraftsType DEF Rerouted, IndInv
<1>3. \A a \in Attempts \ DOMAIN begun : outbox'[a] = outbox[a]
  BY DEF Rerouted, WithoutDraftsOf, AttemptsAt
<1> QED
  BY <1>1, <1>2, <1>3

LEMMA SkipsInv ==
  ASSUME IndInv, NEW g \in Gens, SkipAnswered(g) \/ DropDuplicate(g)
  PROVE  IndInv'
<1>1. task[g].msg \in Msgs
  BY DEF SkipAnswered, DropDuplicate, At, IndInv, TaskInv
<1>2. inflight \in Registry
  BY DEF IndInv, TypeOK, Registry
<1> QED
  BY <1>1, <1>2, ReroutedType, EndsInv DEF SkipAnswered, DropDuplicate

LEMMA BeginInv ==
  ASSUME IndInv, NEW g \in Gens, Begin(g)
  PROVE  IndInv'
<1> DEFINE m == task[g].msg
           r == RouteOf(m)
           a == Len(begun) + 1
           t == [pc |-> "generating", msg |-> m, id |-> a, part |-> 0]
<1>1. m \in Msgs
  BY DEF Begin, At, IndInv, TaskInv
<1>2. r \in Gens /\ r \in 1..gen
  BY <1>1, RouteType DEF IndInv
<1>3. /\ begun' = Append(begun, [msg |-> m, gen |-> r]) /\ a \in Attempts
      /\ begun \in Seq([msg : Msgs, gen : Gens]) /\ Len(begun) \in Nat
  BY DEF Begin, IndInv, TypeOK
<1>4. [msg |-> m, gen |-> r] \in [msg : Msgs, gen : Gens]
  BY <1>1, <1>2
<1>5. /\ begun' \in Seq([msg : Msgs, gen : Gens])
      /\ Len(begun') = a /\ DOMAIN begun = 1..Len(begun) /\ DOMAIN begun' = 1..a
      /\ a \notin DOMAIN begun /\ DOMAIN begun' = DOMAIN begun \cup {a}
      /\ begun'[a].msg = m /\ begun'[a].gen = r
      /\ \A b \in DOMAIN begun : begun'[b] = begun[b]
  BY <1>3, <1>4
<1>6. /\ route' \in [Msgs -> 0..gen] /\ outbox' \in Rows
      /\ \A b \in Attempts \ DOMAIN begun : outbox'[b] = outbox[b]
  BY <1>1, ReroutedType DEF Begin
<1>7. task' = [task EXCEPT ![g] = t] /\ gen' = gen
  BY DEF Begin
<1>8. /\ t.pc = "generating" /\ t.msg = m /\ t.id = a
      /\ t \in [pc : {"idle", "deciding"} \cup Working, msg : {0} \cup Msgs,
                id : {0} \cup Attempts, part : Parts]
  BY <1>1, <1>3, ReplyTurnAssumption DEF Parts, Working
<1>9. inflight' \in Registry
  <2>1. [task |-> a, fresh |-> TRUE, cancel |-> FALSE]
           \in [task : {0} \cup Attempts, fresh : BOOLEAN, cancel : BOOLEAN]
    BY <1>3
  <2>2. inflight' = [inflight EXCEPT ![r] = [task |-> a, fresh |-> TRUE, cancel |-> FALSE]]
    BY DEF Begin
  <2>3. inflight' \in Registry
    BY <2>1, <2>2, <1>2 DEF IndInv, TypeOK, Registry
  <2> QED
    BY <2>3
<1> HIDE DEF m, r, a, t
<1>10. task' \in Tasks
  BY <1>7, <1>8 DEF IndInv, TypeOK, Tasks
<1>11. TypeOK'
  BY <1>5, <1>6, <1>9, <1>10 DEF Begin, IndInv, TypeOK, Tasks, Rows, Registry
<1>12. TaskInv'
  <2>1. \A h \in Gens : task'[h] = IF h = g THEN t ELSE task[h]
    BY <1>7 DEF IndInv, TypeOK
  <2>2. \A h \in Gens : h # g /\ task[h].pc \in Working => task[h].id # a
    BY <1>5 DEF IndInv, TaskInv
  <2>3. a \in DOMAIN begun' /\ begun'[a].msg = m
    BY <1>5
  <2>4. \A h \in Gens : task'[h].pc # "idle" => task'[h].msg \in Msgs
    BY <2>1, <1>8, <1>1 DEF IndInv, TaskInv
  <2>5. \A h \in Gens : task'[h].pc \in Working =>
          task'[h].id \in DOMAIN begun' /\ begun'[task'[h].id].msg = task'[h].msg
    BY <2>1, <2>3, <1>8, <1>5 DEF IndInv, TaskInv
  <2>6. \A h, k \in Gens : h # k /\ task'[h].pc \in Working /\ task'[k].pc \in Working
          => task'[h].id # task'[k].id
    BY <2>1, <2>2, <1>8 DEF IndInv, TaskInv
  <2> QED
    BY <2>4, <2>5, <2>6 DEF TaskInv
<1>13. BegunInv'
  <2>1. Len(begun') <= MaxAttempts
    BY <1>3, <1>5 DEF Attempts
  <2>2. \A b \in DOMAIN begun' : begun'[b].gen <= gen'
    <3>1. \A b \in DOMAIN begun : begun[b].gen <= gen
      BY DEF IndInv, BegunInv, Branch
    <3>2. r <= gen
      BY <1>2
    <3>3. ASSUME NEW b \in DOMAIN begun' PROVE begun'[b].gen <= gen
      <4>1. CASE b = a
        BY <1>5, <3>2, <4>1
      <4>2. CASE b # a
        BY <1>5, <3>1, <3>3, <4>2
      <4> QED
        BY <4>1, <4>2
    <3> QED
      BY <1>7, <3>3
  <2>3. \A b \in Attempts \ DOMAIN begun' : \A p \in Parts : outbox'[b][p] = "none"
    BY <1>5, <1>6 DEF IndInv, BegunInv
  <2> QED
    BY <2>1, <2>2, <2>3 DEF BegunInv, Branch
<1> QED
  BY <1>11, <1>12, <1>13 DEF IndInv

(* The attempt of a working task. *)
LEMMA WorkingType ==
  ASSUME IndInv, NEW g \in Gens, task[g].pc \in Working
  PROVE  /\ task[g].id \in DOMAIN begun /\ task[g].id \in Attempts
         /\ task[g].msg \in Msgs /\ begun[task[g].id].msg = task[g].msg
<1>1. task[g].id \in DOMAIN begun /\ begun[task[g].id].msg = task[g].msg
  BY DEF IndInv, TaskInv
<1>2. DOMAIN begun \subseteq Attempts
  BY BegunType DEF IndInv, BegunInv
<1>3. task[g].msg \in Msgs
  BY DEF IndInv, TaskInv, Working
<1> QED
  BY <1>1, <1>2, <1>3

TaskRecord == [pc : {"idle", "deciding"} \cup Working,
               msg : {0} \cup Msgs, id : {0} \cup Attempts, part : Parts]

(* Steps that move one task on and keep what it works on. *)
LEMMA MovesInv ==
  ASSUME IndInv, NEW g \in Gens, NEW t \in TaskRecord,
         task[g].pc \in Working, t.pc \in Working,
         t.id = task[g].id, t.msg = task[g].msg,
         task' = [task EXCEPT ![g] = t],
         begun' = begun, gen' = gen, up' = up, queue' = queue, done' = done,
         retracted' = retracted, route' = route, inflight' = inflight,
         crashes' = crashes,
         turns' \subseteq DOMAIN begun, answered' \subseteq Msgs,
         faults' \in 0..MaxFaults, outbox' \in Rows,
         \A a \in Attempts \ DOMAIN begun : outbox'[a] = outbox[a]
  PROVE  IndInv'
<1>1. task' \in Tasks
  BY DEF IndInv, TypeOK, Tasks, TaskRecord
<1>2. TypeOK'
  BY <1>1 DEF IndInv, TypeOK, Tasks, Rows
<1>3. TaskInv'
  BY TaskMoves, WorkingType DEF Working
<1>4. BegunInv'
  BY RowsMove
<1> QED
  BY <1>2, <1>3, <1>4 DEF IndInv

(* Writing one row of the attempt a task works on. *)
LEMMA RowWritten ==
  ASSUME IndInv, NEW g \in Gens, task[g].pc \in Working, NEW p \in Parts,
         outbox' = [outbox EXCEPT ![task[g].id][p] = "preparing"]
  PROVE  /\ outbox' \in Rows
         /\ \A a \in Attempts \ DOMAIN begun : outbox'[a] = outbox[a]
  BY WorkingType DEF IndInv, TypeOK, Rows

LEMMA StepsOnInv ==
  ASSUME IndInv, NEW g \in Gens,
         Generate(g) \/ SendPart(g) \/ AttemptFails(g) \/ Notify(g)
  PROVE  IndInv'
<1>1. task[g] \in TaskRecord /\ task[g].pc \in Working
  BY DEF Generate, SendPart, AttemptFails, Notify, At, Working, IndInv, TypeOK, TaskRecord
<1>2. outbox \in Rows /\ turns \subseteq DOMAIN begun /\ answered \subseteq Msgs
      /\ faults \in 0..MaxFaults
  BY DEF IndInv, TypeOK, Rows
<1>3. ASSUME NEW pc \in Working
      PROVE  LET t == [task[g] EXCEPT !.pc = pc] IN
             t \in TaskRecord /\ t.pc = pc /\ t.id = task[g].id /\ t.msg = task[g].msg
  BY <1>1 DEF TaskRecord
<1>4. CASE Generate(g)
  <2>1. task' = [task EXCEPT ![g] = [task[g] EXCEPT !.pc = "sending"]]
    BY <1>4 DEF Generate
  <2> QED
    BY <1>1, <1>2, <1>3, <1>4, <2>1, MovesInv DEF Generate, Working
<1>5. CASE SendPart(g)
  <2> DEFINE t == [task[g] EXCEPT !.part = task[g].part + 1]
  <2>1. task' = [task EXCEPT ![g] = t] /\ task[g].part + 1 \in Parts
    BY <1>5, ReplyTurnAssumption DEF SendPart, Reply, Parts
  <2>2. t \in TaskRecord /\ t.pc \in Working /\ t.id = task[g].id /\ t.msg = task[g].msg
    BY <1>1, <2>1 DEF TaskRecord
  <2>3. outbox' \in Rows /\ \A a \in Attempts \ DOMAIN begun : outbox'[a] = outbox[a]
    BY <1>1, <1>5, <2>1, RowWritten DEF SendPart
  <2> HIDE DEF t
  <2> QED
    BY <1>1, <1>2, <1>5, <2>1, <2>2, <2>3, MovesInv DEF SendPart
<1>6. CASE AttemptFails(g)
  <2> DEFINE pc == IF inflight[Branch(task[g].id)].cancel THEN "replied" ELSE "failing"
  <2>1. pc \in Working
    BY DEF Working
  <2>2. task' = [task EXCEPT ![g] = [task[g] EXCEPT !.pc = pc]]
    BY <1>6 DEF AttemptFails
  <2>3. faults' \in 0..MaxFaults
    BY <1>6, ReplyTurnAssumption DEF AttemptFails, IndInv, TypeOK
  <2> HIDE DEF pc
  <2> QED
    BY <1>1, <1>2, <1>3, <1>6, <2>1, <2>2, <2>3, MovesInv DEF AttemptFails
<1>7. CASE Notify(g)
  <2>1. task' = [task EXCEPT ![g] = [task[g] EXCEPT !.pc = "notified"]]
    BY <1>7 DEF Notify
  <2>2. 0 \in Parts
    BY ReplyTurnAssumption DEF Parts
  <2>3. outbox' \in Rows /\ \A a \in Attempts \ DOMAIN begun : outbox'[a] = outbox[a]
    BY <1>1, <1>7, <2>2, RowWritten DEF Notify
  <2> QED
    BY <1>1, <1>2, <1>3, <1>7, <2>1, <2>3, MovesInv DEF Notify, Working
<1> QED
  BY <1>4, <1>5, <1>6, <1>7

(* Writing several rows of the attempt a task works on. *)
LEMMA RowsWritten ==
  ASSUME IndInv, NEW g \in Gens, task[g].pc \in Working,
         NEW f \in [Parts -> {"none", "preparing", "pending", "sent", "cancelled"}],
         outbox' = [outbox EXCEPT ![task[g].id] = f]
  PROVE  /\ outbox' \in Rows
         /\ \A a \in Attempts \ DOMAIN begun : outbox'[a] = outbox[a]
  BY WorkingType DEF IndInv, TypeOK, Rows

LEMMA PersistInv ==
  ASSUME IndInv, NEW g \in Gens, Persist(g)
  PROVE  IndInv'
<1> DEFINE a == task[g].id
           f == [p \in Parts |-> IF p \in Receipts(g) /\ outbox[a][p] # "none"
                                   THEN "pending" ELSE outbox[a][p]]
           t == [task[g] EXCEPT !.pc = "replied"]
<1>1. task[g] \in TaskRecord /\ task[g].pc \in Working
  BY DEF Persist, ReadyToPersist, At, Working, IndInv, TypeOK, TaskRecord
<1>2. a \in Attempts /\ a \in DOMAIN begun /\ begun[a].msg \in Msgs
  BY <1>1, WorkingType
<1>3. f \in [Parts -> {"none", "preparing", "pending", "sent", "cancelled"}]
  BY <1>2 DEF IndInv, TypeOK
<1>4. outbox' = [outbox EXCEPT ![a] = f]
  BY DEF Persist
<1>5. task' = [task EXCEPT ![g] = t]
  BY DEF Persist
<1>6. t \in TaskRecord /\ t.pc \in Working /\ t.id = task[g].id /\ t.msg = task[g].msg
  BY <1>1 DEF TaskRecord, Working
<1>7. turns' \subseteq DOMAIN begun /\ answered' \subseteq Msgs /\ faults' \in 0..MaxFaults
  BY <1>2 DEF Persist, IndInv, TypeOK
<1> HIDE DEF f, t
<1>8. outbox' \in Rows /\ \A b \in Attempts \ DOMAIN begun : outbox'[b] = outbox[b]
  BY <1>1, <1>3, <1>4, RowsWritten
<1> QED
  BY <1>1, <1>5, <1>6, <1>7, <1>8, MovesInv DEF Persist

LEMMA AbandonsInv ==
  ASSUME IndInv, NEW g \in Gens, Abandon(g) \/ NotifyFails(g)
  PROVE  IndInv'
<1> DEFINE a == task[g].id
           f == [p \in Parts |-> IF p \in Receipts(g) /\ outbox[a][p] = "preparing"
                                   THEN "none" ELSE outbox[a][p]]
<1>1. task[g] \in TaskRecord /\ task[g].pc \in Working
  BY DEF Abandon, NotifyFails, ReadyToPersist, At, Working, IndInv, TypeOK, TaskRecord
<1>2. a \in Attempts
  BY <1>1, WorkingType
<1>3. f \in [Parts -> {"none", "preparing", "pending", "sent", "cancelled"}]
  BY <1>2 DEF IndInv, TypeOK
<1>4. outbox' = [outbox EXCEPT ![a] = f] \/ outbox' = outbox
  BY DEF Abandon, NotifyFails
<1> HIDE DEF f
<1>5. outbox' \in Rows /\ \A b \in Attempts \ DOMAIN begun : outbox'[b] = outbox[b]
  <2>1. outbox \in Rows
    BY DEF IndInv, TypeOK, Rows
  <2> QED
    BY <2>1, <1>1, <1>3, <1>4, RowsWritten
<1>6. task' = [task EXCEPT ![g] = Idle] /\ Idle.pc = "idle"
  BY DEF Abandon, NotifyFails, Idle
<1>7. task' \in Tasks
  BY <1>6, IdleType DEF IndInv, TypeOK, Tasks
<1>8. inflight' \in Registry
  BY ClearedType DEF Abandon, NotifyFails, IndInv
<1>9. faults' \in 0..MaxFaults
  BY ReplyTurnAssumption DEF Abandon, NotifyFails, IndInv, TypeOK
<1>10. TypeOK'
  BY <1>5, <1>7, <1>8, <1>9 DEF Abandon, NotifyFails, IndInv, TypeOK, Rows, Tasks, Registry
<1>11. TaskInv'
  BY <1>6, TaskMoves DEF Abandon, NotifyFails, Working
<1>12. BegunInv'
  BY <1>5, RowsMove DEF Abandon, NotifyFails
<1> QED
  BY <1>10, <1>11, <1>12 DEF IndInv

LEMMA EndInv ==
  ASSUME IndInv, NEW g \in Gens, End(g)
  PROVE  IndInv'
<1>1. task[g].msg \in Msgs
  BY WorkingType DEF End, At, Working
<1>2. inflight' \in Registry
  BY ClearedType DEF End, IndInv
<1> QED
  BY <1>1, <1>2, EndsInv DEF End, IndInv, TypeOK, Rows

-----------------------------------------------------------------------------
(* The rest of the system *)

LEMMA ClearInv ==
  ASSUME IndInv, Clear
  PROVE  IndInv'
<1>1. gen \in Gens /\ gen' = gen + 1 /\ gen' \in Gens
  BY ReplyTurnAssumption DEF Clear, IndInv, TypeOK, Gens
<1>2. route' \in [Msgs -> 0..gen']
  BY <1>1 DEF Clear, Gens
<1>3. inflight' \in Registry
  BY <1>1 DEF Clear, IndInv, TypeOK, Registry, NoRow
<1>4. outbox' \in Rows /\ \A a \in Attempts \ DOMAIN begun : outbox'[a] = outbox[a]
  BY DEF Clear, IndInv, TypeOK, Rows
<1>5. TypeOK'
  BY <1>1, <1>2, <1>3, <1>4 DEF Clear, IndInv, TypeOK, Rows, Registry
<1>6. TaskInv'
  BY DEF Clear, IndInv, TaskInv
<1>7. BegunInv'
  <2>1. \A a \in DOMAIN begun : begun[a].gen <= gen + 1
    BY <1>1, BegunType DEF IndInv, BegunInv, Branch, Gens
  <2> QED
    BY <1>1, <1>4, <2>1 DEF Clear, IndInv, BegunInv, Branch
<1> QED
  BY <1>5, <1>6, <1>7 DEF IndInv

LEMMA DeliverInv ==
  ASSUME IndInv, NEW a \in Attempts, NEW p \in Parts, Deliver(a, p)
  PROVE  IndInv'
<1>1. outbox' \in Rows /\ \A b \in Attempts \ DOMAIN begun : outbox'[b] = outbox[b]
  BY DEF Deliver, IndInv, TypeOK, BegunInv, Rows
<1>2. TypeOK' /\ TaskInv'
  BY <1>1 DEF Deliver, IndInv, TypeOK, TaskInv, Rows
<1>3. BegunInv'
  BY <1>1, RowsMove DEF Deliver
<1> QED
  BY <1>2, <1>3 DEF IndInv

LEMMA CrashInv ==
  ASSUME IndInv, Crash
  PROVE  IndInv'
<1>1. task' \in Tasks /\ \A g \in Gens : task'[g].pc = "idle"
  BY IdleType DEF Crash, Tasks, Idle
<1>2. queue' \in [Gens -> Seq(Msgs)]
  BY DEF Crash
<1>3. TypeOK'
  <2>1. crashes' \in 0..MaxCrashes
    BY ReplyTurnAssumption DEF Crash, IndInv, TypeOK
  <2>2. UNCHANGED <<gen, route, done, retracted, inflight, begun, outbox, turns,
                    answered, faults>> /\ up' = FALSE
    BY DEF Crash
  <2> QED
    BY <1>1, <1>2, <2>1, <2>2 DEF IndInv, TypeOK, Tasks
<1>4. TaskInv' /\ BegunInv'
  BY <1>1 DEF Crash, IndInv, TaskInv, BegunInv, Branch, Working
<1> QED
  BY <1>3, <1>4 DEF IndInv

LEMMA OthersInv ==
  ASSUME IndInv,
         \/ \E m \in Msgs : Retract(m)
         \/ \E g \in Gens : Age(g)
         \/ Restart
         \/ UNCHANGED vars
  PROVE  IndInv'
<1>1. inflight' \in Registry
  <2>1. inflight \in Registry
    BY DEF IndInv, TypeOK, Registry
  <2>2. ASSUME NEW g \in Gens PROVE [inflight EXCEPT ![g].fresh = FALSE] \in Registry
    BY <2>1 DEF Registry
  <2> QED
    BY <2>1, <2>2 DEF Retract, Age, Restart, vars
<1>2. TypeOK'
  <2>1. up' \in BOOLEAN /\ retracted' \subseteq Msgs
    BY DEF Retract, Age, Restart, vars, IndInv, TypeOK
  <2>2. UNCHANGED <<gen, route, queue, task, done, begun, outbox, turns,
                    answered, crashes, faults>>
    BY DEF Retract, Age, Restart, vars
  <2> QED
    BY <1>1, <2>1, <2>2 DEF IndInv, TypeOK, Registry
<1>3. TaskInv' /\ BegunInv'
  BY DEF Retract, Age, Restart, vars, IndInv, TaskInv, BegunInv, Branch
<1> QED
  BY <1>2, <1>3 DEF IndInv

LEMMA StepInv == IndInv /\ [Next]_vars => IndInv'
<1> SUFFICES ASSUME IndInv, [Next]_vars PROVE IndInv'
  OBVIOUS
<1>1. ASSUME NEW m \in Msgs, Poll(m) PROVE IndInv'
  BY <1>1, PollInv
<1>2. ASSUME NEW g \in Gens, TaskStep(g) \/ AttemptFails(g) \/ NotifyFails(g)
      PROVE  IndInv'
  BY <1>2, SkipRetractedInv, StartInv, SkipsInv, BeginInv, StepsOnInv, PersistInv,
     AbandonsInv, EndInv DEF TaskStep
<1>3. ASSUME NEW a \in Attempts, NEW p \in Parts, Deliver(a, p) PROVE IndInv'
  BY <1>3, DeliverInv
<1>4. CASE Clear
  BY <1>4, ClearInv
<1>5. CASE Crash
  BY <1>5, CrashInv
<1> QED
  BY <1>1, <1>2, <1>3, <1>4, <1>5, OthersInv DEF Next

THEOREM Invariant == Spec => []IndInv
<1> QED
  BY InitInv, StepInv, PTL DEF Spec

(* Queues, tasks, registry and rows of the reply keep their types. *)
THEOREM TypeCorrect == Spec => []TypeOK
<1>1. IndInv => TypeOK
  BY DEF IndInv
<1> QED
  BY <1>1, Invariant, PTL

-----------------------------------------------------------------------------
(* Visibility *)

(* An attempt that is still drafting has no turn yet. *)
Unstored == \A g \in Gens : task[g].pc \in Drafting => task[g].id \notin turns

VisibleInv == IndInv /\ Unstored /\ WholeReply /\ ClearedIsSilent

(* A step that shows nothing: rows become drafts, or drafts disappear, and the
   only other rows it writes are drafts of an attempt without a turn.  *)
Quiet ==
  /\ gen' = gen /\ turns' = turns
  /\ DOMAIN begun \subseteq DOMAIN begun'
  /\ \A a \in DOMAIN begun : begun'[a] = begun[a]
  /\ \A a \in Attempts, p \in Parts :
       \/ outbox'[a][p] = outbox[a][p]
       \/ outbox[a][p] = "preparing" /\ outbox'[a][p] = "none"
       \/ a \notin turns /\ outbox'[a][p] = "preparing"

LEMMA QuietVisible ==
  ASSUME VisibleInv, IndInv', Quiet
  PROVE  WholeReply' /\ ClearedIsSilent'
<1>1. /\ turns \subseteq DOMAIN begun /\ DOMAIN begun \subseteq Attempts
      /\ DOMAIN begun' \subseteq Attempts
  <2>1. TypeOK /\ Len(begun) <= MaxAttempts /\ TypeOK' /\ Len(begun') <= MaxAttempts
    BY DEF VisibleInv, IndInv, BegunInv
  <2>2. DOMAIN begun' = 1..Len(begun') /\ Len(begun') \in Nat
    BY <2>1 DEF TypeOK
  <2>3. turns \subseteq DOMAIN begun /\ DOMAIN begun \subseteq Attempts
    BY <2>1, BegunType DEF TypeOK
  <2>4. DOMAIN begun' \subseteq Attempts
    BY <2>1, <2>2, ReplyTurnAssumption DEF Attempts
  <2> QED
    BY <2>3, <2>4
<1>2. \A a \in Attempts : Published(a)' \subseteq Published(a)
  BY DEF Quiet, Published
<1>3. \A a \in turns : Published(a)' = Published(a)
  BY <1>1 DEF Quiet, Published
<1>4. ASSUME NEW a \in DOMAIN begun', Branch(a)' = gen'
      PROVE  Published(a)' \in (IF a \in turns' THEN {Reply, Notice} ELSE {{}})
  <2>1. CASE a \in DOMAIN begun
    <3>1. Branch(a) = gen
      BY <1>4, <2>1 DEF Quiet, Branch
    <3>2. Published(a) \in (IF a \in turns THEN {Reply, Notice} ELSE {{}})
      BY <2>1, <3>1 DEF VisibleInv, WholeReply
    <3> QED
      BY <1>1, <1>2, <1>3, <2>1, <3>2 DEF Quiet
  <2>2. CASE a \notin DOMAIN begun
    <3>1. Published(a) = {}
      BY <1>1, <2>2 DEF VisibleInv, IndInv, BegunInv, Published
    <3> QED
      BY <1>1, <1>2, <2>2, <3>1 DEF Quiet
  <2> QED
    BY <2>1, <2>2
<1>5. ASSUME NEW a \in DOMAIN begun', Branch(a)' # gen', NEW p \in Parts
      PROVE  outbox'[a][p] # "pending"
  <2>1. outbox'[a][p] = "pending" => outbox[a][p] = "pending"
    BY <1>1 DEF Quiet
  <2>2. CASE a \in DOMAIN begun
    BY <1>5, <2>1, <2>2 DEF Quiet, Branch, VisibleInv, ClearedIsSilent
  <2>3. CASE a \notin DOMAIN begun
    BY <1>1, <2>1, <2>3 DEF VisibleInv, IndInv, BegunInv
  <2> QED
    BY <2>2, <2>3
<1> QED
  BY <1>4, <1>5 DEF WholeReply, ClearedIsSilent, Branch, Published

(* All steps but three are quiet. *)
Silent ==
  \/ \E m \in Msgs : Poll(m) \/ Retract(m)
  \/ \E g \in Gens :
       \/ SkipRetracted(g) \/ Start(g) \/ SkipAnswered(g) \/ DropDuplicate(g)
       \/ Begin(g) \/ Generate(g) \/ SendPart(g) \/ Notify(g) \/ Abandon(g)
       \/ End(g) \/ AttemptFails(g) \/ NotifyFails(g) \/ Age(g)
  \/ Crash
  \/ Restart
  \/ UNCHANGED vars

LEMMA DraftsQuiet ==
  ASSUME IndInv, NEW m, NEW g, NEW a \in Attempts, NEW p \in Parts
  PROVE  \/ WithoutDraftsOf(m, g)[a][p] = outbox[a][p]
         \/ outbox[a][p] = "preparing" /\ WithoutDraftsOf(m, g)[a][p] = "none"
  BY DEF WithoutDraftsOf

LEMMA SilentQuiet ==
  ASSUME VisibleInv, Silent
  PROVE  Quiet
<1>1. CASE \E m \in Msgs : Poll(m) \/ Retract(m)
  BY <1>1 DEF Poll, Retract, Quiet
<1>2. CASE \E g \in Gens : \/ SkipRetracted(g) \/ Start(g) \/ Generate(g) \/ End(g)
                          \/ AttemptFails(g) \/ NotifyFails(g) \/ Age(g)
  BY <1>2 DEF SkipRetracted, Start, Generate, End, AttemptFails, NotifyFails, Age, Quiet
<1>3. CASE \E g \in Gens : SkipAnswered(g) \/ DropDuplicate(g)
  BY <1>3, DraftsQuiet DEF SkipAnswered, DropDuplicate, Rerouted, Quiet, VisibleInv
<1>4. ASSUME NEW g \in Gens, Begin(g) PROVE Quiet
  <2>1. \E x : begun' = Append(begun, x)
    BY <1>4 DEF Begin
  <2>2. DOMAIN begun \subseteq DOMAIN begun' /\ \A a \in DOMAIN begun : begun'[a] = begun[a]
    <3>1. begun \in Seq([msg : Msgs, gen : Gens])
      BY DEF VisibleInv, IndInv, TypeOK
    <3> QED
      BY <2>1, <3>1
  <2> QED
    BY <1>4, <2>2, DraftsQuiet DEF Begin, Rerouted, Quiet, VisibleInv
<1>5. ASSUME NEW g \in Gens, SendPart(g) \/ Notify(g) PROVE Quiet
  <2>1. task[g].id \notin turns
    BY <1>5 DEF SendPart, Notify, At, Drafting, VisibleInv, Unstored
  <2>2. \E p : outbox' = [outbox EXCEPT ![task[g].id][p] = "preparing"]
    BY <1>5 DEF SendPart, Notify
  <2>3. outbox \in Rows
    BY DEF VisibleInv, IndInv, TypeOK, Rows
  <2>4. \A a \in Attempts, p \in Parts :
          \/ outbox'[a][p] = outbox[a][p]
          \/ a = task[g].id /\ outbox'[a][p] = "preparing"
    BY <2>2, <2>3 DEF Rows
  <2>5. gen' = gen /\ turns' = turns /\ begun' = begun
    BY <1>5 DEF SendPart, Notify
  <2> QED
    BY <2>1, <2>4, <2>5 DEF Quiet
<1>6. ASSUME NEW g \in Gens, Abandon(g) PROVE Quiet
  BY <1>6 DEF Abandon, Quiet, VisibleInv, IndInv, TypeOK
<1>7. CASE Crash \/ Restart \/ UNCHANGED vars
  BY <1>7 DEF Crash, Restart, vars, Quiet
<1> QED
  BY <1>1, <1>2, <1>3, <1>4, <1>5, <1>6, <1>7 DEF Silent

LEMMA SilentUnstored ==
  ASSUME VisibleInv, Silent
  PROVE  Unstored'
<1>1. turns' = turns /\ turns \subseteq DOMAIN begun
  BY SilentQuiet DEF Quiet, VisibleInv, IndInv, TypeOK
<1>2. ASSUME NEW g \in Gens, NEW t, task' = [task EXCEPT ![g] = t],
             t.pc \in Drafting => t.id \notin turns
      PROVE  Unstored'
  BY <1>1, <1>2 DEF VisibleInv, IndInv, TypeOK, Unstored
<1>3. CASE \/ \E m \in Msgs : Poll(m) \/ Retract(m)
           \/ \E g \in Gens : Age(g)
           \/ Restart
           \/ UNCHANGED vars
  BY <1>1, <1>3 DEF Poll, Retract, Age, Restart, vars, VisibleInv, Unstored
<1>4. CASE Crash
  BY <1>4 DEF Crash, Idle, Drafting, Unstored
<1>5. ASSUME NEW g \in Gens, \/ SkipRetracted(g) \/ SkipAnswered(g) \/ DropDuplicate(g)
                            \/ Abandon(g) \/ End(g) \/ NotifyFails(g)
      PROVE  Unstored'
  <2>1. task' = [task EXCEPT ![g] = Idle] /\ Idle.pc = "idle"
    BY <1>5 DEF SkipRetracted, SkipAnswered, DropDuplicate, Abandon, End, NotifyFails,
       Complete, Idle
  <2> QED
    BY <2>1, <1>2 DEF Drafting
<1>6. ASSUME NEW g \in Gens, Start(g) PROVE Unstored'
  BY <1>6, <1>2 DEF Start, Drafting
<1>7. ASSUME NEW g \in Gens, Begin(g) PROVE Unstored'
  <2>1. Len(begun) + 1 \notin turns
    <3>1. DOMAIN begun = 1..Len(begun) /\ Len(begun) \in Nat
      BY DEF VisibleInv, IndInv, TypeOK
    <3> QED
      BY <1>1, <3>1
  <2> QED
    BY <1>7, <1>2, <2>1 DEF Begin
<1>8. ASSUME NEW g \in Gens, Generate(g) \/ SendPart(g) \/ Notify(g) \/ AttemptFails(g)
      PROVE  Unstored'
  <2>1. task[g].pc \in Drafting
    BY <1>8 DEF Generate, SendPart, Notify, AttemptFails, At, Drafting
  <2>2. task[g].id \notin turns
    BY <2>1 DEF VisibleInv, Unstored
  <2>3. \A h \in Gens : task'[h].id = task[h].id /\ (h # g => task'[h] = task[h])
    BY <1>8 DEF Generate, SendPart, Notify, AttemptFails, VisibleInv, IndInv, TypeOK
  <2> QED
    BY <1>1, <2>2, <2>3 DEF VisibleInv, Unstored
<1> QED
  BY <1>3, <1>4, <1>5, <1>6, <1>7, <1>8 DEF Silent

(* The turn is stored and its rows shown in one step. *)
LEMMA PersistVisible ==
  ASSUME VisibleInv, NEW g \in Gens, Persist(g)
  PROVE  Unstored' /\ WholeReply' /\ ClearedIsSilent'
<1>a. PICK a : a = task[g].id
  OBVIOUS
<1>1. /\ a \in Attempts /\ a \in DOMAIN begun /\ a \notin turns /\ Branch(a) = gen
      /\ task[g].pc \in Drafting
  <2>1. task[g].pc \in Drafting
    BY DEF Persist, ReadyToPersist, At, Drafting
  <2> QED
    BY <1>a, <2>1, WorkingType DEF Working, Drafting, Persist, Publishable, VisibleInv,
       Unstored
<1>2. turns' = turns \cup {a} /\ begun' = begun /\ gen' = gen
  BY <1>a DEF Persist
<1>3. Receipts(g) \subseteq Parts /\ Receipts(g) \in {Reply, Notice}
  BY ReplyTurnAssumption DEF Receipts, Reply, Notice, Parts
<1>4. outbox \in Rows
  BY DEF VisibleInv, IndInv, TypeOK, Rows
<1>5. outbox' = [outbox EXCEPT ![a] =
        [p \in Parts |-> IF p \in Receipts(g) /\ outbox[a][p] # "none"
                         THEN "pending" ELSE outbox[a][p]]]
  BY <1>a DEF Persist
<1>6. \A b \in Attempts : b # a => outbox'[b] = outbox[b]
  BY <1>4, <1>5 DEF Rows
<1>7. \A p \in Parts : outbox'[a][p] = IF p \in Receipts(g) THEN "pending" ELSE outbox[a][p]
  <2>1. \A p \in Receipts(g) : outbox[a][p] # "none"
    BY <1>a DEF Persist, Publishable
  <2> QED
    BY <1>1, <1>4, <1>5, <2>1 DEF Rows
<1>8. Published(a) = {}
  BY <1>1 DEF VisibleInv, WholeReply
<1>9. Published(a)' = Receipts(g)
  BY <1>3, <1>7, <1>8 DEF Published
<1>10. Unstored'
  <2>1. \A h \in Gens : h # g => task'[h] = task[h]
    BY DEF Persist, VisibleInv, IndInv, TypeOK
  <2>2. task'[g].pc = "replied"
    BY DEF Persist, VisibleInv, IndInv, TypeOK
  <2>3. \A h \in Gens : h # g /\ task[h].pc \in Drafting => task[h].id # a
    BY <1>a, <1>1 DEF VisibleInv, IndInv, TaskInv, Drafting, Working
  <2> QED
    BY <1>2, <2>1, <2>2, <2>3 DEF VisibleInv, Unstored, Drafting
<1>11. DOMAIN begun \subseteq Attempts
  BY BegunType DEF VisibleInv, IndInv, BegunInv
<1>12. WholeReply'
  <2>1. ASSUME NEW b \in DOMAIN begun, b # a, begun[b].gen = gen
        PROVE  Published(b)' \in (IF b \in turns' THEN {Reply, Notice} ELSE {{}})
    <3>1. Published(b)' = Published(b)
      BY <1>6, <1>11, <2>1 DEF Published
    <3> QED
      BY <1>2, <2>1, <3>1 DEF VisibleInv, WholeReply, Branch
  <2> QED
    BY <1>2, <1>3, <1>9, <2>1 DEF WholeReply, Branch
<1>13. ClearedIsSilent'
  BY <1>1, <1>2, <1>6, <1>11 DEF VisibleInv, ClearedIsSilent, Branch
<1> QED
  BY <1>10, <1>12, <1>13

LEMMA DeliverVisible ==
  ASSUME VisibleInv, NEW a \in Attempts, NEW p \in Parts, Deliver(a, p)
  PROVE  Unstored' /\ WholeReply' /\ ClearedIsSilent'
<1>1. outbox \in Rows /\ DOMAIN begun \subseteq Attempts
  BY BegunType DEF VisibleInv, IndInv, TypeOK, BegunInv, Rows
<1>2. \A b \in Attempts, q \in Parts :
        outbox'[b][q] = IF b = a /\ q = p THEN "sent" ELSE outbox[b][q]
  BY <1>1 DEF Deliver, Rows
<1>3. \A b \in Attempts : Published(b)' = Published(b)
  BY <1>2 DEF Deliver, Published
<1>4. turns' = turns /\ begun' = begun /\ gen' = gen /\ task' = task
  BY DEF Deliver
<1>5. WholeReply'
  BY <1>1, <1>3, <1>4 DEF VisibleInv, WholeReply, Branch
<1> QED
  BY <1>1, <1>2, <1>4, <1>5 DEF VisibleInv, Unstored, ClearedIsSilent, Branch

(* A clear moves all attempts to the past and cancels what they left. *)
LEMMA ClearVisible ==
  ASSUME VisibleInv, Clear
  PROVE  Unstored' /\ WholeReply' /\ ClearedIsSilent'
<1>1. outbox \in Rows /\ DOMAIN begun \subseteq Attempts /\ gen \in Nat
  <2>1. outbox \in Rows /\ gen \in Gens
    BY DEF VisibleInv, IndInv, TypeOK, Rows
  <2>2. DOMAIN begun \subseteq Attempts
    BY BegunType DEF VisibleInv, IndInv, BegunInv
  <2> QED
    BY <2>1, <2>2, ReplyTurnAssumption DEF Gens
<1>2. gen' = gen + 1 /\ begun' = begun /\ turns' \subseteq turns /\ task' = task
  BY DEF Clear
<1>3. \A a \in DOMAIN begun : Branch(a) \in Gens /\ Branch(a) <= gen
  BY BegunType DEF VisibleInv, IndInv, BegunInv
<1>4. \A a \in DOMAIN begun : begun[a].gen # gen + 1
  BY <1>1, <1>3, ReplyTurnAssumption DEF Branch, Gens
<1>5. \A a \in DOMAIN begun, p \in Parts : outbox'[a][p] # "pending"
  <2>1. ASSUME NEW a \in DOMAIN begun, NEW p \in Parts PROVE outbox'[a][p] # "pending"
    <3>1. CASE Branch(a) = gen
      BY <1>1, <3>1 DEF Clear
    <3>2. CASE Branch(a) # gen
      BY <1>1, <3>2 DEF Clear, VisibleInv, ClearedIsSilent
    <3> QED
      BY <3>1, <3>2
  <2> QED
    BY <2>1
<1> QED
  BY <1>2, <1>4, <1>5 DEF VisibleInv, Unstored, WholeReply, ClearedIsSilent, Branch

LEMMA InitVisible == Init => VisibleInv
  BY InitInv DEF Init, VisibleInv, Unstored, WholeReply, ClearedIsSilent, Drafting, Idle

LEMMA StepVisible == VisibleInv /\ [Next]_vars => VisibleInv'
<1> SUFFICES ASSUME VisibleInv, [Next]_vars PROVE VisibleInv'
  OBVIOUS
<1>1. IndInv'
  BY StepInv DEF VisibleInv
<1>2. \/ Silent \/ Clear
      \/ \E g \in Gens : Persist(g)
      \/ \E a \in Attempts, p \in Parts : Deliver(a, p)
  BY DEF Next, TaskStep, Silent
<1> QED
  BY <1>1, <1>2, SilentQuiet, QuietVisible, SilentUnstored, PersistVisible,
     DeliverVisible, ClearVisible DEF VisibleInv

THEOREM Visible == Spec => []VisibleInv
<1> QED
  BY InitVisible, StepVisible, PTL DEF Spec

(* On the live branch a reply is shown as a whole and with its turn, or not at
   all: appendAssistantTurn against discards, failures, clears and crashes.  *)
THEOREM Whole == Spec => []WholeReply
<1>1. VisibleInv => WholeReply
  BY DEF VisibleInv
<1> QED
  BY <1>1, Visible, PTL

(* Nothing of a cleared conversation waits to be sent. *)
THEOREM ClearSilences == Spec => []ClearedIsSilent
<1>1. VisibleInv => ClearedIsSilent
  BY DEF VisibleInv
<1> QED
  BY <1>1, Visible, PTL

-----------------------------------------------------------------------------
(* The registry *)

LEMMA KeptRegistered ==
  ASSUME IndInv, NewestRegistered, gen' = gen, begun' = begun,
         \A g \in Gens : task'[g].pc \in Working =>
           /\ task[g].pc \in Working /\ task'[g].id = task[g].id
           /\ inflight[gen].task = task[g].id => inflight'[gen].task = task[g].id
  PROVE  NewestRegistered'
<1> SUFFICES ASSUME NEW g \in Gens, task'[g].pc \in Working
             PROVE  \/ begun[task[g].id].gen # gen
                    \/ \E b \in DOMAIN begun : b > task[g].id /\ begun[b].gen = gen
                    \/ inflight'[gen].task = task[g].id
  BY DEF NewestRegistered, Branch
<1> QED
  BY DEF NewestRegistered, Branch

LEMMA ClearedKeeps ==
  ASSUME IndInv, NEW g \in Gens, task[g].pc \in Working, NEW h \in Gens, h # g,
         task[h].pc \in Working, inflight' = Cleared(task[g].id),
         inflight[gen].task = task[h].id
  PROVE  inflight'[gen].task = task[h].id
<1>1. task[g].id # task[h].id /\ gen \in Gens
  BY DEF IndInv, TaskInv, TypeOK
<1> QED
  BY <1>1 DEF Cleared

LEMMA BeginRegistered ==
  ASSUME IndInv, NewestRegistered, NEW g \in Gens, Begin(g)
  PROVE  NewestRegistered'
<1>1. PICK m, r, a : /\ m = task[g].msg /\ r = RouteOf(m) /\ a = Len(begun) + 1
  OBVIOUS
<1>2. m \in Msgs /\ r \in Gens /\ gen \in Gens
  BY <1>1, RouteType DEF Begin, At, IndInv, TaskInv, TypeOK
<1>3. /\ begun' = Append(begun, [msg |-> m, gen |-> r])
      /\ inflight' = [inflight EXCEPT ![r] = [task |-> a, fresh |-> TRUE, cancel |-> FALSE]]
      /\ task' = [task EXCEPT ![g] =
                    [pc |-> "generating", msg |-> m, id |-> a, part |-> 0]]
      /\ gen' = gen
  BY <1>1 DEF Begin
<1>4. /\ DOMAIN begun = 1..Len(begun) /\ Len(begun) \in Nat
      /\ DOMAIN begun' = DOMAIN begun \cup {a} /\ begun'[a].gen = r
      /\ \A b \in DOMAIN begun : begun'[b] = begun[b]
      /\ \A b \in DOMAIN begun : a > b
  <2>1. begun \in Seq([msg : Msgs, gen : Gens])
    BY DEF IndInv, TypeOK
  <2>2. r \in Gens /\ [msg |-> m, gen |-> r] \in [msg : Msgs, gen : Gens]
    BY <1>2
  <2> QED
    BY <1>1, <1>3, <2>1, <2>2
<1>5. inflight'[r].task = a /\ \A k \in Gens : k # r => inflight'[k] = inflight[k]
  BY <1>2, <1>3 DEF IndInv, TypeOK
<1>6. task'[g].id = a /\ \A h \in Gens : h # g => task'[h] = task[h]
  BY <1>3 DEF IndInv, TypeOK
<1>7. ASSUME NEW h \in Gens, task'[h].pc \in Working
      PROVE  \/ begun'[task'[h].id].gen # gen
             \/ \E b \in DOMAIN begun' : b > task'[h].id /\ begun'[b].gen = gen
             \/ inflight'[gen].task = task'[h].id
  <2>1. CASE h = g
    BY <1>4, <1>5, <1>6, <2>1
  <2>2. CASE h # g
    <3>1. task[h].pc \in Working /\ task'[h] = task[h] /\ task[h].id \in DOMAIN begun
      BY <1>6, <1>7, <2>2, WorkingType
    <3>2. \/ begun[task[h].id].gen # gen
          \/ \E b \in DOMAIN begun : b > task[h].id /\ begun[b].gen = gen
          \/ inflight[gen].task = task[h].id
      BY <3>1 DEF NewestRegistered, Branch
    <3>3. CASE r = gen
      BY <1>4, <3>1, <3>3
    <3>4. CASE r # gen
      BY <1>2, <1>4, <1>5, <3>1, <3>2, <3>4
    <3> QED
      BY <3>3, <3>4
  <2> QED
    BY <2>1, <2>2
<1> QED
  BY <1>3, <1>7 DEF NewestRegistered, Branch

LEMMA StepRegistered ==
  ASSUME IndInv, IndInv', NewestRegistered, [Next]_vars
  PROVE  NewestRegistered'
<1>1. CASE \/ \E m \in Msgs : Poll(m) \/ Retract(m)
           \/ \E a \in Attempts, p \in Parts : Deliver(a, p)
           \/ Restart \/ UNCHANGED vars
  BY <1>1, KeptRegistered DEF Poll, Retract, Deliver, Restart, vars
<1>2. CASE Crash
  BY <1>2, KeptRegistered DEF Crash, Idle, Working
<1>3. ASSUME NEW g \in Gens, Age(g) PROVE NewestRegistered'
  <2>1. \A h \in Gens : inflight'[h].task = inflight[h].task
    BY <1>3 DEF Age, IndInv, TypeOK
  <2> QED
    BY <1>3, <2>1, KeptRegistered DEF Age, IndInv, TypeOK
<1>4. ASSUME NEW g \in Gens, SkipRetracted(g) \/ Start(g) \/ SkipAnswered(g) \/ DropDuplicate(g)
      PROVE  NewestRegistered'
  <2>1. \A h \in Gens : task'[h].pc \in Working => task'[h] = task[h]
    BY <1>4 DEF SkipRetracted, Start, SkipAnswered, DropDuplicate, Complete, Idle,
       Working, IndInv, TypeOK
  <2> QED
    BY <1>4, <2>1, KeptRegistered DEF SkipRetracted, Start, SkipAnswered, DropDuplicate
<1>5. ASSUME NEW g \in Gens, \/ Generate(g) \/ SendPart(g) \/ Notify(g) \/ Persist(g)
                            \/ AttemptFails(g)
      PROVE  NewestRegistered'
  <2>1. task[g].pc \in Working
    BY <1>5 DEF Generate, SendPart, Notify, Persist, ReadyToPersist, AttemptFails, At, Working
  <2>2. \A h \in Gens : task'[h].id = task[h].id /\ (h # g => task'[h] = task[h])
    <3>1. CASE Generate(g)
      BY <3>1 DEF Generate, IndInv, TypeOK
    <3>2. CASE SendPart(g)
      BY <3>2 DEF SendPart, IndInv, TypeOK
    <3>3. CASE Notify(g)
      BY <3>3 DEF Notify, IndInv, TypeOK
    <3>4. CASE Persist(g)
      BY <3>4 DEF Persist, IndInv, TypeOK
    <3>5. CASE AttemptFails(g)
      BY <3>5 DEF AttemptFails, IndInv, TypeOK
    <3> QED
      BY <1>5, <3>1, <3>2, <3>3, <3>4, <3>5
  <2>3. gen' = gen /\ begun' = begun /\ inflight' = inflight
    BY <1>5 DEF Generate, SendPart, Notify, Persist, AttemptFails
  <2> QED
    BY <2>1, <2>2, <2>3, KeptRegistered
<1>6. ASSUME NEW g \in Gens, Abandon(g) \/ End(g) \/ NotifyFails(g)
      PROVE  NewestRegistered'
  <2>1. task[g].pc \in Working /\ inflight' = Cleared(task[g].id)
    BY <1>6 DEF Abandon, End, NotifyFails, ReadyToPersist, At, Working
  <2>2. task' = [task EXCEPT ![g] = Idle] /\ gen' = gen /\ begun' = begun
    BY <1>6 DEF Abandon, End, NotifyFails, Complete
  <2>3. \A h \in Gens : task'[h].pc \in Working => h # g /\ task'[h] = task[h]
    BY <2>2 DEF Idle, Working, IndInv, TypeOK
  <2> QED
    BY <2>1, <2>2, <2>3, ClearedKeeps, KeptRegistered
<1>7. CASE Clear
  <2>1. gen' = gen + 1 /\ begun' = begun /\ task' = task /\ gen \in Nat
    BY <1>7, ReplyTurnAssumption DEF Clear, IndInv, TypeOK, Gens
  <2>2. \A a \in DOMAIN begun : begun[a].gen # gen + 1
    <3>1. \A a \in DOMAIN begun : begun[a].gen \in Gens /\ begun[a].gen <= gen
      BY BegunType DEF IndInv, BegunInv, Branch
    <3> QED
      BY <2>1, <3>1, ReplyTurnAssumption DEF Gens
  <2> QED
    BY <2>1, <2>2, WorkingType DEF NewestRegistered, Branch
<1> QED
  BY <1>1, <1>2, <1>3, <1>4, <1>5, <1>6, <1>7, BeginRegistered DEF Next, TaskStep

(* The newest attempt on the live branch is in the registry while it works. *)
THEOREM Registered == Spec => []NewestRegistered
<1>1. Init => NewestRegistered
  BY DEF Init, NewestRegistered, Idle, Working
<1> QED
  BY <1>1, InitInv, StepInv, StepRegistered, PTL DEF Spec

-----------------------------------------------------------------------------
(* One reply *)

(* Until the first clear only the first key is used, a message has one turn at
   most, and none while an attempt at it is drafting.  *)
FirstKeyOnly == \A g \in Gens \ {1} : queue[g] = <<>> /\ task[g].pc = "idle"
OneTurn == \A a, b \in turns : begun[a].msg = begun[b].msg => a = b
NoTurnYet == task[1].pc \in Drafting => \A b \in turns : begun[b].msg # task[1].msg

SoleInv == gen = 1 => FirstKeyOnly /\ OneTurn /\ NoTurnYet

LEMMA FirstRoute ==
  ASSUME TypeOK, gen = 1, NEW m \in Msgs
  PROVE  RouteOf(m) = 1
  BY RouteType

LEMMA StepFirstKey ==
  ASSUME IndInv, gen = 1, gen' = 1, FirstKeyOnly, [Next]_vars
  PROVE  FirstKeyOnly'
<1>1. CASE \E m \in Msgs : Poll(m)
  <2>1. PICK m \in Msgs : Poll(m)
    BY <1>1
  <2>2. RouteOf(m) = 1
    BY FirstRoute DEF IndInv
  <2>3. task' = task /\ queue' = [queue EXCEPT ![1] = Append(@, m)]
    BY <2>1, <2>2 DEF Poll
  <2> QED
    BY <2>3 DEF IndInv, TypeOK, FirstKeyOnly
<1>2. ASSUME NEW g \in Gens, TaskStep(g) \/ AttemptFails(g) \/ NotifyFails(g)
      PROVE  FirstKeyOnly'
  <2>1. queue[g] # <<>> \/ task[g].pc # "idle"
    BY <1>2 DEF TaskStep, SkipRetracted, Start, SkipAnswered, DropDuplicate, Begin,
       Generate, SendPart, Notify, Persist, Abandon, ReadyToPersist, End, AttemptFails,
       NotifyFails, At
  <2>2. g = 1
    BY <2>1 DEF FirstKeyOnly
  <2>3. \A h \in Gens : h # g => task'[h] = task[h] /\ queue'[h] = queue[h]
    BY <1>2 DEF TaskStep, SkipRetracted, Start, SkipAnswered, DropDuplicate, Begin,
       Generate, SendPart, Notify, Persist, Abandon, End, AttemptFails, NotifyFails,
       Complete, IndInv, TypeOK
  <2> QED
    BY <2>2, <2>3 DEF FirstKeyOnly
<1>3. CASE Crash
  BY <1>3 DEF Crash, Idle, FirstKeyOnly
<1>4. CASE Clear
  BY <1>4 DEF Clear
<1>5. CASE \/ \E m \in Msgs : Retract(m)
           \/ \E g \in Gens : Age(g)
           \/ \E a \in Attempts, p \in Parts : Deliver(a, p)
           \/ Restart \/ UNCHANGED vars
  BY <1>5 DEF Retract, Age, Deliver, Restart, vars, FirstKeyOnly
<1> QED
  BY <1>1, <1>2, <1>3, <1>4, <1>5 DEF Next

(* The look at the stored turns in Begin keeps a message from a second one. *)
LEMMA BeginNoTurn ==
  ASSUME VisibleInv, gen = 1, FirstKeyOnly, NEW g \in Gens, Begin(g)
  PROVE  NoTurnYet'
<1>1. g = 1 /\ task[g].msg \in Msgs
  BY DEF Begin, At, FirstKeyOnly, VisibleInv, IndInv, TaskInv
<1>2. RouteOf(task[g].msg) = 1
  BY <1>1, FirstRoute DEF VisibleInv, IndInv
<1>3. AttemptsAt(task[g].msg, 1) \cap turns = {}
  BY <1>2 DEF Begin, HasReply
<1>4. \A b \in turns : b \in DOMAIN begun /\ begun[b].gen = 1
  <2>1. \A b \in turns : b \in DOMAIN begun
    BY DEF VisibleInv, IndInv, TypeOK
  <2>2. \A b \in DOMAIN begun : begun[b].gen \in Gens /\ begun[b].gen <= gen
    BY BegunType DEF VisibleInv, IndInv, BegunInv, Branch
  <2> QED
    BY <2>1, <2>2, ReplyTurnAssumption DEF Gens
<1>5. turns' = turns /\ \A b \in turns : begun'[b] = begun[b]
  BY <1>4, SilentQuiet DEF Silent, Quiet
<1>6. task'[1].msg = task[1].msg
  BY <1>1 DEF Begin, VisibleInv, IndInv, TypeOK
<1> QED
  BY <1>1, <1>3, <1>4, <1>5, <1>6 DEF NoTurnYet, AttemptsAt

LEMMA SilentSole ==
  ASSUME VisibleInv, gen = 1, FirstKeyOnly, OneTurn, NoTurnYet, Silent
  PROVE  OneTurn' /\ NoTurnYet'
<1>1. turns' = turns /\ \A b \in turns : begun'[b] = begun[b]
  BY SilentQuiet DEF Quiet, VisibleInv, IndInv, TypeOK
<1>2. OneTurn'
  BY <1>1 DEF OneTurn
<1>3. ASSUME task'[1].pc \in Drafting => task[1].pc \in Drafting /\ task'[1].msg = task[1].msg
      PROVE  NoTurnYet'
  BY <1>1, <1>3 DEF NoTurnYet
<1>4. 1 \in Gens /\ task \in Tasks
  BY ReplyTurnAssumption DEF Gens, VisibleInv, IndInv, TypeOK, Tasks
<1>5. CASE \/ \E m \in Msgs : Poll(m) \/ Retract(m)
           \/ \E g \in Gens : Age(g)
           \/ Restart \/ UNCHANGED vars
  <2>1. task' = task
    BY <1>5 DEF Poll, Retract, Age, Restart, vars
  <2> QED
    BY <2>1, <1>2, <1>3
<1>6. CASE Crash
  <2>1. task'[1].pc = "idle"
    BY <1>4, <1>6 DEF Crash, Idle
  <2> QED
    BY <2>1, <1>2, <1>3 DEF Drafting
<1>7. ASSUME NEW g \in Gens, \/ SkipRetracted(g) \/ Start(g) \/ SkipAnswered(g)
                            \/ DropDuplicate(g) \/ Abandon(g) \/ End(g) \/ NotifyFails(g)
      PROVE  NoTurnYet'
  <2>1. task'[1] = task[1] \/ task'[1].pc \in {"idle", "deciding"}
    BY <1>4, <1>7 DEF SkipRetracted, Start, SkipAnswered, DropDuplicate, Abandon, End,
       NotifyFails, Complete, Idle, Tasks
  <2> QED
    BY <2>1, <1>3 DEF Drafting
<1>8. ASSUME NEW g \in Gens, Generate(g) \/ SendPart(g) \/ Notify(g) \/ AttemptFails(g)
      PROVE  NoTurnYet'
  <2>1. task[g].pc \in Drafting
    BY <1>8 DEF Generate, SendPart, Notify, AttemptFails, At, Drafting
  <2>2. task'[g].msg = task[g].msg /\ \A h \in Gens : h # g => task'[h] = task[h]
    BY <1>4, <1>8 DEF Generate, SendPart, Notify, AttemptFails, Tasks
  <2> QED
    BY <2>1, <2>2, <1>3, <1>4
<1> QED
  BY <1>2, <1>5, <1>6, <1>7, <1>8, BeginNoTurn DEF Silent

LEMMA PersistSole ==
  ASSUME VisibleInv, gen = 1, FirstKeyOnly, OneTurn, NoTurnYet, NEW g \in Gens, Persist(g)
  PROVE  OneTurn' /\ NoTurnYet'
<1>1. g = 1 /\ task[g].pc \in Drafting
  BY DEF Persist, ReadyToPersist, At, Drafting, FirstKeyOnly
<1>2. begun[task[1].id].msg = task[1].msg
  BY <1>1, WorkingType DEF Drafting, Working, VisibleInv
<1>3. turns' = turns \cup {task[1].id} /\ begun' = begun
  BY <1>1 DEF Persist
<1>4. \A b \in turns : begun[b].msg # task[1].msg
  BY <1>1 DEF NoTurnYet
<1>5. task'[1].pc = "replied"
  BY <1>1 DEF Persist, VisibleInv, IndInv, TypeOK
<1> QED
  BY <1>2, <1>3, <1>4, <1>5 DEF OneTurn, NoTurnYet, Drafting

LEMMA StepSole ==
  ASSUME VisibleInv, SoleInv, [Next]_vars
  PROVE  SoleInv'
<1> SUFFICES ASSUME gen' = 1 PROVE (FirstKeyOnly /\ OneTurn /\ NoTurnYet)'
  BY DEF SoleInv
<1>1. \/ Silent \/ Clear
      \/ \E g \in Gens : Persist(g)
      \/ \E a \in Attempts, p \in Parts : Deliver(a, p)
  BY DEF Next, TaskStep, Silent
<1>2. ~Clear /\ gen = 1
  <2>1. ~Clear
    BY ReplyTurnAssumption DEF Clear, VisibleInv, IndInv, TypeOK, Gens
  <2> QED
    BY <1>1, <2>1, SilentQuiet DEF Quiet, Persist, Deliver
<1>3. FirstKeyOnly /\ OneTurn /\ NoTurnYet
  BY <1>2 DEF SoleInv
<1>4. FirstKeyOnly'
  BY <1>2, <1>3, StepFirstKey DEF VisibleInv
<1>5. CASE \E a \in Attempts, p \in Parts : Deliver(a, p)
  BY <1>3, <1>4, <1>5 DEF Deliver, OneTurn, NoTurnYet
<1> QED
  BY <1>1, <1>2, <1>3, <1>4, <1>5, SilentSole, PersistSole

LEMMA SoleGivesOneReply == VisibleInv /\ SoleInv => OneReply
<1> SUFFICES ASSUME VisibleInv, SoleInv, gen = 1, NEW m \in Msgs, NEW g \in Gens
             PROVE  Cardinality({a \in AttemptsAt(m, g) : Published(a) # {}}) <= 1
  BY DEF OneReply
<1> DEFINE S == {a \in AttemptsAt(m, g) : Published(a) # {}}
<1>1. \A b \in DOMAIN begun : begun[b].gen = 1
  <2>1. \A b \in DOMAIN begun : begun[b].gen \in Gens /\ begun[b].gen <= gen
    BY BegunType DEF VisibleInv, IndInv, BegunInv, Branch
  <2> QED
    BY <2>1, ReplyTurnAssumption DEF Gens
<1>2. S \subseteq turns
  BY <1>1 DEF AttemptsAt, VisibleInv, WholeReply, Branch
<1>3. \A a, b \in S : a = b
  BY <1>2 DEF AttemptsAt, SoleInv, OneTurn
<1>4. S = {} \/ \E a : S = {a}
  BY <1>3
<1> HIDE DEF S
<1>5. Cardinality(S) \in {0, 1}
  BY <1>4, FS_EmptySet, FS_Singleton
<1>6. Cardinality(S) <= 1
  BY <1>5
<1> QED
  BY <1>6 DEF S

(* Before anybody clears the conversation, a message gets one reply, however
   often its attempt fails, the worker crashes or the message is polled.  *)
THEOREM Once == Spec => []OneReply
<1>1. Init => SoleInv
  BY DEF Init, SoleInv, FirstKeyOnly, OneTurn, NoTurnYet, Idle, Drafting
<1> QED
  BY <1>1, InitVisible, StepVisible, StepSole, SoleGivesOneReply, PTL DEF Spec

=============================================================================
