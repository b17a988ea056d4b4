------------------------------ MODULE ReplyTurn ------------------------------
(***************************************************************************)
(* One conversation of one user, from the poll of a message to the reply:  *)
(* handleMessage of the worker, the in-flight registry, the causal branch  *)
(* the reply belongs to and the outbox drafts it is made of.               *)
(*                                                                         *)
(* The user's messages are routed to one causal branch.  #clear deletes    *)
(* the branch with all that belongs to it; the next message opens another. *)
(* Generation g is the branch that exists after g - 1 clears, and also     *)
(* names the consumer key and the registry key `group:branch' made of it.  *)
(* The consumer key under which a message was queued and the generation    *)
(* its handler works on may differ: the handler reads the route again.     *)
(*                                                                         *)
(* A task that gets as far as begin() is an attempt, numbered in order.    *)
(* Rows of the outbox are those of an attempt: 1..NParts are the messages  *)
(* of its reply, 0 is the failure notice sent in its place.                *)
(*                                                                         *)
(* The worker is one thread: a step is what runs between two awaits.       *)
(* Order and back-off inside a key are Consumer.tla, delivery of published *)
(* rows is Outbox.tla.                                                     *)
(***************************************************************************)
EXTENDS Integers, Sequences, FiniteSets

CONSTANTS
  NMsgs,        \* messages of the user
  NParts,       \* messages a reply is split into
  MaxClears,    \* #clear commands (bound)
  MaxCrashes,   \* crashes of the worker (bound)
  MaxFaults,    \* model, send and database failures (bound)
  MaxAttempts,  \* attempts ever begun (bound)
  Short         \* messages decideNewMessage takes for a correction or addition

Msgs == 1..NMsgs
Gens == 1..(MaxClears + 1)
Attempts == 1..MaxAttempts
Parts == 0..NParts
Reply == 1..NParts
Notice == {0}

ASSUME ReplyTurnAssumption ==
  /\ NMsgs \in Nat /\ NParts \in Nat \ {0} /\ MaxAttempts \in Nat
  /\ MaxClears \in Nat /\ MaxCrashes \in Nat /\ MaxFaults \in Nat
  /\ Short \subseteq Msgs

VARIABLES
  up,          \* the worker process is running
  gen,         \* the generation of the live branch
  route,       \* conversation_message_routes: branch of a message, 0 for none
  queue,       \* ConsumerRunner: queue of each key
  task,        \* ConsumerRunner and handleMessage: what each key is doing
  done,        \* messages completed for the consumer
  retracted,   \* messages the user has recalled
  inflight,    \* in-flight registry, task 0 for no row
  begun,       \* message and generation of every attempt (history)
  outbox,      \* status of each row, "none" before insert and after delete
  turns,       \* attempts whose assistant turn is stored
  answered,    \* messages that ever got an assistant turn (history)
  crashes,
  faults

vars == <<up, gen, route, queue, task, done, retracted, inflight, begun,
          outbox, turns, answered, crashes, faults>>

Idle == [pc |-> "idle", msg |-> 0, id |-> 0, part |-> 0]
NoRow == [task |-> 0, fresh |-> FALSE, cancel |-> FALSE]

Init == /\ up = TRUE
        /\ gen = 1
        /\ route = [m \in Msgs |-> 0]
        /\ queue = [g \in Gens |-> <<>>]
        /\ task = [g \in Gens |-> Idle]
        /\ done = {}
        /\ retracted = {}
        /\ inflight = [g \in Gens |-> NoRow]
        /\ begun = <<>>
        /\ outbox = [a \in Attempts |-> [p \in Parts |-> "none"]]
        /\ turns = {}
        /\ answered = {}
        /\ crashes = 0
        /\ faults = 0

-----------------------------------------------------------------------------
(* Helpers *)

InQueue(m, g) == \E i \in DOMAIN queue[g] : queue[g][i] = m

(* resolveRoute: the stored route, or a new one to the live branch. *)
RouteOf(m) == IF route[m] = 0 THEN gen ELSE route[m]

Branch(a) == begun[a].gen

(* The attempts at a message on a branch. *)
AttemptsAt(m, g) ==
  {a \in DOMAIN begun : begun[a].msg = m /\ begun[a].gen = g}

(* Mutant: a recovered message is not looked up. *)
HasReplyNever(m, g) == m \notin Msgs

(* hasAssistantReplyForTurn *)
HasReply(m, g) == AttemptsAt(m, g) \cap turns # {}

(* discardPreparingOutboxForSource *)
WithoutDraftsOf(m, g) ==
  [a \in Attempts |->
     IF a \in AttemptsAt(m, g)
     THEN [p \in Parts |-> IF outbox[a][p] = "preparing" THEN "none" ELSE outbox[a][p]]
     ELSE outbox[a]]

(* decideNewMessage drops what is neither late nor a correction. *)
Drops(m, g) == inflight[g].task # 0 /\ inflight[g].fresh /\ m \notin Short

(* clearInflight with a task id. *)
Cleared(a) ==
  [g \in Gens |-> IF g = Branch(a) /\ inflight[g].task = a THEN NoRow ELSE inflight[g]]

(* done(): off the queue and complete. *)
Complete(g, m) ==
  /\ queue' = [queue EXCEPT ![g] = IF @ # <<>> /\ Head(@) = m THEN Tail(@) ELSE @]
  /\ done' = done \cup {m}
  /\ task' = [task EXCEPT ![g] = Idle]

At(g, pc) == up /\ task[g].pc = pc

(* What the attempt of key g has handed to the transport. *)
Receipts(g) == IF task[g].pc = "notified" THEN Notice ELSE Reply

-----------------------------------------------------------------------------
(* ConsumerRunner and the head of handleMessage *)

(* poll: keyOf stores the route, the row joins the queue of its key. *)
Poll(m) ==
  LET g == RouteOf(m) IN
  /\ up
  /\ m \notin done
  /\ \A n \in Msgs : n < m => n \in done \/ \E k \in Gens : InQueue(n, k)
  /\ ~InQueue(m, g)
  /\ route' = [route EXCEPT ![m] = g]
  /\ queue' = [queue EXCEPT ![g] = Append(@, m)]
  /\ UNCHANGED <<up, gen, task, done, retracted, inflight, begun, outbox,
                 turns, answered, crashes, faults>>

(* A retracted message ends before any side effect. *)
SkipRetracted(g) ==
  /\ At(g, "idle")
  /\ queue[g] # <<>>
  /\ Head(queue[g]) \in retracted
  /\ Complete(g, Head(queue[g]))
  /\ UNCHANGED <<up, gen, route, retracted, inflight, begun, outbox, turns,
                 answered, crashes, faults>>

(* The handler starts and awaits the kind of the message. *)
Start(g) ==
  /\ At(g, "idle")
  /\ queue[g] # <<>>
  /\ Head(queue[g]) \notin retracted
  /\ task' = [task EXCEPT ![g] =
       [pc |-> "deciding", msg |-> Head(queue[g]), id |-> 0, part |-> 0]]
  /\ UNCHANGED <<up, gen, route, queue, done, retracted, inflight, begun,
                 outbox, turns, answered, crashes, faults>>

-----------------------------------------------------------------------------
(* The synchronous middle of handleMessage: route, drafts, reply, registry *)

(* The route is read again and the drafts of earlier attempts are deleted. *)
Rerouted(m) ==
  /\ route' = [route EXCEPT ![m] = RouteOf(m)]
  /\ outbox' = WithoutDraftsOf(m, RouteOf(m))

SkipAnswered(g) ==
  LET m == task[g].msg IN
  /\ At(g, "deciding")
  /\ HasReply(m, RouteOf(m))
  /\ Rerouted(m)
  /\ Complete(g, m)
  /\ UNCHANGED <<up, gen, retracted, inflight, begun, turns, answered,
                 crashes, faults>>

DropDuplicate(g) ==
  LET m == task[g].msg IN
  /\ At(g, "deciding")
  /\ ~HasReply(m, RouteOf(m))
  /\ Drops(m, RouteOf(m))
  /\ Rerouted(m)
  /\ Complete(g, m)
  /\ UNCHANGED <<up, gen, retracted, inflight, begun, turns, answered,
                 crashes, faults>>

(* requestCancel, if decideNewMessage calls it, is undone by begin in the
   same run: INSERT OR REPLACE writes a row that asks for no cancel. *)
Begin(g) ==
  LET m == task[g].msg
      r == RouteOf(m)
      a == Len(begun) + 1 IN
  /\ At(g, "deciding")
  /\ ~HasReply(m, r)
  /\ ~Drops(m, r)
  /\ a \in Attempts
  /\ Rerouted(m)
  /\ begun' = Append(begun, [msg |-> m, gen |-> r])
  /\ inflight' = [inflight EXCEPT ![r] = [task |-> a, fresh |-> TRUE, cancel |-> FALSE]]
  /\ task' = [task EXCEPT ![g] =
       [pc |-> "generating", msg |-> m, id |-> a, part |-> 0]]
  /\ UNCHANGED <<up, gen, queue, done, retracted, turns, answered, crashes, faults>>

-----------------------------------------------------------------------------
(* handleConversation of the attempt *)

Generate(g) ==
  /\ At(g, "generating")
  /\ task' = [task EXCEPT ![g].pc = "sending"]
  /\ UNCHANGED <<up, gen, route, queue, done, retracted, inflight, begun,
                 outbox, turns, answered, crashes, faults>>

(* enqueueOutbox of the next message of the reply, as a draft. *)
SendPart(g) ==
  LET p == task[g].part + 1 IN
  /\ At(g, "sending")
  /\ p \in Reply
  /\ outbox' = [outbox EXCEPT ![task[g].id][p] = "preparing"]
  /\ task' = [task EXCEPT ![g].part = p]
  /\ UNCHANGED <<up, gen, route, queue, done, retracted, inflight, begun,
                 turns, answered, crashes, faults>>

(* The model or a send fails: a cancelled attempt falls silent, any other
   goes on to a failure notice and leaves its drafts behind. *)
AttemptFails(g) ==
  /\ At(g, "generating") \/ (At(g, "sending") /\ task[g].part < NParts)
  /\ faults < MaxFaults
  /\ faults' = faults + 1
  /\ task' = [task EXCEPT ![g].pc =
                IF inflight[Branch(task[g].id)].cancel THEN "replied" ELSE "failing"]
  /\ UNCHANGED <<up, gen, route, queue, done, retracted, inflight, begun,
                 outbox, turns, answered, crashes>>

Notify(g) ==
  /\ At(g, "failing")
  /\ outbox' = [outbox EXCEPT ![task[g].id][0] = "preparing"]
  /\ task' = [task EXCEPT ![g].pc = "notified"]
  /\ UNCHANGED <<up, gen, route, queue, done, retracted, inflight, begun,
                 turns, answered, crashes, faults>>

(* The handler has something to persist. *)
ReadyToPersist(g) ==
  At(g, "notified") \/ (At(g, "sending") /\ task[g].part = NParts)

(* Mutant: a missing row is passed over. *)
PublishableSome(a, ps) ==
  Branch(a) = gen /\ \E p \in ps : outbox[a][p] \in {"preparing", "pending"}

(* What appendAssistantTurn requires: the branch, and rows to publish. *)
Publishable(a, ps) ==
  /\ Branch(a) = gen
  /\ \A p \in ps : outbox[a][p] \in {"preparing", "pending"}

(* appendAssistantTurn: the turn and all of its rows, in one transaction. *)
Persist(g) ==
  LET a == task[g].id IN
  /\ ReadyToPersist(g)
  /\ Publishable(a, Receipts(g))
  /\ outbox' = [outbox EXCEPT ![a] =
       [p \in Parts |-> IF p \in Receipts(g) /\ @[p] # "none" THEN "pending" ELSE @[p]]]
  /\ turns' = turns \cup {a}
  /\ answered' = answered \cup {begun[a].msg}
  /\ task' = [task EXCEPT ![g].pc = "replied"]
  /\ UNCHANGED <<up, gen, route, queue, done, retracted, inflight, begun,
                 crashes, faults>>

(* Mutant: a reply that was not stored is complete all the same. *)
AbandonForGood(g) ==
  LET a == task[g].id IN
  /\ ReadyToPersist(g)
  /\ \/ ~Publishable(a, Receipts(g)) /\ UNCHANGED faults
     \/ faults < MaxFaults /\ faults' = faults + 1
  /\ outbox' = [outbox EXCEPT ![a] =
       [p \in Parts |-> IF p \in Receipts(g) /\ @[p] = "preparing" THEN "none" ELSE @[p]]]
  /\ inflight' = Cleared(a)
  /\ Complete(g, task[g].msg)
  /\ UNCHANGED <<up, gen, route, retracted, begun, turns, answered,
                 crashes>>

(* The turn cannot be stored, or the database fails: the receipts are
   discarded and the error leaves the message at the head of its queue. *)
Abandon(g) ==
  LET a == task[g].id IN
  /\ ReadyToPersist(g)
  /\ \/ ~Publishable(a, Receipts(g)) /\ UNCHANGED faults
     \/ faults < MaxFaults /\ faults' = faults + 1
  /\ outbox' = [outbox EXCEPT ![a] =
       [p \in Parts |-> IF p \in Receipts(g) /\ @[p] = "preparing" THEN "none" ELSE @[p]]]
  /\ inflight' = Cleared(a)
  /\ task' = [task EXCEPT ![g] = Idle]
  /\ UNCHANGED <<up, gen, route, queue, done, retracted, begun, turns,
                 answered, crashes>>

(* The failure notice itself cannot be sent: as if the handler threw. *)
NotifyFails(g) ==
  /\ At(g, "failing")
  /\ faults < MaxFaults
  /\ faults' = faults + 1
  /\ inflight' = Cleared(task[g].id)
  /\ task' = [task EXCEPT ![g] = Idle]
  /\ UNCHANGED <<up, gen, route, queue, done, retracted, begun, outbox, turns,
                 answered, crashes>>

(* The `finally' of handleMessage, after the handler has returned. *)
End(g) ==
  /\ At(g, "replied")
  /\ inflight' = Cleared(task[g].id)
  /\ Complete(g, task[g].msg)
  /\ UNCHANGED <<up, gen, route, retracted, begun, outbox, turns, answered,
                 crashes, faults>>

-----------------------------------------------------------------------------
(* The rest of the system *)

(* Mutant: the rows of the branch are left in the outbox. *)
ClearKeepsRows ==
  /\ up
  /\ gen <= MaxClears
  /\ gen' = gen + 1
  /\ route' = [m \in Msgs |-> 0]
  /\ inflight' = [inflight EXCEPT ![gen] = NoRow]
  /\ turns' = {a \in turns : Branch(a) # gen}
  /\ UNCHANGED <<up, queue, task, done, retracted, begun, outbox, answered,
                 crashes, faults>>

(* clearUser, clearGroup: another key of the worker runs the command. *)
Clear ==
  /\ up
  /\ gen <= MaxClears
  /\ gen' = gen + 1
  /\ route' = [m \in Msgs |-> 0]
  /\ inflight' = [inflight EXCEPT ![gen] = NoRow]
  /\ turns' = {a \in turns : Branch(a) # gen}
  /\ outbox' = [a \in Attempts |->
       IF a \in DOMAIN begun /\ Branch(a) = gen
       THEN [p \in Parts |->
               IF outbox[a][p] \in {"none", "sent"} THEN outbox[a][p] ELSE "cancelled"]
       ELSE outbox[a]]
  /\ UNCHANGED <<up, queue, task, done, retracted, begun, answered,
                 crashes, faults>>

(* The emitter delivers a published row (Outbox.tla). *)
Deliver(a, p) ==
  /\ outbox[a][p] = "pending"
  /\ outbox' = [outbox EXCEPT ![a][p] = "sent"]
  /\ UNCHANGED <<up, gen, route, queue, task, done, retracted, inflight, begun,
                 turns, answered, crashes, faults>>

(* handleRecall of the ingress process. *)
Retract(m) ==
  /\ m \notin retracted
  /\ retracted' = retracted \cup {m}
  /\ UNCHANGED <<up, gen, route, queue, task, done, inflight, begun, outbox,
                 turns, answered, crashes, faults>>

(* cancelAfterMs (20 s) pass. *)
Age(g) ==
  /\ inflight[g].fresh
  /\ inflight' = [inflight EXCEPT ![g].fresh = FALSE]
  /\ UNCHANGED <<up, gen, route, queue, task, done, retracted, begun, outbox,
                 turns, answered, crashes, faults>>

(* Queues and tasks are memory, the rest is the database. *)
Crash ==
  /\ up
  /\ crashes < MaxCrashes
  /\ up' = FALSE
  /\ crashes' = crashes + 1
  /\ queue' = [g \in Gens |-> <<>>]
  /\ task' = [g \in Gens |-> Idle]
  /\ UNCHANGED <<gen, route, done, retracted, inflight, begun, outbox, turns,
                 answered, faults>>

Restart ==
  /\ ~up
  /\ up' = TRUE
  /\ UNCHANGED <<gen, route, queue, task, done, retracted, inflight, begun,
                 outbox, turns, answered, crashes, faults>>

TaskStep(g) ==
  \/ SkipRetracted(g) \/ Start(g) \/ SkipAnswered(g) \/ DropDuplicate(g)
  \/ Begin(g) \/ Generate(g) \/ SendPart(g) \/ Notify(g) \/ Persist(g)
  \/ Abandon(g) \/ End(g)

Next ==
  \/ \E m \in Msgs : Poll(m) \/ Retract(m)
  \/ \E g \in Gens : TaskStep(g) \/ AttemptFails(g) \/ NotifyFails(g) \/ Age(g)
  \/ \E a \in Attempts, p \in Parts : Deliver(a, p)
  \/ Clear
  \/ Crash
  \/ Restart

Spec == Init /\ [][Next]_vars

(* The timers of the runner keep polling and dispatching, every await of a
   handler is bounded by a timeout, and the service is restarted.  *)
FairSpec ==
  /\ Spec
  /\ \A m \in Msgs : WF_vars(Poll(m))
  /\ \A g \in Gens : WF_vars(TaskStep(g))
  /\ WF_vars(Restart)

-----------------------------------------------------------------------------
(* Properties *)

Working == {"generating", "sending", "failing", "notified", "replied"}

TypeOK ==
  /\ up \in BOOLEAN
  /\ gen \in Gens
  /\ route \in [Msgs -> 0..gen]
  /\ queue \in [Gens -> Seq(Msgs)]
  /\ task \in [Gens -> [pc : {"idle", "deciding"} \cup Working,
                        msg : {0} \cup Msgs, id : {0} \cup Attempts, part : Parts]]
  /\ done \subseteq Msgs
  /\ retracted \subseteq Msgs
  /\ inflight \in [Gens -> [task : {0} \cup Attempts, fresh : BOOLEAN, cancel : BOOLEAN]]
  /\ begun \in Seq([msg : Msgs, gen : Gens])
  /\ outbox \in [Attempts -> [Parts -> {"none", "preparing", "pending", "sent", "cancelled"}]]
  /\ turns \subseteq DOMAIN begun
  /\ answered \subseteq Msgs
  /\ crashes \in 0..MaxCrashes
  /\ faults \in 0..MaxFaults

Published(a) == {p \in Parts : outbox[a][p] \in {"pending", "sent"}}

(* A reply becomes visible as a whole or not at all: on the live branch an
   attempt shows all messages of its reply, or the failure notice alone, and
   then its turn is in the history; otherwise it shows nothing. *)
WholeReply ==
  \A a \in DOMAIN begun : Branch(a) = gen =>
    Published(a) \in (IF a \in turns THEN {Reply, Notice} ELSE {{}})

(* After #clear nothing of the cleared conversation is waiting to be sent,
   whatever its tasks still do. *)
ClearedIsSilent ==
  \A a \in DOMAIN begun : Branch(a) # gen =>
    \A p \in Parts : outbox[a][p] # "pending"

(* The newest attempt on a live branch is in the registry while it works,
   whichever older attempts on the branch end meanwhile. *)
NewestRegistered ==
  \A g \in Gens : task[g].pc \in Working =>
    LET a == task[g].id IN
    \/ Branch(a) # gen
    \/ \E b \in DOMAIN begun : b > a /\ Branch(b) = gen
    \/ inflight[gen].task = a

(* A message gets one reply on a branch, whatever crashes and retries, as long
   as nobody clears the conversation. *)
OneReply ==
  gen = 1 => \A m \in Msgs, g \in Gens :
    Cardinality({a \in AttemptsAt(m, g) : Published(a) # {}}) <= 1

(* A message is not acknowledged before its reply is stored or the user has
   recalled it: what consumer-runner.ts says of a message whose task died with
   the process. *)
DoneIsAnswered == done \subseteq answered \cup retracted

(* Whatever fails, a message is answered in the end or has been recalled,
   unless the worker crashes or somebody clears the conversation. *)
Undisturbed == crashes = 0 /\ gen = 1
EventuallyAnswered ==
  []Undisturbed => \A m \in Msgs : <>(m \in answered \cup retracted)
=============================================================================
