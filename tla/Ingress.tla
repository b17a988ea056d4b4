------------------------------- MODULE Ingress -------------------------------
(***************************************************************************)
(* The ingress process between NapCat and the shared database: the reverse *)
(* WebSocket (NapCatReverseServer) with its pending actions, and the       *)
(* handlers of group messages and recall notices (IngressApp), up to the   *)
(* point where the worker takes a row.                                     *)
(*                                                                         *)
(* NapCat is modelled from what the code relies on: it may push an event   *)
(* again after a reconnect, late, in another order or not at all, over any *)
(* connection that is open, and it may carry out an action whose answer is *)
(* then lost.  The handlers of the ingress have no await, so each is one   *)
(* step.  The clock counts a unit that Window, MaxAge and KeepMarks are    *)
(* multiples of; the timer of an action may fire at any time.              *)
(***************************************************************************)
EXTENDS Integers, FiniteSets

CONSTANTS
  Msgs,      \* messages of one group
  Muted,     \* those of a blacklisted member that mention the bot
  Calls,     \* actions sent to NapCat
  MaxConns,  \* connections NapCat opens (bound)
  Window,    \* TOKEN_BUCKET_WINDOW_MS
  Burst,     \* TOKEN_BUCKET_MAX_PER_WINDOW
  MaxAge,    \* BACKLOG_MAX_AGE_MS
  KeepMarks, \* RETRACTED_TTL_MS
  MaxTime    \* end of the clock (bound)

ASSUME IngressAssumption ==
  /\ Muted \subseteq Msgs /\ IsFiniteSet(Msgs)
  /\ MaxConns \in Nat /\ MaxTime \in Nat
  /\ Window \in Nat /\ Burst \in Nat /\ MaxAge \in Nat /\ KeepMarks \in Nat

Never == -1
NoConn == 0
Conns == 1..MaxConns

VARIABLES
  conn,     \* a WebSocket: none, open, closing (no close event yet), closed
  active,   \* activeSocket
  call,     \* the promise of an action: none, pending, and how it settled
  via,      \* the socket the action was sent on
  remote,   \* what became of the action in NapCat
  now,
  posted,   \* when a message was written
  row,      \* messages.processable, "none" without a row
  created,  \* messages.created_at
  mark,     \* retracted.retracted_at
  noticed,  \* when its recall notice came in (history; one per message)
  handled   \* what the worker did with the row

link == <<conn, active>>
actions == <<call, via, remote>>
events == <<now, posted, row, created, mark, noticed, handled>>
vars == <<conn, active, call, via, remote, now, posted, row, created, mark,
          noticed, handled>>

Settled == {"answered", "refused", "unknown", "notsent"}

Init == /\ conn = [s \in Conns |-> "none"]
        /\ active = NoConn
        /\ call = [c \in Calls |-> "none"]
        /\ via = [c \in Calls |-> NoConn]
        /\ remote = [c \in Calls |-> "none"]
        /\ now = 0
        /\ posted = [m \in Msgs |-> Never]
        /\ row = [m \in Msgs |-> "none"]
        /\ created = [m \in Msgs |-> Never]
        /\ mark = [m \in Msgs |-> Never]
        /\ noticed = [m \in Msgs |-> Never]
        /\ handled = [m \in Msgs |-> "no"]

-----------------------------------------------------------------------------
(* Connections *)

\* a new connection becomes the active one; an older one is not closed
Connect(s) ==
  /\ conn[s] = "none" /\ (s > 1 => conn[s - 1] # "none")
  /\ conn' = [conn EXCEPT ![s] = "open"]
  /\ active' = s
  /\ UNCHANGED <<actions, events>>

\* the connection breaks: its readyState changes before the close event
Break(s) ==
  /\ conn[s] = "open"
  /\ conn' = [conn EXCEPT ![s] = "closing"]
  /\ UNCHANGED <<active, actions, events>>

\* the close event of any socket gives up all pending actions
GivenUp(s) == {c \in Calls : call[c] = "pending"}

CloseEvent(s) ==
  /\ conn[s] = "closing"
  /\ conn' = [conn EXCEPT ![s] = "closed"]
  /\ active' = IF active = s THEN NoConn ELSE active
  /\ call' = [c \in Calls |-> IF c \in GivenUp(s) THEN "unknown" ELSE call[c]]
  /\ UNCHANGED <<via, remote, events>>

-----------------------------------------------------------------------------
(* Actions *)

SocketOpen == active # NoConn /\ conn[active] = "open"

\* callAction without an open socket
NotSent(c) ==
  /\ call[c] = "none" /\ ~SocketOpen
  /\ call' = [call EXCEPT ![c] = "notsent"]
  /\ UNCHANGED <<link, via, remote, events>>

Dispatch(c) ==
  /\ call[c] = "none" /\ SocketOpen
  /\ call' = [call EXCEPT ![c] = "pending"]
  /\ via' = [via EXCEPT ![c] = active]
  /\ remote' = [remote EXCEPT ![c] = "frame"]
  /\ UNCHANGED <<link, events>>

\* NapCat has the frame and carries the action out or refuses it
Remote(c) ==
  /\ remote[c] = "frame"
  /\ \E r \in {"done", "failed"} : remote' = [remote EXCEPT ![c] = r]
  /\ UNCHANGED <<link, call, via, events>>

Awaited(c) == call[c] = "pending"

\* the answer comes back with the echo of an action
Answer(c) ==
  /\ remote[c] \in {"done", "failed"} /\ conn[via[c]] = "open" /\ Awaited(c)
  /\ call' = [call EXCEPT ![c] = IF remote[c] = "done" THEN "answered" ELSE "refused"]
  /\ UNCHANGED <<link, via, remote, events>>

(* Mutant: no answer in time counts as not sent. *)
TimedOutAsNotSent == "notsent"

TimedOut == "unknown"

(* Mutant: an action without an answer waits for the close of its socket. *)
NoAnswerConnected(c) ==
  /\ call[c] = "pending" /\ conn[via[c]] # "open"
  /\ call' = [call EXCEPT ![c] = TimedOut]
  /\ UNCHANGED <<link, via, remote, events>>

\* the timer of the action fires, or the write fails: nothing is known
NoAnswer(c) ==
  /\ call[c] = "pending"
  /\ call' = [call EXCEPT ![c] = TimedOut]
  /\ UNCHANGED <<link, via, remote, events>>

-----------------------------------------------------------------------------
(* Events *)

Tick == /\ now < MaxTime
        /\ now' = now + 1
        /\ UNCHANGED <<link, actions, posted, row, created, mark, noticed, handled>>

Post(m) ==
  /\ posted[m] = Never
  /\ posted' = [posted EXCEPT ![m] = now]
  /\ UNCHANGED <<link, actions, now, row, created, mark, noticed, handled>>

CanPush == \E s \in Conns : conn[s] = "open"

(* Mutant: a row at the edge of the window is not counted. *)
RecentExclusive == {m \in Msgs : row[m] # "none" /\ created[m] > now - Window}

\* countMessagesSince: every row of the window, dropped ones included
Recent == {m \in Msgs : row[m] # "none" /\ created[m] >= now - Window}

Limited(m) == Cardinality(Recent) >= Burst /\ m \notin Muted

\* handleGroupMessage, for a message that is new, fresh and not the bot's own
Receive(m) ==
  /\ CanPush /\ posted[m] # Never
  /\ now - posted[m] <= MaxAge
  /\ row[m] = "none"
  /\ row' = [row EXCEPT ![m] = IF Limited(m) THEN "dropped" ELSE "processable"]
  /\ created' = [created EXCEPT ![m] = now]
  /\ UNCHANGED <<link, actions, now, posted, mark, noticed, handled>>

(* Mutant: a recall is noted in the row it is about. *)
MarkableRow(m) == row[m] # "none"

\* markRetracted asks for no row
Markable(m) == TRUE

\* handleRecall, also for a message that has not come in
Recall(m) ==
  /\ CanPush /\ posted[m] # Never /\ noticed[m] = Never
  /\ mark' = IF Markable(m) THEN [mark EXCEPT ![m] = now] ELSE mark
  /\ noticed' = [noticed EXCEPT ![m] = now]
  /\ UNCHANGED <<link, actions, now, posted, row, created, handled>>

\* maintain: pruneRetracted
Prune ==
  /\ \E m \in Msgs : mark[m] # Never /\ mark[m] < now - KeepMarks
  /\ mark' = [m \in Msgs |-> IF mark[m] < now - KeepMarks THEN Never ELSE mark[m]]
  /\ UNCHANGED <<link, actions, now, posted, row, created, noticed, handled>>

\* the first checks of the worker's handler
Take(m) ==
  /\ row[m] # "none" /\ handled[m] = "no"
  /\ handled' = [handled EXCEPT ![m] =
                   IF row[m] = "dropped" \/ mark[m] # Never THEN "skipped" ELSE "answered"]
  /\ UNCHANGED <<link, actions, now, posted, row, created, mark, noticed>>

-----------------------------------------------------------------------------
LinkStep == \E s \in Conns : Connect(s) \/ Break(s) \/ CloseEvent(s)
CallStep(c) == NotSent(c) \/ Dispatch(c) \/ Remote(c) \/ Answer(c) \/ NoAnswer(c)
EventStep == \/ Tick \/ Prune
             \/ \E m \in Msgs : Post(m) \/ Receive(m) \/ Recall(m) \/ Take(m)

Next == LinkStep \/ (\E c \in Calls : CallStep(c)) \/ EventStep

\* setTimeout fires
Fairness == \A c \in Calls : WF_vars(NoAnswer(c))

Spec == Init /\ [][Next]_vars
FairSpec == Spec /\ Fairness

-----------------------------------------------------------------------------
\* Every variable keeps the shape the code gives it.
TypeOK ==
  /\ conn \in [Conns -> {"none", "open", "closing", "closed"}]
  /\ active \in Conns \cup {NoConn}
  /\ call \in [Calls -> {"none", "pending"} \cup Settled]
  /\ via \in [Calls -> Conns \cup {NoConn}]
  /\ remote \in [Calls -> {"none", "frame", "done", "failed"}]
  /\ now \in 0..MaxTime
  /\ posted \in [Msgs -> {Never} \cup 0..MaxTime]
  /\ row \in [Msgs -> {"none", "dropped", "processable"}]
  /\ created \in [Msgs -> {Never} \cup 0..MaxTime]
  /\ mark \in [Msgs -> {Never} \cup 0..MaxTime]
  /\ noticed \in [Msgs -> {Never} \cup 0..MaxTime]
  /\ handled \in [Msgs -> {"no", "skipped", "answered"}]

\* What the outbox is told of an action is true: an action reported as not
\* sent has not been carried out and never will be, and one reported as done
\* was (callAction; a retry of the first kind cannot send twice).
ReportsTrue ==
  \A c \in Calls : /\ call[c] = "notsent" => remote[c] = "none"
                   /\ call[c] = "answered" => remote[c] = "done"
                   /\ call[c] = "refused" => remote[c] = "failed"

\* An outcome is final: an answer that comes after the timer or after the
\* close of a socket changes nothing (pendingActions, handleIncomingMessage).
SettledOnce == [][\A c \in Calls : call[c] \in Settled => call'[c] = call[c]]_vars

\* Every action that was sent settles, whatever becomes of the connection
\* (the timer of callAction).
EveryCallSettles == \A c \in Calls : call[c] = "pending" ~> call[c] \in Settled

Admitted(t) ==
  {m \in Msgs \ Muted : row[m] = "processable" /\ created[m] \in (t - Window)..t}

\* In no window of that length does the bot admit more messages of the group
\* than the bucket holds, blacklisted mentions apart (handleGroupMessage).
RateBound == \A t \in 0..now : Cardinality(Admitted(t)) <= Burst

\* The worker does not take up a message whose recall has come in, also when
\* the notice overtook the message, as long as recalls are remembered
\* (handleRecall, pruneRetracted, isRetracted in the worker).
RecallHeeded ==
  [][\A m \in Msgs :
       handled[m] = "no" /\ handled'[m] = "answered" =>
         noticed[m] = Never \/ noticed[m] < now - KeepMarks]_vars
=============================================================================
