------------------------------ MODULE BtSearch ------------------------------
(***************************************************************************)
(* BtSearchService and the handler that calls it: one search at a time in  *)
(* a child process, a short queue, a progress message, one answer.         *)
(*                                                                         *)
(* Every request has a consumer key of its own, so the handlers of all     *)
(* groups overlap in the worker's event loop; a step is what one callback  *)
(* does between two awaits.  The service is stopped when the worker shuts  *)
(* down.  What the engine finds, and when, is left out, and so is a worker *)
(* that dies.                                                              *)
(***************************************************************************)
EXTENDS Integers, Sequences, FiniteSets, SequencesExt

CONSTANTS
  Requests,   \* numbered in the order in which they reach the service
  MaxWaiting, \* length of the queue
  MaxAborts,  \* requests whose signal is aborted (bound)
  MaxErrors   \* errors of sending answers, all to one request (bound)

ASSUME BtAssumption ==
  Requests \subseteq Nat /\ MaxWaiting \in Nat /\ MaxAborts \in Nat /\ MaxErrors \in Nat

VARIABLES
  pc,       \* where a request is
  aborted,  \* its signal is aborted
  cut,      \* its AbortController is aborted
  reason,   \* why the engine is being terminated (terminalError)
  outcome,  \* how the search ended
  progress, \* the progress message: off, armed, sending
  answers,  \* answers to the request that may be in the group (history)
  errors,   \* errors of sending them (history)
  active,   \* BtSearchService.active
  waiters,  \* BtSearchService.waiters
  closed,   \* BtSearchService.closed
  awaited   \* the searches stop() waits for; NotStopping outside of it

vars == <<pc, aborted, cut, reason, outcome, progress, answers, errors,
          active, waiters, closed, awaited>>
told == <<answers, errors>>
service == <<active, waiters>>
search == <<cut, reason>>

NotStopping == {-1}

Queued == {"new", "again", "waiting", "granted"}
Searching == {"starting", "preparing", "engine", "killed"}
Holding == {"granted"} \cup Searching
Engine == {"engine", "killed"}
Telling == {"answering", "excusing"}

Init == /\ pc = [r \in Requests |-> "new"]
        /\ aborted = [r \in Requests |-> FALSE]
        /\ cut = [r \in Requests |-> FALSE]
        /\ reason = [r \in Requests |-> "none"]
        /\ outcome = [r \in Requests |-> "none"]
        /\ progress = [r \in Requests |-> "off"]
        /\ answers = [r \in Requests |-> 0]
        /\ errors = [r \in Requests |-> 0]
        /\ active = FALSE
        /\ waiters = <<>>
        /\ closed = FALSE
        /\ awaited = NotStopping

Goto(r, place) == pc' = [pc EXCEPT ![r] = place]

\* the search of r rejects or resolves, without touching the queue
Ends(r, o) == /\ Goto(r, "ended")
              /\ outcome' = [outcome EXCEPT ![r] = o]

-----------------------------------------------------------------------------
(* The queue *)

QueueFull == Len(waiters) >= MaxWaiting

Acquire(r) ==
  /\ \/ pc[r] = "new" /\ \A q \in Requests : q < r => pc[q] # "new"
     \/ pc[r] = "again"
  /\ \/ (closed \/ aborted[r]) /\ Ends(r, "cancelled") /\ UNCHANGED service
     \/ /\ ~closed /\ ~aborted[r] /\ ~active
        /\ active' = TRUE
        /\ Goto(r, "granted")
        /\ UNCHANGED <<waiters, outcome>>
     \/ /\ ~closed /\ ~aborted[r] /\ active /\ QueueFull
        /\ Ends(r, "busy") /\ UNCHANGED service
     \/ /\ ~closed /\ ~aborted[r] /\ active /\ ~QueueFull
        /\ waiters' = Append(waiters, r)
        /\ Goto(r, "waiting")
        /\ UNCHANGED <<active, outcome>>
  /\ UNCHANGED <<aborted, search, progress, told, closed, awaited>>

(* Mutant: the slot is freed while a waiter takes it over. *)
ReleaseFrees(r, o) ==
  /\ outcome' = [outcome EXCEPT ![r] = o]
  /\ active' = FALSE
  /\ IF waiters # <<>>
       THEN /\ waiters' = Tail(waiters)
            /\ pc' = [pc EXCEPT ![r] = "ended", ![Head(waiters)] = "granted"]
       ELSE Goto(r, "ended") /\ UNCHANGED waiters

(* Mutant: the slot is kept, and nobody is woken. *)
ReleaseForgets(r, o) ==
  /\ outcome' = [outcome EXCEPT ![r] = o]
  /\ Goto(r, "ended")
  /\ active' = (waiters # <<>>)
  /\ UNCHANGED waiters

\* release: the slot is handed to the first waiter, and stays taken
Release(r, o) ==
  /\ outcome' = [outcome EXCEPT ![r] = o]
  /\ IF waiters # <<>>
       THEN /\ waiters' = Tail(waiters)
            /\ pc' = [pc EXCEPT ![r] = "ended", ![Head(waiters)] = "granted"]
            /\ UNCHANGED active
       ELSE /\ active' = FALSE
            /\ Goto(r, "ended")
            /\ UNCHANGED waiters

-----------------------------------------------------------------------------
(* The search *)

\* search, after acquire: the signal and the service may have ended meanwhile
Start(r) ==
  /\ pc[r] = "granted"
  /\ IF aborted[r] \/ closed
       THEN Release(r, "cancelled") /\ UNCHANGED progress
       ELSE /\ Goto(r, "starting")
            /\ progress' = [progress EXCEPT ![r] = "armed"]
            /\ UNCHANGED <<service, outcome>>
  /\ UNCHANGED <<aborted, search, told, closed, awaited>>

\* after onStarted: execute begins and is entered in `running'
Prepare(r) ==
  /\ pc[r] = "starting"
  /\ Goto(r, "preparing")
  /\ UNCHANGED <<aborted, search, outcome, progress, told, service, closed, awaited>>

\* a search that stop() waits for has ended
Settle(r) == awaited' = IF awaited = NotStopping THEN awaited ELSE awaited \ {r}

(* Mutant: the signal is not looked at again before the engine is started. *)
CutBeforeStartOnly(r) == FALSE

CutMeanwhile(r) == cut[r]

\* the directories exist
Spawn(r) ==
  /\ pc[r] = "preparing"
  /\ IF CutMeanwhile(r)
       THEN /\ Release(r, "cancelled") /\ Settle(r)
            /\ cut' = [cut EXCEPT ![r] = FALSE]
       ELSE Goto(r, "engine") /\ UNCHANGED <<service, outcome, awaited, cut>>
  /\ UNCHANGED <<aborted, reason, progress, told, closed>>

\* the engine reports its result, or the budget is spent: it is killed
Terminate(r) ==
  /\ pc[r] = "engine"
  /\ Goto(r, "killed")
  /\ \E why \in {"complete", "timeout"} : reason' = [reason EXCEPT ![r] = why]
  /\ UNCHANGED <<aborted, cut, outcome, progress, told, service, closed, awaited>>

\* the close event of the child process; partial results outlive a time-out
Verdict(r) ==
  CASE cut[r] -> {"cancelled"}
    [] ~cut[r] /\ reason[r] = "timeout" -> {"found", "timeout"}
    [] ~cut[r] /\ reason[r] = "complete" -> {"found", "nothing"}
    [] OTHER -> {"found", "nothing", "failed"}

Close(r) ==
  /\ pc[r] \in Engine
  /\ \E o \in Verdict(r) : Release(r, o)
  /\ Settle(r)
  /\ cut' = [cut EXCEPT ![r] = FALSE]
  /\ reason' = [reason EXCEPT ![r] = "none"]
  /\ UNCHANGED <<aborted, progress, told, closed>>

-----------------------------------------------------------------------------
(* The handler *)

\* five seconds have passed since the search was started
Progress(r) ==
  /\ progress[r] = "armed" /\ pc[r] \notin Telling
  /\ progress' = [progress EXCEPT ![r] = IF aborted[r] THEN "off" ELSE "sending"]
  /\ UNCHANGED <<pc, aborted, search, outcome, told, service, closed, awaited>>

\* the progress message is in the group, or its error is logged
ProgressSent(r) ==
  /\ progress[r] = "sending"
  /\ progress' = [progress EXCEPT ![r] = "off"]
  /\ UNCHANGED <<pc, aborted, search, outcome, told, service, closed, awaited>>

(* Mutant: a progress message that is being sent is not waited for. *)
ProgressStopped(r) == TRUE

ProgressOver(r) == progress[r] # "sending"

\* the handler returns; the variables of a request have no meaning after that
Leave(r) == /\ Goto(r, "done")
            /\ outcome' = [outcome EXCEPT ![r] = "none"]

\* finishProgress: the timer is cleared, a message under way awaited; a search
\* that has failed is excused in the catch branch
FinishProgress(r) ==
  /\ pc[r] = "ended" /\ ProgressOver(r)
  /\ progress' = [progress EXCEPT ![r] = IF @ = "armed" THEN "off" ELSE @]
  /\ \/ (aborted[r] \/ outcome[r] = "cancelled") /\ Leave(r)
     \/ /\ ~aborted[r] /\ outcome[r] # "cancelled"
        /\ Goto(r, IF outcome[r] \in {"found", "nothing"} THEN "answering" ELSE "excusing")
        /\ UNCHANGED outcome
  /\ UNCHANGED <<aborted, search, told, service, closed, awaited>>

\* something is sent; whether it gets there may never be known
Tell(r) == answers' = [answers EXCEPT ![r] = @ + 1]

\* sending throws, before the message is in the group or after it, when the
\* recovery of the connection is reported (sendText)
SendThrows(r) ==
  /\ errors[r] < MaxErrors /\ \A q \in Requests \ {r} : errors[q] = 0
  /\ errors' = [errors EXCEPT ![r] = @ + 1]
  /\ Tell(r)

\* a card (or one short text if it is refused), or a text that nothing is found;
\* when nobody knows whether it is there, nothing more is sent
Answer(r) ==
  /\ pc[r] = "answering"
  /\ Tell(r)
  /\ Leave(r)
  /\ UNCHANGED <<aborted, search, progress, errors, service, closed, awaited>>

\* any other error is excused, even if the answer is in the group
AnswerFails(r) ==
  /\ pc[r] = "answering"
  /\ SendThrows(r)
  /\ \/ aborted[r] /\ Leave(r)
     \/ ~aborted[r] /\ Goto(r, "excusing") /\ UNCHANGED outcome
  /\ UNCHANGED <<aborted, search, progress, service, closed, awaited>>

\* the catch branch: a text that the search has failed
Excuse(r) ==
  /\ pc[r] = "excusing"
  /\ Tell(r)
  /\ Leave(r)
  /\ UNCHANGED <<aborted, search, progress, errors, service, closed, awaited>>

\* its error leaves the handler: the consumer keeps the message and hands it to
\* a new handler with a signal of its own
ExcuseFails(r) ==
  /\ pc[r] = "excusing"
  /\ SendThrows(r)
  /\ Goto(r, "again")
  /\ outcome' = [outcome EXCEPT ![r] = "none"]
  /\ aborted' = [aborted EXCEPT ![r] = FALSE]
  /\ UNCHANGED <<search, progress, service, closed, awaited>>

-----------------------------------------------------------------------------
(* The end of a request, and of the service *)

\* the controllers of these searches are aborted: an engine is killed, a waiter
\* has been cancelled
CutOff(rs) ==
  /\ cut' = [r \in Requests |-> cut[r] \/ (r \in rs /\ pc[r] \in Searching)]
  /\ pc' = [r \in Requests |-> CASE r \in rs /\ pc[r] = "engine" -> "killed"
                                 [] r \in rs /\ pc[r] = "waiting" -> "ended"
                                 [] OTHER -> pc[r]]
  /\ outcome' = [r \in Requests |-> IF r \in rs /\ pc[r] = "waiting"
                                      THEN "cancelled" ELSE outcome[r]]

\* the waiter leaves the queue
Without(s, r) ==
  LET i == CHOOSE i \in 1..Len(s) : s[i] = r
  IN  [k \in 1..Len(s) - 1 |-> IF k < i THEN s[k] ELSE s[k + 1]]

Abort(r) ==
  /\ ~aborted[r] /\ pc[r] # "done"
  /\ Cardinality({q \in Requests : aborted[q]}) < MaxAborts
  /\ aborted' = [aborted EXCEPT ![r] = TRUE]
  /\ CutOff({r})
  /\ waiters' = IF pc[r] = "waiting" THEN Without(waiters, r) ELSE waiters
  /\ UNCHANGED <<reason, progress, told, active, closed, awaited>>

Running == {r \in Requests : pc[r] \in {"preparing"} \cup Engine}

\* stop: everything is cancelled, and the searches that run are waited for
Stop ==
  /\ ~closed
  /\ closed' = TRUE
  /\ CutOff(Requests)
  /\ waiters' = <<>>
  /\ awaited' = Running
  /\ UNCHANGED <<aborted, reason, progress, told, active>>

Stopped == awaited = {}

Step(r) ==
  \/ Acquire(r) \/ Start(r) \/ Prepare(r) \/ Spawn(r) \/ Terminate(r) \/ Close(r)
  \/ ProgressSent(r) \/ FinishProgress(r) \/ Answer(r) \/ AnswerFails(r)
  \/ Excuse(r) \/ ExcuseFails(r)

Next == \/ \E r \in Requests : Step(r) \/ Progress(r) \/ Abort(r)
        \/ Stop

\* callbacks run, the budget of an engine ends it and a killed one closes
Fairness == \A r \in Requests : WF_vars(Step(r))

Spec == Init /\ [][Next]_vars
FairSpec == Spec /\ Fairness

-----------------------------------------------------------------------------
\* Every variable keeps the shape the code gives it.
TypeOK ==
  /\ pc \in [Requests -> Queued \cup Searching \cup Telling \cup {"ended", "done"}]
  /\ aborted \in [Requests -> BOOLEAN] /\ cut \in [Requests -> BOOLEAN]
  /\ reason \in [Requests -> {"none", "complete", "timeout"}]
  /\ outcome \in [Requests -> {"none", "cancelled", "busy", "found", "nothing",
                               "timeout", "failed"}]
  /\ progress \in [Requests -> {"off", "armed", "sending"}]
  /\ answers \in [Requests -> Nat] /\ errors \in [Requests -> 0..MaxErrors]
  /\ active \in BOOLEAN
  /\ waiters \in Seq(Requests) /\ Len(waiters) <= MaxWaiting
  /\ closed \in BOOLEAN
  /\ awaited = NotStopping \/ awaited \subseteq Requests

Holders == {r \in Requests : pc[r] \in Holding}

\* One search at a time in the whole process, the slot is never lost, and
\* nobody waits for a free one (acquire, release).
OneSearch ==
  /\ Cardinality(Holders) = IF active THEN 1 ELSE 0
  /\ waiters # <<>> => active
  /\ \A r \in Requests : pc[r] = "waiting" <=> r \in ToSet(waiters)

\* When stop() has returned no engine runs and none is started any more, also
\* for a search that was on its way when it was called (stop, execute).
QuietAfterStop == Stopped => \A r \in Requests : pc[r] \notin Engine

\* While the worker lives, the group gets one answer to a request at most, and one
\* more for each error of sending it: the excuse for an answer that is there
\* already, or what a repeated handler says.  A progress message is never under way when
\* the handler has come to its answer, so none follows it (finishProgress and
\* the catch branch of handleBtSearchCommand).
OneAnswer ==
  \A r \in Requests :
    /\ answers[r] <= 1 + errors[r]
    /\ progress[r] = "sending" => pc[r] \notin Telling \cup {"done"}

\* Every request leaves the queue and the engine again, and its handler ends
\* (budget of the engine, release).
EveryRequestEnds == <>(\A r \in Requests : pc[r] = "done")
=============================================================================
