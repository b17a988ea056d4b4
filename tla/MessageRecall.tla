---------------------------- MODULE MessageRecall ----------------------------
(***************************************************************************)
(* MessageRecallService: adult result cards are deleted from the group     *)
(* about 90 s after QQ confirmed them, by jobs in the message_recalls      *)
(* table.  The service, the acknowledgement of the outbox row that creates *)
(* the job and the handler of recall notices run in the ingress process,   *)
(* one Node.js thread: a step is what runs between two awaits.             *)
(*                                                                         *)
(* All times of a job are relative to sent_at, so age[i] is the time since *)
(* then and due_at and deadline_at are ages.  runDue does not start while  *)
(* an earlier run awaits answers, hence one timer for all actions of a run.*)
(*                                                                         *)
(* runDueInternal reads the clock again before each dispatch, but nothing  *)
(* awaits between the claim and the dispatch: both see the same age.       *)
(***************************************************************************)
EXTENDS Integers, FiniteSets

CONSTANTS
  Cards,          \* confirmed adult cards
  After,          \* afterMs (90 s)
  RetryAt,        \* MESSAGE_RECALL_RETRY_AFTER_MS (100 s)
  Deadline,       \* deadlineMs (105 s)
  ActionTimeout,  \* actionTimeoutMs of delete_msg (10 s)
  StaleAfter,     \* staleAfterMs (30 s)
  MaxAttempts,    \* MAX_MESSAGE_RECALL_ATTEMPTS
  MaxCrashes,     \* crashes of the ingress process (bound)
  MaxFaults       \* outcomes the database fails to record (bound)

ASSUME RecallAssumption ==
  /\ After \in Nat /\ RetryAt \in Nat /\ Deadline \in Nat
  /\ After <= RetryAt /\ RetryAt <= Deadline
  /\ ActionTimeout \in Nat /\ StaleAfter \in Nat
  /\ MaxAttempts \in Nat \ {0} /\ MaxCrashes \in Nat /\ MaxFaults \in Nat

Terminal == {"recalled", "rejected", "outcome_unknown", "expired", "not_sent_expired"}
Ages == 0..(Deadline + 1)

VARIABLES
  up,         \* the ingress process is running
  status,     \* column status, "none" before the insert
  attempts,   \* column attempts
  due,        \* column due_at, as an age
  age,        \* time since sent_at
  held,       \* time since claimed_at
  retracted,  \* cards in the durable table of recall notices
  awaiting,   \* jobs of the active run whose action is not answered
  unsent,     \* those of them for which no socket was open
  wire,       \* delete_msg actions on their way to QQ
  reached,    \* delete_msg actions QQ has received for each card (history)
  timeout,    \* what is left of ActionTimeout for the active run
  polled,     \* the poll timer has fired since the last tick
  crashes,
  faults

recallVars == <<up, status, attempts, due, age, held, retracted, awaiting, unsent,
                wire, reached, timeout, polled, crashes, faults>>

RecallInit ==
  /\ up = TRUE
  /\ status = [i \in Cards |-> "none"]
  /\ attempts = [i \in Cards |-> 0]
  /\ due = [i \in Cards |-> 0]
  /\ age = [i \in Cards |-> 0]
  /\ held = [i \in Cards |-> 0]
  /\ retracted = {}
  /\ awaiting = {}
  /\ unsent = {}
  /\ wire = {}
  /\ reached = [i \in Cards |-> 0]
  /\ timeout = 0
  /\ polled = FALSE
  /\ crashes = 0
  /\ faults = 0

-----------------------------------------------------------------------------
Larger(a, b) == IF a > b THEN a ELSE b

(* The statuses after those of the jobs in S are set to s. *)
Marked(S, s) == [i \in Cards |-> IF i \in S THEN s ELSE status[i]]

(* expireMessageRecalls *)
Overdue == {i \in Cards : status[i] = "pending" /\ age[i] > Deadline}

(* Mutant: a claim whose owner is gone is not recovered. *)
StaleNever == {i \in Cards : status[i] = "sending" /\ held[i] > StaleAfter + Deadline}

(* recoverStaleSendingMessageRecalls *)
Stale == {i \in Cards : status[i] = "sending" /\ held[i] >= StaleAfter}

(* Mutant: a job of unknown outcome is claimed again. *)
DueUnknown == {i \in Cards : /\ status[i] \in {"pending", "outcome_unknown"}
                            /\ due[i] <= age[i]
                            /\ age[i] <= Deadline}

(* claimDueMessageRecalls, whose limit of 20 is not reached. *)
Due == {i \in Cards : status[i] = "pending" /\ due[i] <= age[i] /\ age[i] <= Deadline}

(* markMessageRecallTerminal acts on a claimed job only. *)
Settled(i, s) == [status EXCEPT ![i] = IF @ = "sending" THEN s ELSE @]

-----------------------------------------------------------------------------
(* ackOutboxDelivery of a forward card with a recall policy. *)
Ack(i) ==
  /\ up
  /\ status[i] = "none"
  /\ status' = [status EXCEPT ![i] = "pending"]
  /\ due' = [due EXCEPT ![i] = After]
  /\ UNCHANGED <<up, attempts, age, held, retracted, awaiting, unsent, wire,
                 reached, timeout, polled, crashes, faults>>

(* Mutant: the registry of notices is not read before the dispatch. *)
RunUnchecked ==
  /\ up /\ awaiting = {}
  /\ polled' = TRUE
  /\ attempts' = [i \in Cards |-> IF i \in Due THEN attempts[i] + 1 ELSE attempts[i]]
  /\ held' = [i \in Cards |-> IF i \in Due THEN 0 ELSE held[i]]
  /\ awaiting' = Due
  /\ timeout' = ActionTimeout
  /\ status' = [i \in Cards |->
       CASE i \in Overdue -> "expired"
         [] i \in Stale -> "outcome_unknown"
         [] i \in Due -> "sending"
         [] OTHER -> status[i]]
  /\ \/ wire' = wire \cup awaiting' /\ unsent' = {}
     \/ unsent' = awaiting' /\ wire' = wire
  /\ UNCHANGED <<up, due, age, retracted, reached, crashes, faults>>

(* runDue: expire, quarantine, claim, and dispatch what was claimed.  A card
   whose notice came before its job is recalled without an action; the
   others are all written to the socket, or none is.  *)
Run ==
  /\ up /\ awaiting = {}
  /\ polled' = TRUE
  /\ attempts' = [i \in Cards |-> IF i \in Due THEN attempts[i] + 1 ELSE attempts[i]]
  /\ held' = [i \in Cards |-> IF i \in Due THEN 0 ELSE held[i]]
  /\ awaiting' = Due \ retracted
  /\ timeout' = ActionTimeout
  /\ status' = [i \in Cards |->
       CASE i \in Overdue -> "expired"
         [] i \in Stale -> "outcome_unknown"
         [] i \in Due \cap retracted -> "recalled"
         [] i \in Due \ retracted -> "sending"
         [] OTHER -> status[i]]
  /\ \/ wire' = wire \cup awaiting' /\ unsent' = {}
     \/ unsent' = awaiting' /\ wire' = wire
  /\ UNCHANGED <<up, due, age, retracted, reached, crashes, faults>>

(* NapCatActionNotSentError: rescheduleMessageRecallAfterNotSent. *)
NotSent(i) ==
  LET retry == Larger(age[i], RetryAt) IN
  /\ i \in unsent
  /\ awaiting' = awaiting \ {i}
  /\ unsent' = unsent \ {i}
  /\ \/ /\ status[i] = "sending" /\ retry > Deadline
        /\ status' = Marked({i}, "expired") /\ UNCHANGED due
     \/ /\ status[i] = "sending" /\ retry <= Deadline /\ attempts[i] >= MaxAttempts
        /\ status' = Marked({i}, "not_sent_expired") /\ UNCHANGED due
     \/ /\ status[i] = "sending" /\ retry <= Deadline /\ attempts[i] < MaxAttempts
        /\ status' = Marked({i}, "pending") /\ due' = [due EXCEPT ![i] = retry]
     \/ /\ status[i] # "sending"
        /\ UNCHANGED <<status, due>>
  /\ UNCHANGED <<up, attempts, age, held, retracted, wire, reached, timeout,
                 polled, crashes, faults>>

(* QQ receives the action, or the connection loses it. *)
Land(i) ==
  /\ i \in wire
  /\ wire' = wire \ {i}
  /\ reached' = [reached EXCEPT ![i] = @ + 1]
  /\ UNCHANGED <<up, status, attempts, due, age, held, retracted, awaiting,
                 unsent, timeout, polled, crashes, faults>>

Lose(i) ==
  /\ i \in wire
  /\ wire' = wire \ {i}
  /\ UNCHANGED <<up, status, attempts, due, age, held, retracted, awaiting,
                 unsent, reached, timeout, polled, crashes, faults>>

(* The action is answered, times out, or its socket closes. *)
Outcome(i, s) ==
  /\ i \in awaiting \ unsent
  /\ s \in {"recalled", "rejected"} => reached[i] > 0
  /\ awaiting' = awaiting \ {i}
  /\ status' = Settled(i, s)
  /\ UNCHANGED <<up, attempts, due, age, held, retracted, unsent, wire,
                 reached, timeout, polled, crashes, faults>>

(* The database fails to record an outcome: the job stays claimed. *)
RecordFails(i) ==
  /\ i \in awaiting
  /\ faults < MaxFaults
  /\ faults' = faults + 1
  /\ awaiting' = awaiting \ {i}
  /\ unsent' = unsent \ {i}
  /\ UNCHANGED <<up, status, attempts, due, age, held, retracted, wire,
                 reached, timeout, polled, crashes>>

(* handleRecall: a notice that the card was recalled, by this process or by
   an operator, enters the registry and completes the job if there is one. *)
Notice(i) ==
  /\ up
  /\ i \notin retracted
  /\ retracted' = retracted \cup {i}
  /\ status' = [status EXCEPT ![i] = IF @ = "none" THEN @ ELSE "recalled"]
  /\ UNCHANGED <<up, attempts, due, age, held, awaiting, unsent, wire, reached,
                 timeout, polled, crashes, faults>>

Crash ==
  /\ up
  /\ crashes < MaxCrashes
  /\ crashes' = crashes + 1
  /\ up' = FALSE
  /\ awaiting' = {}
  /\ unsent' = {}
  /\ UNCHANGED <<status, attempts, due, age, held, retracted, wire, reached,
                 timeout, polled, faults>>

(* start(): every claim of the process before is quarantined. *)
Restart ==
  /\ ~up
  /\ up' = TRUE
  /\ polled' = FALSE
  /\ status' = Marked({i \in Cards : status[i] = "sending"}, "outcome_unknown")
  /\ UNCHANGED <<attempts, due, age, held, retracted, awaiting, unsent, wire,
                 reached, timeout, crashes, faults>>

Sooner(t) == IF t > 0 THEN t - 1 ELSE 0

(* Time passes for every job that has been inserted. *)
Elapse ==
  /\ age' = [i \in Cards |->
       IF status[i] # "none" /\ age[i] <= Deadline THEN age[i] + 1 ELSE age[i]]
  /\ held' = [i \in Cards |->
       IF status[i] = "sending" /\ held[i] < StaleAfter THEN held[i] + 1 ELSE held[i]]
  /\ timeout' = Sooner(timeout)
  /\ polled' = FALSE

(* Mutant: delete_msg has no timeout. *)
TickUntimed ==
  /\ up => unsent = {} /\ (polled \/ awaiting # {})
  /\ Elapse
  /\ UNCHANGED <<up, status, attempts, due, retracted, awaiting, unsent, wire,
                 reached, crashes, faults>>

(* In a live process the poll timer fires within a tick unless a run is
   active, and no action is awaited beyond its timeout.  *)
Tick ==
  /\ up => unsent = {} /\ (polled \/ awaiting # {})
  /\ awaiting # {} => timeout > 0
  /\ Elapse
  /\ UNCHANGED <<up, status, attempts, due, retracted, awaiting, unsent, wire,
                 reached, crashes, faults>>

RecallNext ==
  \/ \E i \in Cards : \/ Ack(i) \/ NotSent(i) \/ Land(i) \/ Lose(i)
                      \/ RecordFails(i) \/ Notice(i)
                      \/ \E s \in {"recalled", "rejected", "outcome_unknown"} : Outcome(i, s)
  \/ Run
  \/ Crash
  \/ Restart
  \/ Tick

RecallSpec == RecallInit /\ [][RecallNext]_recallVars

(* The poll timer, the action timers and the supervisor. *)
FairRecallSpec ==
  /\ RecallSpec
  /\ WF_recallVars(Run)
  /\ \A i \in Cards : WF_recallVars(NotSent(i)) /\ WF_recallVars(Outcome(i, "outcome_unknown"))
  /\ WF_recallVars(Restart)
  /\ WF_recallVars(Tick)

-----------------------------------------------------------------------------
(* Properties *)

RecallTypeOK ==
  /\ up \in BOOLEAN
  /\ status \in [Cards -> {"none", "pending", "sending"} \cup Terminal]
  /\ attempts \in [Cards -> 0..MaxAttempts]
  /\ due \in [Cards -> Ages]
  /\ age \in [Cards -> Ages]
  /\ held \in [Cards -> Nat]
  /\ retracted \subseteq Cards
  /\ awaiting \subseteq Cards
  /\ unsent \subseteq awaiting
  /\ wire \subseteq Cards
  /\ reached \in [Cards -> Nat]
  /\ timeout \in 0..ActionTimeout
  /\ polled \in BOOLEAN
  /\ crashes \in 0..MaxCrashes
  /\ faults \in 0..MaxFaults

(* QQ is asked at most once to delete a card, through crashes, timeouts, lost
   answers, failed writes and retries.  *)
OneDeletion == \A i \in Cards : reached[i] <= 1

(* An action is dispatched only between the due time and the deadline, and
   never for a card known to be recalled.  *)
DispatchInTime ==
  [][\A i \in awaiting' \ awaiting :
       /\ age[i] \in After..Deadline
       /\ i \notin retracted]_recallVars

(* A notice is the last word: no late answer, quarantine or retry makes the
   job of a recalled card anything else again.  *)
RecalledIsFinal ==
  [][\A i \in Cards : status[i] = "recalled" => status'[i] = "recalled"]_recallVars

(* The service is never so busy with one card that another one misses its
   deadline untried: the window between due time and deadline outlasts an
   action of the run before.  *)
NoneForgotten ==
  \A i \in Cards : status[i] = "expired" /\ crashes = 0 => attempts[i] > 0

(* Every job comes to a terminal status. *)
EventuallyTerminal ==
  \A i \in Cards : status[i] = "pending" ~> status[i] \in Terminal
=============================================================================
