------------------------------- MODULE Outbox -------------------------------
(***************************************************************************)
(* The outbox table of the shared SQLite database and the two processes    *)
(* that use it: the worker writes replies into it, the ingress process     *)
(* drains it through the NapCat reverse WebSocket.                         *)
(*                                                                         *)
(* A row is an element of Rows; rows are inserted in the order of their    *)
(* ids.  The columns are functions on Rows.  Every SharedDb method is one  *)
(* SQLite transaction, hence one step.  The emitter awaits one platform    *)
(* action at a time, and its timer starts a new run every 400 ms whether   *)
(* or not earlier runs are still awaiting: Runs bounds the overlap.        *)
(*                                                                         *)
(* Durations are counted down rather than compared with a clock: timer[i]  *)
(* is what is left until a `sending' row is stale or a `failed' row may be *)
(* retried, due[r] what is left until the awaited action of run r times    *)
(* out.                                                                    *)
(***************************************************************************)
EXTENDS Integers, FiniteSets

CONSTANTS
  NRows,        \* rows ever inserted (bound)
  Runs,         \* emitter runs that can be alive at once (bound)
  Kinds,        \* kinds of row that are enqueued
  BatchSize,    \* EMITTER_BATCH_SIZE
  MaxAttempts,  \* MAX_OUTBOX_DELIVERY_ATTEMPTS
  StaleAfter,   \* ticks until a sending row is quarantined (60 s)
  RetryAfter,   \* ticks until a failed row is retried (2 s)
  SendTimeout   \* ticks until an unanswered action times out (10 s)

Rows == 1..NRows

(* "text" stands for text and plain images, which take the same paths. *)
AllKinds == {"text", "forward", "generated_image"}

(* The kinds whose ambiguous outcome the code refuses to retry. *)
CarefulKinds == {"forward", "generated_image"}

ASSUME OutboxAssumption ==
  /\ NRows \in Nat /\ BatchSize \in Nat /\ MaxAttempts \in Nat
  /\ MaxAttempts > 0
  /\ StaleAfter \in Nat /\ RetryAfter \in Nat /\ SendTimeout \in Nat
  /\ Kinds \subseteq AllKinds

Statuses == {"unused", "deleted", "preparing", "pending", "sending",
             "failed", "sent", "cancelled"}

VARIABLES
  status,      \* column status; "unused" before the insert, "deleted" after
  kind,        \* column kind
  context,     \* "none", "routed" (topic and branch set), "turn" (turn_id too)
  attempts,    \* column attempts
  retry,       \* retry_after IS NOT NULL
  timer,       \* ticks until stale (sending) or until retry_after (failed)
  receipt,     \* platform_message_id: which copy was acknowledged, 0 for NULL
  batch,       \* rows each emitter run has claimed and not finished
  await,       \* the action a run awaits: "none", "card" or "plain"
  landed,      \* whether the awaited action reached the group
  due,         \* ticks until the awaited action times out
  copies       \* how often the group has seen each row

columns == <<status, kind, context, attempts, retry, timer, receipt>>
emitter == <<batch, await, landed, due>>
vars == <<status, kind, context, attempts, retry, timer, receipt,
          batch, await, landed, due, copies>>

Init == /\ status = [i \in Rows |-> "unused"]
        /\ kind = [i \in Rows |-> "text"]
        /\ context = [i \in Rows |-> "none"]
        /\ attempts = [i \in Rows |-> 0]
        /\ retry = [i \in Rows |-> FALSE]
        /\ timer = [i \in Rows |-> 0]
        /\ receipt = [i \in Rows |-> 0]
        /\ batch = [r \in Runs |-> {}]
        /\ await = [r \in Runs |-> "none"]
        /\ landed = [r \in Runs |-> FALSE]
        /\ due = [r \in Runs |-> 0]
        /\ copies = [i \in Rows |-> 0]

-----------------------------------------------------------------------------
(* Worker side *)

(* enqueueOutbox: a routed row waits as a draft for its assistant turn. *)
Enqueue(i, k, routed) ==
  /\ status[i] = "unused"
  /\ \A j \in Rows : j < i => status[j] # "unused"
  /\ status' = [status EXCEPT ![i] = IF routed THEN "preparing" ELSE "pending"]
  /\ kind' = [kind EXCEPT ![i] = k]
  /\ context' = [context EXCEPT ![i] = IF routed THEN "routed" ELSE "none"]
  /\ UNCHANGED <<attempts, retry, timer, receipt, batch, await, landed, due, copies>>

(* Mutant: the publishable statuses are not checked. *)
PublishUnchecked(S) ==
  /\ S # {}
  /\ \A i \in S : status[i] \in {"preparing", "cancelled"}
  /\ status' = [i \in Rows |-> IF i \in S THEN "pending" ELSE status[i]]
  /\ context' = [i \in Rows |-> IF i \in S THEN "turn" ELSE context[i]]
  /\ UNCHANGED <<kind, attempts, retry, timer, receipt, batch, await, landed, due, copies>>

(* appendAssistantTurn: the drafts of a reply become visible together with
   the turn they belong to, or none does.  *)
Publish(S) ==
  /\ S # {}
  /\ \A i \in S : status[i] = "preparing"
  /\ status' = [i \in Rows |-> IF i \in S THEN "pending" ELSE status[i]]
  /\ context' = [i \in Rows |-> IF i \in S THEN "turn" ELSE context[i]]
  /\ UNCHANGED <<kind, attempts, retry, timer, receipt, batch, await, landed, due, copies>>

(* discardPreparingOutbox, discardPreparingOutboxForSource *)
Discard(S) ==
  /\ S # {}
  /\ \A i \in S : status[i] = "preparing"
  /\ status' = [i \in Rows |-> IF i \in S THEN "deleted" ELSE status[i]]
  /\ UNCHANGED <<kind, context, attempts, retry, timer, receipt, batch, await,
                 landed, due, copies>>

(* clearUser and clearGroup cancel the rows of the branches they delete. *)
Cancel(S) ==
  /\ S # {}
  /\ \A i \in S : /\ status[i] \notin {"unused", "deleted"}
                  /\ context[i] # "none"
  /\ status' = [i \in Rows |-> IF i \in S /\ status[i] # "sent" THEN "cancelled"
                                                                ELSE status[i]]
  /\ context' = [i \in Rows |-> IF i \in S THEN "none" ELSE context[i]]
  /\ retry' = [i \in Rows |-> IF i \in S THEN FALSE ELSE retry[i]]
  /\ UNCHANGED <<kind, attempts, timer, receipt, batch, await, landed, due, copies>>

-----------------------------------------------------------------------------
(* Ingress side: the emitter *)

Stale == {i \in Rows : status[i] = "sending" /\ timer[i] = 0}

(* Mutant: a stale row is claimed again. *)
ClaimableStale == {i \in Rows : \/ status[i] = "pending"
                                \/ status[i] \in {"failed", "sending"} /\ timer[i] = 0}

(* Mutant: a failed row is never claimed again. *)
ClaimablePending == {i \in Rows : status[i] = "pending"}

Claimable == {i \in Rows : \/ status[i] = "pending"
                           \/ status[i] = "failed" /\ retry[i] /\ timer[i] = 0}

(* The candidates of one claim: ORDER BY id LIMIT BatchSize. *)
Candidates ==
  {i \in Claimable : Cardinality({j \in Claimable : j < i}) < BatchSize}

(* recoverStaleSendingOutbox, run by the maintenance timer *)
Maintain ==
  /\ Stale # {}
  /\ status' = [i \in Rows |-> IF i \in Stale THEN "failed" ELSE status[i]]
  /\ retry' = [i \in Rows |-> IF i \in Stale THEN FALSE ELSE retry[i]]
  /\ UNCHANGED <<kind, context, attempts, timer, receipt, batch, await, landed, due, copies>>

(* claimOutbox: quarantine what is stale, then claim a batch. *)
Claim(r) ==
  /\ batch[r] = {}
  /\ Candidates # {}
  /\ status' = [i \in Rows |-> IF i \in Candidates THEN "sending"
                               ELSE IF i \in Stale THEN "failed" ELSE status[i]]
  /\ retry' = [i \in Rows |-> IF i \in Stale THEN FALSE ELSE retry[i]]
  /\ attempts' = [i \in Rows |-> IF i \in Candidates THEN attempts[i] + 1
                                                     ELSE attempts[i]]
  /\ timer' = [i \in Rows |-> IF i \in Candidates THEN StaleAfter ELSE timer[i]]
  /\ batch' = [batch EXCEPT ![r] = Candidates]
  /\ UNCHANGED <<kind, context, receipt, await, landed, due, copies>>

(* Row i is the one that run r works on: rows are sent in id order.  The row
   is not read again, so nothing here looks at its current status.  *)
Current(r, i) == i \in batch[r] /\ \A j \in batch[r] : i <= j

NextRow(r, i) == /\ batch' = [batch EXCEPT ![r] = @ \ {i}]
                 /\ await' = [await EXCEPT ![r] = "none"]
                 /\ landed' = [landed EXCEPT ![r] = FALSE]
                 /\ due' = [due EXCEPT ![r] = 0]

(* markOutboxFailed writes whatever the status is by now. *)
Fail(r, i, retryable) ==
  LET again == retryable /\ attempts[i] < MaxAttempts IN
  /\ status' = [status EXCEPT ![i] = "failed"]
  /\ retry' = [retry EXCEPT ![i] = again]
  /\ timer' = [timer EXCEPT ![i] = IF again THEN RetryAfter ELSE 0]
  /\ NextRow(r, i)
  /\ UNCHANGED <<kind, context, attempts, receipt, copies>>

(* Mutant: forward cards are missing from the list. *)
RetryableForward(i) == kind[i] # "generated_image"

(* markOutboxDeliveryFailed, for an error that is not NapCatActionNotSent *)
RetryableKind(i) == kind[i] \notin CarefulKinds

(* callAction hands the action to an open socket.  Whether it reaches the
   group is decided here; the emitter learns about it later, or never.  *)
Dispatch(r, i, action) ==
  /\ await' = [await EXCEPT ![r] = action]
  /\ due' = [due EXCEPT ![r] = SendTimeout]
  /\ \E arrives \in BOOLEAN :
       /\ landed' = [landed EXCEPT ![r] = arrives]
       /\ copies' = [copies EXCEPT ![i] = IF arrives THEN @ + 1 ELSE @]
  /\ UNCHANGED <<status, kind, context, attempts, retry, timer, receipt, batch>>

(* deliverOutboxRow starts with the row's own action. *)
Send(r, i) ==
  /\ Current(r, i)
  /\ await[r] = "none"
  /\ Dispatch(r, i, IF kind[i] = "forward" THEN "card" ELSE "plain")

(* ensureSocketOpen throws NapCatActionNotSentError before a send. *)
NotSent(r, i) ==
  /\ Current(r, i)
  /\ await[r] = "none"
  /\ Fail(r, i, TRUE)

(* A generated image outside its directory, missing, empty, too large or of
   another type fails before the transport is called.  *)
BadImage(r, i) ==
  /\ Current(r, i)
  /\ await[r] = "none"
  /\ kind[i] = "generated_image"
  /\ Fail(r, i, FALSE)

(* The platform answers with a message id and ackOutboxDelivery commits it. *)
Receipt(r, i) ==
  /\ Current(r, i)
  /\ await[r] # "none" /\ landed[r]
  /\ receipt[i] \in {0, copies[i]}
  /\ status' = [status EXCEPT ![i] = "sent"]
  /\ retry' = [retry EXCEPT ![i] = FALSE]
  /\ receipt' = [receipt EXCEPT ![i] = copies[i]]
  /\ NextRow(r, i)
  /\ UNCHANGED <<kind, context, attempts, timer, copies>>

(* Mutant: an acknowledgement error is treated like a send error. *)
AckFailsRetried(r, i) ==
  /\ Current(r, i)
  /\ await[r] # "none" /\ landed[r]
  /\ Fail(r, i, TRUE)

(* The acknowledgement throws: the row stays as it is, the run goes on. *)
AckFails(r, i) ==
  /\ Current(r, i)
  /\ await[r] # "none" /\ landed[r]
  /\ NextRow(r, i)
  /\ UNCHANGED <<columns, copies>>

(* The platform refuses the card: sendForwardOrFallback sends the fallback
   text at once, unless the socket has closed.  *)
Refused(r, i) ==
  /\ Current(r, i)
  /\ await[r] # "none" /\ ~landed[r]
  /\ \/ await[r] = "card" /\ Dispatch(r, i, "plain")
     \/ await[r] = "card" /\ Fail(r, i, TRUE)
     \/ await[r] = "plain" /\ Fail(r, i, RetryableKind(i))

(* No usable answer: the timer fires, a socket closes, or a success carries
   no message id.  The error is NapCatActionOutcomeUnknownError.  *)
Unanswered(r, i) ==
  /\ Current(r, i)
  /\ await[r] # "none"
  /\ Fail(r, i, RetryableKind(i))

(* The ingress process dies and restarts: its runs are gone, the rows stay. *)
Crash ==
  /\ \E r \in Runs : batch[r] # {}
  /\ batch' = [r \in Runs |-> {}]
  /\ await' = [r \in Runs |-> "none"]
  /\ landed' = [r \in Runs |-> FALSE]
  /\ due' = [r \in Runs |-> 0]
  /\ UNCHANGED <<columns, copies>>

(* Time passes while every live run awaits an action whose timer is armed:
   between two actions a run does not yield.  *)
Tick ==
  /\ \A r \in Runs : batch[r] # {} => await[r] # "none" /\ due[r] > 0
  /\ \/ \E i \in Rows : timer[i] > 0
     \/ \E r \in Runs : due[r] > 0
  /\ timer' = [i \in Rows |-> IF timer[i] > 0 THEN timer[i] - 1 ELSE 0]
  /\ due' = [r \in Runs |-> IF due[r] > 0 THEN due[r] - 1 ELSE 0]
  /\ UNCHANGED <<status, kind, context, attempts, retry, receipt, batch, await,
                 landed, copies>>

-----------------------------------------------------------------------------
EmitterStep(r) ==
  \E i \in Rows : \/ Send(r, i) \/ NotSent(r, i) \/ BadImage(r, i)
                  \/ Receipt(r, i) \/ AckFails(r, i) \/ Refused(r, i)
                  \/ Unanswered(r, i)

WorkerStep ==
  \/ \E i \in Rows, k \in Kinds, routed \in BOOLEAN : Enqueue(i, k, routed)
  \/ \E S \in SUBSET Rows : Publish(S) \/ Discard(S) \/ Cancel(S)

Next ==
  \/ WorkerStep
  \/ \E r \in Runs : Claim(r) \/ EmitterStep(r)
  \/ Maintain
  \/ Crash
  \/ Tick

Spec == Init /\ [][Next]_vars

(* The emitter timer, the maintenance timer and the action timers of a live
   ingress process keep firing.  Nothing is assumed of the worker, of the
   platform's answers, or of how often the process crashes.  *)
Fairness ==
  /\ WF_vars(\E r \in Runs : Claim(r))
  /\ \A r \in Runs : WF_vars(EmitterStep(r))
  /\ WF_vars(Maintain)
  /\ WF_vars(Tick)

FairSpec == Spec /\ Fairness

-----------------------------------------------------------------------------
(* Properties *)

TypeOK ==
  /\ status \in [Rows -> Statuses]
  /\ kind \in [Rows -> AllKinds]
  /\ context \in [Rows -> {"none", "routed", "turn"}]
  /\ attempts \in [Rows -> Nat]
  /\ retry \in [Rows -> BOOLEAN]
  /\ timer \in [Rows -> Nat]
  /\ receipt \in [Rows -> Nat]
  /\ batch \in [Runs -> SUBSET Rows]
  /\ await \in [Runs -> {"none", "card", "plain"}]
  /\ landed \in [Runs -> BOOLEAN]
  /\ due \in [Runs -> Nat]
  /\ copies \in [Rows -> Nat]

(* A row that a run holds, however late, is never up for another claim. *)
Closed(i) == \/ status[i] \in {"sending", "cancelled"}
             \/ status[i] = "failed" /\ ~retry[i]
HeldRowsClosed ==
  /\ \A r \in Runs : \A i \in batch[r] : Closed(i)
  /\ \A r, s \in Runs : r # s => batch[r] \cap batch[s] = {}

(* The group sees a forward card (or its fallback) and a generated image at
   most once, through crashes, timeouts, quarantine, cancellation, failed
   acknowledgements and overlapping emitter runs.  *)
AtMostOneCopy == \A i \in Rows : kind[i] \in CarefulKinds => copies[i] <= 1

(* Every claim shows a row at most once, whatever its kind, so the retry
   limit of markOutboxFailed also bounds the repetitions in the group.  *)
CopiesWithinAttempts ==
  \A i \in Rows : copies[i] <= attempts[i] /\ attempts[i] <= MaxAttempts

(* A reply whose assistant turn has not been committed is invisible: no part
   of it has been shown, whatever else happened to the row.  *)
DraftsInvisible == \A i \in Rows : context[i] = "routed" => copies[i] = 0

(* `sent' is final: no late failure, quarantine or cancellation of another
   run takes a confirmed row back, and its platform id never changes.  *)
SentIsFinal ==
  [][\A i \in Rows : status[i] = "sent" =>
        status'[i] = "sent" /\ receipt'[i] = receipt[i]]_vars

(* A cancelled row that no emitter run holds stays cancelled: neither a late
   publication of its reply nor a claim brings the deleted conversation back into
   the group.  A run that holds it ends its attempt whatever the status is by now,
   and markOutboxFailed may then make a cancelled row retryable: a text in any
   case, another row only if this attempt has not reached the group. *)
CancelledIsFinal ==
  [][\A i \in Rows :
        status[i] = "cancelled" /\ status'[i] # "cancelled" =>
          \E r \in Runs :
            /\ Current(r, i) /\ i \notin batch'[r]
            /\ \/ status'[i] = "sent" /\ landed[r]
               \/ status'[i] = "failed" /\ (retry'[i] => kind[i] = "text" \/ ~landed[r])]_vars

(* A row that was made visible ends up confirmed, cancelled, or given up. *)
Settled(i) == \/ status[i] \in {"sent", "cancelled"}
              \/ status[i] = "failed" /\ ~retry[i]
EventuallySettled == \A i \in Rows : status[i] = "pending" ~> Settled(i)

(* Forward cards and generated images obey OutboxDelivery. *)
CarefulRows == {i \in Rows : kind[i] \in CarefulKinds}
Delivery == INSTANCE OutboxDelivery WITH
  offered   <- {i \in CarefulRows :
                  status[i] \notin {"unused", "deleted", "preparing"}},
  shown     <- [i \in Rows |-> IF i \in CarefulRows THEN copies[i] ELSE 0],
  confirmed <- {i \in CarefulRows : status[i] = "sent"}
ImplementsDelivery == Delivery!Spec
=============================================================================
