------------------------------ MODULE Consumer ------------------------------
(***************************************************************************)
(* ConsumerRunner: the worker's loop over the shared `messages' table.     *)
(*                                                                         *)
(* Messages are numbered by their autoincrement id.  The watermark and the *)
(* completed set are rows of the shared database and survive a crash of    *)
(* the worker; the per-key queues, the running tasks and the poll in       *)
(* flight are memory.  The worker is one Node.js thread: a step is what    *)
(* runs between two awaits.  Each row of a poll awaits keyOf, and between  *)
(* two rows tasks of the same process finish.                              *)
(*                                                                         *)
(* The handler is abstracted to its outcome: it calls done, or it throws.  *)
(***************************************************************************)
EXTENDS Integers, Sequences, FiniteSets

CONSTANTS
  NMsgs,              \* messages ever inserted (bound)
  Keys,               \* keys keyOf can return
  NoKey,              \* the empty key
  BatchSize,          \* batchSize (50)
  MaxConcurrentKeys,  \* maxConcurrentKeys (8)
  DefaultBackoff,     \* defaultKeyBackoffMs (5 s), in ticks
  MaxBackoff,         \* maxKeyBackoffMs (30 s), in ticks
  MaxFailures,        \* failures of one message that are counted (bound)
  MaxFaults,          \* crashes of the worker and failed polls (bound)
  Poison,             \* messages whose handler always throws
  Unstable            \* messages whose key may change

Msgs == 1..NMsgs

ASSUME ConsumerAssumption ==
  /\ NMsgs \in Nat /\ BatchSize \in Nat /\ MaxConcurrentKeys \in Nat
  /\ DefaultBackoff \in Nat \ {0} /\ MaxBackoff \in Nat
  /\ MaxFailures \in Nat /\ MaxFaults \in Nat
  /\ Poison \subseteq Msgs /\ Unstable \subseteq Msgs
  /\ IsFiniteSet(Keys) /\ NoKey \notin Keys

VARIABLES
  last,        \* MAX(messages.id)
  key,         \* what keyOf returns for each message
  cutover,     \* conversation_context_meta.cutover_message_id
  watermark,   \* consumers.watermark_id
  completed,   \* consumer_completed_messages
  up,          \* the worker process is running
  rows,        \* rows the poll in flight has fetched and not looked at
  queued,      \* queuedAny of the poll in flight
  queue,       \* queue of each KeyState
  backoff,     \* ticks left until backoffUntil of each KeyState
  run,         \* the message each busy key works on, 0 for an idle key
  leaving,     \* the task of the key is over, its `finally' has not run
  handled,     \* messages whose handler has called done (history)
  failures,    \* how often the handler of each message failed (history)
  faults

durable == <<last, key, cutover, watermark, completed>>
memory == <<up, rows, queued, queue, backoff, run, leaving>>
history == <<handled, failures, faults>>
vars == <<last, key, cutover, watermark, completed, up, rows, queued, queue,
          backoff, run, leaving, handled, failures, faults>>

Larger(a, b) == IF a > b THEN a ELSE b
Smaller(a, b) == IF a < b THEN a ELSE b

Init == /\ last = 0
        /\ key = [m \in Msgs |-> NoKey]
        /\ cutover = 0
        /\ watermark = 0
        /\ completed = {}
        /\ up = TRUE
        /\ rows = {}
        /\ queued = FALSE
        /\ queue = [k \in Keys |-> <<>>]
        /\ backoff = [k \in Keys |-> 0]
        /\ run = [k \in Keys |-> 0]
        /\ leaving = [k \in Keys |-> FALSE]
        /\ handled = {}
        /\ failures = [m \in Msgs |-> 0]
        /\ faults = 0

-----------------------------------------------------------------------------
(* The environment *)

(* The ingress process inserts a message.  Its key is what keyOf will find. *)
Arrive(k) ==
  /\ last < NMsgs
  /\ last' = last + 1
  /\ key' = [key EXCEPT ![last + 1] = k]
  /\ UNCHANGED <<cutover, watermark, completed, memory, history>>

(* What keyOf reads changes: #clear deletes the persisted route, a user is
   blacklisted, a command is renamed.  *)
Rekey(m, k) ==
  /\ m \in Unstable /\ m <= last
  /\ key[m] # k
  /\ key' = [key EXCEPT ![m] = k]
  /\ UNCHANGED <<last, cutover, watermark, completed, memory, history>>

-----------------------------------------------------------------------------
(* The consumer's rows in the shared database *)

Boundary == Larger(watermark, cutover)

(* Mutant: the boundary of the poll is the newest completed message. *)
PendingPastCompleted == {m \in 1..last : m > Boundary /\ \A n \in completed : m > n}

Pending == {m \in 1..last : m > Boundary /\ m \notin completed}

(* pollMessages: ORDER BY id LIMIT BatchSize *)
Batch == {m \in Pending : Cardinality({n \in Pending : n < m}) < BatchSize}

(* Mutant: the watermark is set to the message, as advanceWatermark would. *)
CompleteAdvance(m) ==
  /\ watermark' = Larger(watermark, m)
  /\ completed' = {n \in completed \cup {m} : n > watermark'}

(* completeConsumerMessage advances across the contiguous prefix. *)
Complete(m) ==
  LET done == completed \cup {m} IN
  /\ watermark' \in Boundary..last
  /\ (Boundary + 1)..watermark' \subseteq done
  /\ watermark' + 1 \notin done
  /\ completed' = {n \in done : n > watermark'}

-----------------------------------------------------------------------------
(* Dispatch *)

Busy == {k \in Keys : run[k] # 0}

Ready(q) == {k \in Keys : q[k] # <<>> /\ run[k] = 0 /\ backoff[k] = 0}

(* dispatchAll starts the head of every ready key while there is capacity.
   The order of the keys is left open.  *)
Dispatched(q) ==
  {[k \in Keys |-> IF k \in K THEN Head(q[k]) ELSE run[k]] :
     K \in {K \in SUBSET Ready(q) :
              \/ Cardinality(Busy) + Cardinality(K) = MaxConcurrentKeys
              \/ K = Ready(q) /\ Cardinality(Busy) + Cardinality(K) <= MaxConcurrentKeys}}

(* poll fetches a batch, unless a poll is in flight. *)
Poll ==
  /\ up /\ rows = {}
  /\ Batch # {}
  /\ rows' = Batch
  /\ queued' = FALSE
  /\ UNCHANGED <<durable, up, queue, backoff, run, leaving, history>>

NextOf(m) == m \in rows /\ \A n \in rows : m <= n

InQueue(q, m) == \E x \in 1..Len(q) : q[x] = m

(* The rest of the poll, once row m is dealt with. *)
EndOfRow(m, q, any) ==
  /\ rows' = rows \ {m}
  /\ queued' = any
  /\ queue' = q
  /\ IF rows' = {} /\ any THEN run' \in Dispatched(q) ELSE run' = run

(* keyOf(row) was awaited; the row has been completed in the meantime. *)
RowDone(m) ==
  /\ NextOf(m)
  /\ m \in completed
  /\ EndOfRow(m, queue, queued)
  /\ UNCHANGED <<durable, up, backoff, leaving, history>>

(* A message without a key is complete. *)
RowUnroutable(m) ==
  /\ NextOf(m)
  /\ m \notin completed
  /\ key[m] = NoKey
  /\ Complete(m)
  /\ handled' = handled \cup {m}
  /\ EndOfRow(m, queue, queued)
  /\ UNCHANGED <<last, key, cutover, up, backoff, leaving, failures, faults>>

(* Mutant: a new row is put before the queued ones. *)
RowQueuedFirst(m) ==
  /\ NextOf(m)
  /\ m \notin completed
  /\ key[m] # NoKey
  /\ IF InQueue(queue[key[m]], m)
       THEN EndOfRow(m, queue, queued)
       ELSE EndOfRow(m, [queue EXCEPT ![key[m]] = <<m>> \o @], TRUE)
  /\ UNCHANGED <<durable, up, backoff, leaving, history>>

(* A row with a key joins the queue of the key, unless it is there already. *)
RowQueued(m) ==
  /\ NextOf(m)
  /\ m \notin completed
  /\ key[m] # NoKey
  /\ IF InQueue(queue[key[m]], m)
       THEN EndOfRow(m, queue, queued)
       ELSE EndOfRow(m, [queue EXCEPT ![key[m]] = Append(@, m)], TRUE)
  /\ UNCHANGED <<durable, up, backoff, leaving, history>>

(* keyOf or the database throws: the poll ends without a dispatch. *)
PollFails ==
  /\ rows # {}
  /\ faults < MaxFaults
  /\ faults' = faults + 1
  /\ rows' = {}
  /\ UNCHANGED <<durable, up, queued, queue, backoff, run, leaving, handled, failures>>

(* retryTimer runs dispatchAll every 250 ms. *)
Retry ==
  /\ up
  /\ run' \in Dispatched(queue)
  /\ run' # run
  /\ UNCHANGED <<durable, up, rows, queued, queue, backoff, leaving, history>>

-----------------------------------------------------------------------------
(* A task *)

Running(k) == run[k] # 0 /\ ~leaving[k]

Shifted(k) == IF queue[k] # <<>> /\ Head(queue[k]) = run[k]
                THEN [queue EXCEPT ![k] = Tail(@)] ELSE queue

(* The handler calls done and returns. *)
Finish(k) ==
  /\ Running(k)
  /\ run[k] \notin Poison
  /\ queue' = Shifted(k)
  /\ Complete(run[k])
  /\ handled' = handled \cup {run[k]}
  /\ leaving' = [leaving EXCEPT ![k] = TRUE]
  /\ UNCHANGED <<last, key, cutover, up, rows, queued, backoff, run, failures, faults>>

(* nextBackoff.  A dispatch has reset backoffUntil before the task ran. *)
NextBackoff(k) == IF backoff[k] = 0 THEN DefaultBackoff
                  ELSE Smaller(MaxBackoff, Larger(DefaultBackoff, backoff[k] * 2))

Failed(k) ==
  /\ run[k] \in Poison \/ failures[run[k]] < MaxFailures
  /\ failures' = [failures EXCEPT ![run[k]] = Smaller(@ + 1, MaxFailures)]
  /\ backoff' = [backoff EXCEPT ![k] = NextBackoff(k)]
  /\ leaving' = [leaving EXCEPT ![k] = TRUE]

(* The handler throws: the message stays at the head of its queue. *)
Fail(k) ==
  /\ Running(k)
  /\ Failed(k)
  /\ UNCHANGED <<durable, up, rows, queued, queue, run, handled, faults>>

(* done has left the queue when completeConsumerMessage throws. *)
FinishFails(k) ==
  /\ Running(k)
  /\ run[k] \notin Poison
  /\ queue' = Shifted(k)
  /\ handled' = handled \cup {run[k]}
  /\ Failed(k)
  /\ UNCHANGED <<durable, up, rows, queued, run, faults>>

(* The `finally' of dispatch: the key is free and dispatched again. *)
Release(k) ==
  /\ leaving[k]
  /\ run' = [run EXCEPT ![k] =
               IF queue[k] # <<>> /\ backoff[k] = 0 THEN Head(queue[k]) ELSE 0]
  /\ leaving' = [leaving EXCEPT ![k] = FALSE]
  /\ UNCHANGED <<durable, up, rows, queued, queue, backoff, history>>

(* Backoff elapses.  A tick stands for seconds, in which tasks that are over
   have left and the retry timer has run.  *)
Tick ==
  /\ \E k \in Keys : backoff[k] > 0
  /\ \A k \in Keys : ~leaving[k]
  /\ Ready(queue) = {} \/ Cardinality(Busy) >= MaxConcurrentKeys
  /\ backoff' = [k \in Keys |-> IF backoff[k] > 0 THEN backoff[k] - 1 ELSE 0]
  /\ UNCHANGED <<durable, up, rows, queued, queue, run, leaving, history>>

-----------------------------------------------------------------------------
(* Crash, restart and cutover *)

Crash ==
  /\ up /\ faults < MaxFaults
  /\ faults' = faults + 1
  /\ up' = FALSE
  /\ rows' = {}
  /\ queued' = FALSE
  /\ queue' = [k \in Keys |-> <<>>]
  /\ backoff' = [k \in Keys |-> 0]
  /\ run' = [k \in Keys |-> 0]
  /\ leaving' = [k \in Keys |-> FALSE]
  /\ UNCHANGED <<durable, handled, failures>>

Restart ==
  /\ ~up
  /\ up' = TRUE
  /\ UNCHANGED <<durable, rows, queued, queue, backoff, run, leaving, history>>

(* cutoverShortTermContext retires what was received, with the worker down. *)
Cutover ==
  /\ ~up
  /\ cutover # last
  /\ cutover' = last
  /\ completed' = {}
  /\ UNCHANGED <<last, key, watermark, memory, history>>

-----------------------------------------------------------------------------
TaskEnds(k) == Finish(k) \/ Fail(k) \/ FinishFails(k)

RowStep(m) == RowDone(m) \/ RowUnroutable(m) \/ RowQueued(m)

Next ==
  \/ \E k \in Keys \cup {NoKey} : Arrive(k)
  \/ \E m \in Msgs, k \in Keys \cup {NoKey} : Rekey(m, k)
  \/ Poll
  \/ \E m \in Msgs : RowStep(m)
  \/ PollFails
  \/ Retry
  \/ \E k \in Keys : TaskEnds(k) \/ Release(k)
  \/ Tick
  \/ Crash
  \/ Restart
  \/ Cutover

Spec == Init /\ [][Next]_vars

(* The timers fire, promises settle, every handler returns or throws, time
   passes and a dead worker is restarted.  *)
Fairness ==
  /\ WF_vars(Poll)
  /\ WF_vars(\E m \in Msgs : RowStep(m))
  /\ WF_vars(Retry)
  /\ \A k \in Keys : WF_vars(TaskEnds(k)) /\ WF_vars(Release(k))
  /\ WF_vars(Tick)
  /\ WF_vars(Restart)

FairSpec == Spec /\ Fairness

-----------------------------------------------------------------------------
(* Properties *)

TypeOK ==
  /\ last \in 0..NMsgs
  /\ key \in [Msgs -> Keys \cup {NoKey}]
  /\ cutover \in 0..last
  /\ watermark \in 0..last
  /\ completed \subseteq 1..last
  /\ up \in BOOLEAN
  /\ rows \subseteq 1..last
  /\ queued \in BOOLEAN
  /\ queue \in [Keys -> Seq(1..last)]
  /\ backoff \in [Keys -> Nat]
  /\ run \in [Keys -> 0..last]
  /\ leaving \in [Keys -> BOOLEAN]
  /\ handled \subseteq 1..last
  /\ failures \in [Msgs -> 0..MaxFailures]
  /\ faults \in 0..MaxFaults

Retired(m) == m <= cutover
Committed(m) == m <= Boundary \/ m \in completed

(* Whatever the order in which keys finish, and through faults, failed
   handlers and failed acknowledgements, no message is left behind: what a
   poll will never return again was handled, or retired by the cutover.  *)
NothingSkipped ==
  \A m \in 1..last : Committed(m) => m \in handled \/ Retired(m)

(* The messages obey KeyedConsumption: each is settled by its own handler or
   by the cutover, in whatever order keys finish, and stays settled while the
   watermark moves over it, the table is pruned and the worker dies.  *)
Consumption == INSTANCE KeyedConsumption WITH settled <- {m \in 1..last : Committed(m)}
ImplementsConsumption == Consumption!Spec

(* Messages of one key are handled in id order, also after a failure or a
   restart: when a task runs, its predecessors on the key have been
   handled.  Messages whose key changes are exempt.  *)
InOrder ==
  \A k \in Keys : run[k] # 0 /\ run[k] \notin Unstable =>
    \A n \in (1..run[k] - 1) \ Unstable :
      key[n] = key[run[k]] => n \in handled \/ Retired(n)

(* Every message ends up handled, unless it or a message of its key is
   poisonous: a failing key does not stop the others (consumer-runner.ts:13),
   until blocked messages fill the batch.  *)
Blocked(m) == \E p \in Poison : key[p] = key[m] /\ p <= last
Crowded == Cardinality({m \in Pending : Blocked(m)}) >= BatchSize
EventuallyHandled ==
  \A m \in Msgs : (m <= last /\ ~Blocked(m)) ~> (Committed(m) \/ Blocked(m) \/ Crowded)
=============================================================================
