# ubot-ai-agent: TLA+ specifications, model checking and proofs

This directory models the asynchronous core of the QQ group agent: how a group
message travels from the socket through the shared database and the worker to a
reply in the group, the queues, leases and timers around that path, and what
must stay true while processes crash, timers overlap, the platform loses answers
and users clear or recall what they wrote.

Everything is translated from the TypeScript sources; `PROJECT.json` names the
lines behind every definition. Paths below are relative to `src/src/` of the
repository unless they start with `README`.

Contents: [1 System](#1-the-system) · [2 Hard behaviours](#2-hard-behaviours) ·
[3 Modules](#3-modules-and-the-code) · [4 Runs](#4-runs) · [5 Fairness](#5-fairness) ·
[6 Divergences](#6-where-code-and-documentation-disagree) · [7 Proofs](#7-proofs) ·
[8 Not modelled](#8-what-is-not-modelled) · [9 Extending](#9-extending-the-project)

## 1 The system

Three Node.js processes run under one systemd target and share one SQLite file
(`shared/sqlite.ts`, WAL mode, every `SharedDb` method one transaction):

```
 NapCat (QQ) <--reverse WebSocket--> INGRESS --messages, retracted--> SQLite --> WORKER
                                     INGRESS <------ outbox ------- SQLite <--- WORKER
                                     ADMIN   <------ settings ----> SQLite
```

- **Ingress** (`index-ingress.ts`) owns the only socket to NapCat. It inserts
  group messages, handles recall notices, drains the outbox and deletes result
  cards after 90 s.
- **Worker** (`index-worker.ts`) polls `messages`, runs the handlers and writes
  replies to `outbox`. It never touches the network to QQ.
- **Admin** (`index-admin.ts`) serves the web console and edits settings.

Each process is single-threaded: what runs between two `await`s is atomic. The
processes interleave at the granularity of SQLite transactions. A process that
dies is restarted by systemd after three seconds; its memory is lost and its
rows are not.

### Components

| Component | State | Operations | Interacts with | Correct when |
|---|---|---|---|---|
| Outbox and emitter (`shared/sqlite.ts`, `index-ingress.ts`, `ingress-forward-delivery.ts`) | table `outbox`; in memory, the batch each emitter run works on | enqueue, publish, discard, cancel, claim, acknowledge, fail, quarantine, send | worker writes, ingress claims, NapCat answers | a row is held by one run; cards and images are shown at most once; drafts are invisible; `sent` and `cancelled` last |
| ConsumerRunner (`shared/consumer-runner.ts`) | `consumers.watermark_id`, `consumer_completed_messages`; in memory, per-key queues, running tasks, back-off | poll, route, dispatch, done, fail, retry, back off | messages table, handler of the worker | nothing skipped, order per key, other keys go on when one fails |
| Reply turn (`index-worker.ts`, `bot.ts`, `services/inflight-manager.ts`) | table `inflight`, drafts of the reply, assistant turns | decide, begin, generate, draft parts, append turn, notify, end | runner, contexts, outbox | whole replies, one reply per message, silence after a clear |
| Conversation context (`services/conversation-context-repository.ts`, `conversation-context-router.ts`) | topics, causal branches, turns, message routes | resolve route, append user and assistant turn, clear user, clear group, cut over | runner (keys), reply turn | a branch is a causal history; a clear removes all of it |
| Message recall (`message-recall-service.ts`) | table `message_recalls`, registry of notices; in memory, the active run | acknowledge with policy, claim, delete, retry, quarantine, expire | outbox acknowledgement, NapCat | one deletion, in time, no card forgotten |
| Ingress intake | `messages` with a unique (group, message) pair, `retracted`, hourly counts | deduplicate, drop backlog, limit, insert, recall | NapCat, worker | a message enters once; the limit counts what was accepted |
| NapCat transport (`napcat-reverse-server.ts`) | socket, pending actions | call action, time out, close, reconnect | emitter, recall service | every action settles once, as answered, not sent or unknown |
| LLM semaphore, group lock (`services/llm-semaphore.ts`, `group-lock.ts`) | permits, queues of waiters | acquire, time out, abort, release | handlers | never more than the limit, no permit lost |
| Gateway breaker, reply-model router (`gateway-proxy.ts`, `reply-model-router.ts`) | breaker state, failure counts, cooldowns | call, trip, probe, reset | providers | one probe at a time, recovery after the cooldown |
| HTML preview (`html-preview-repository.ts`, `html-preview-service.ts`) | job rows with leases, published files | enqueue, claim, renew, publish, announce, fail, expire | worker, outbox | one owner per job, one announcement |
| Scheduled reminders (`scheduled-reminder-*.ts`) | reminder rows with claims | create, claim, send, mark, reschedule | outbox | each occurrence once |
| BT search (`bt-search-service.ts`) | the running search, queue of at most four, `closed` | submit, start engine, abort, finish, stop | worker, outbox | bounded queue, one search at a time, nothing runs after `stop()` |
| Image generation (`image-generation-service.ts`, `image-pipeline.ts`) | cooldown per user, staged files | reserve, generate, stage | outbox | cooldown kept, files exist when sent |
| Daily report, holiday countdown, maintenance | day of the last run | check, claim, run, mark | outbox | once a day |
| Admin authentication, sessions, policies | sessions, invites, bindings | log in, bind, revoke | admin HTTP server | a revoked session is dead |
| Admin server, task store, bulk, audit | task rows | start, sweep, finish | settings, maintenance | stale tasks end |
| Group configuration, settings | versioned documents | read, write with version | all processes | no lost update |
| AI providers, prompts; memory, knowledge, profiles; participation; memes; metrics; parsing; front end | mostly none | remote calls, text, scoring | reply turn | outside the protocol |

`PROJECT.json` lists all 26 components with their files and status.

## 2 Hard behaviours

- **Overlapping emitter runs.** `setInterval(runEmitter, 400)` does not wait for
  the previous run, and an action may take ten seconds.
- **Ambiguous outcomes.** An action that timed out, or whose socket closed, may
  have reached the group. The close event of an old socket settles the actions
  of the new one.
- **Claims without owners.** A row in `sending` after a crash, or after a failed
  write, belongs to nobody; a run that is merely slow still holds it. The same
  holds for recall jobs, preview leases and reminder leases.
- **Two-step visibility.** The parts of a reply are drafted one by one between
  awaits and published in the transaction that stores the assistant turn. A
  preview directory is placed before its row says so.
- **State read before an await.** A poll awaits `keyOf` for every row of its
  batch while tasks complete other rows of it; the handler reads the recall mark
  once; the emitter works from row objects of its claim; a scheduled job reads
  the day and the clock before it waits for a lock and a model.
- **A clear in the middle.** `#clear` runs under another consumer key, so it
  meets handlers of the same user at any await, and branches of other users hang
  on those it removes.
- **Two tasks on one message.** After a clear the stored route is gone and the
  next poll queues the running message under a new key.
- **Hand-over of a slot.** Lock, permit and search slot are passed on without
  being freed, while the receiver may time out or be aborted.
- **Late outcomes.** A model call that began before its circuit opened reports
  to a circuit of another time; an answer comes after later messages were routed.
- **Two writers.** The admin process edits rows the worker has claimed.
- **Registry rows that outlive their process**, and time windows (20 s, 60 s,
  90-105 s, one minute of the day) that race restarts.

`PROJECT.json` lists each hazard at its line together with the properties that
cover it, or the reason why none does.

## 3 Modules and the code

| Module | Part of the system | Theorems in |
|---|---|---|
| `OutboxDelivery` | what the outbox promises for cards and images | |
| `Outbox` | outbox rows and emitter runs; implements `OutboxDelivery` | `Outbox_proofs` |
| `KeyedConsumption` | what the consumer promises the handler | |
| `Consumer` | `ConsumerRunner`: polls, keys, back-off, watermark; implements `KeyedConsumption` | `Consumer_proofs` |
| `ReplyTurn` | one user's conversation from `handleMessage` to the published reply | `ReplyTurn_proofs` |
| `ConversationContext` | the forest of turns and branches of a group | `ConversationContext_proofs` |
| `ReplyCalls` | group lock, LLM semaphore, model router, circuit breakers | `ReplyCalls_proofs` |
| `Ingress` | reverse WebSocket, intake of messages, recall notices | `Ingress_proofs` |
| `MessageRecall` | deletion of adult cards | `BtSearch_proofs` |
| `HtmlPreview` | preview requests, leases, directories, cleanup, removal | `HtmlPreview_proofs` |
| `Schedules` | maintenance scheduler, daily messages, reminders | `ConversationContext_proofs` |
| `BtSearch` | search queue, child process, progress and answer | `BtSearch_proofs` |

Two modules of proofs serve two components each, which share no state. Those that
are extended next to another one, `MessageRecall` and `ConversationContext`, have
names of their own for what every specification has: `RecallInit`, `RecallNext`,
`RecallSpec`, `ContextInit` and so on.

`MCOutbox`, `MCConsumer`, `MCSchedules`, `MCReplyCalls` and `MCIngress` add model
values, concrete functions and symmetry. The modules meet at their borders:
`Ingress.Receive` makes the rows that `Consumer.Poll` reads, and its `mark` is
the `retracted` of `ReplyTurn` and `MessageRecall`; the calls of `Ingress` are
the actions `Outbox` and `MessageRecall` await, and its `ReportsTrue` is what they
assume of them; `Consumer` abstracts the handler that `ReplyTurn` details, and
`ReplyTurn` the order and back-off of `Consumer`; `ReplyTurn.Generate` stands for
a turn of `ReplyCalls`, its generations for the branches of `ConversationContext`;
`Outbox.Publish` and `Cancel` are the outbox side of `ReplyTurn.Persist` and
`Clear`; the `sent` of `Outbox.Receipt` is what `MessageRecall.Ack` starts from;
`HtmlPreview.Announce`, `Schedules.Send` and `BtSearch.Answer` enqueue rows of
`Outbox`.

Definitions whose comment starts with "Mutant:" belong to no specification: each
is a plausible bug in the definition that follows it, and putting it in place of
that definition makes a property fail (`PROJECT.json`, "mutants").

### Outbox

| TLA+ | code |
|---|---|
| `status`, `kind`, `attempts`, `retry`, `receipt` | columns of `outbox`; `retry` is `retry_after IS NOT NULL` |
| `context` | `topic_id`, `branch_id`, `turn_id` of the row: none, routed, or with its turn |
| `batch[r]`, `await[r]` | a live `runEmitter` call: rows of its claim not finished, the action it awaits |
| `timer`, `due` | time left until a `sending` row is stale (60 s), a `failed` one is retried (2 s), an action times out (10 s) |
| `copies`, `landed` | what the group really saw (no variable of the program) |
| `Enqueue`, `Publish`, `Discard`, `Cancel` | `enqueueOutbox`, `appendAssistantTurn`, `discardPreparingOutbox*`, `clearUser`/`clearGroup` |
| `Claim`, `Maintain` | `claimOutbox`, `recoverStaleSendingOutbox` |
| `Send`, `NotSent`, `BadImage`, `Refused`, `Unanswered`, `Receipt`, `AckFails` | `deliverOutboxRow`, `sendForwardOrFallback`, `markOutboxDeliveryFailed`, `ackOutboxDelivery` |

Text and plain images take the same path and are one kind. The emitter works
from the rows of its claim, so no delivery action reads `status`: that is the
interesting part of the model. A row can be cancelled while a run holds it, and
`Fail` then takes it out of `cancelled` like any other: `CancelledIsFinal` says that
this is the only way out, and when the row can be sent once more.

### Consumer

`watermark`, `completed`, `cutover` are the tables; `rows` and `queued` the poll
in flight; `queue`, `run`, `backoff`, `leaving` the `KeyState` of each key.
`Poll` fetches a batch, `RowDone`, `RowUnroutable` and `RowQueued` are the rest of
the loop body after the await of `keyOf`, with the dispatch that ends the poll.
`Finish` is `done()` and the return of the handler, `FinishFails` a
`completeConsumerMessage` that throws after the shift of the queue, `Fail` a
throwing handler, `Release` the `finally` that dispatches the next message,
`Retry` the timer. `Rekey` changes what `keyOf` would return, which `#clear` and
blacklisting do. `Cutover` is `cutoverShortTermContext`, run with the worker down.

### ReplyTurn

One user's conversation. Generation g is the causal branch after g - 1 clears and
names both the consumer key and the registry key made of it. `task[g]` is the
position in `handleMessage` of the task under consumer key g; it may work on a
younger generation, since the handler resolves the route again. An attempt is a
task that reached `begin()`. Steps are the stretches between awaits:
`Start` (recall mark, then the await of the message kind), `Begin` (route, drafts
of earlier attempts, recovery check, `decideNewMessage`, `begin`), `Generate`,
`SendPart`, `Persist` / `Abandon`, `End`. `Deliver` stands for the emitter.
Two things are worth knowing when reading it. `decideNewMessage` may request the
cancellation of the older task, but `begin` overwrites the row in the same
synchronous stretch, so `Begin` writes `cancel |-> FALSE`; and nothing but the
clear and the owner's own end removes a registry row, so rows survive `Crash`.

### ConversationContext

`turns`, `branches`, `live`, `active` and `route` are the tables
`conversation_turns`, `conversation_branches` (deleted ones stay in the sequence
and leave `live`), `conversation_user_active_routes` and
`conversation_message_routes`. `RouteAlone`, `RouteQuotation` and
`RouteContinuation` are the outcomes of `resolveRoute` with `saveMessageRoute`
(`Save`: append to the branch, or fork when the parent is not its head).
`Answer` is `appendAssistantTurn` with the splice that puts a late answer before
an implicit continuation of its question; `Unanswered` a message completed
without one. `ClearUser` removes the largest set of the user's own branches
that nothing kept hangs on (the loop of `clearUser`), `ClearGroup` everything.
Topics follow from the branches, and whether a text looks like a continuation is
open at every routing. `Path` is the whole chain of turns; the limits by which
`getCausalTurns` cuts what a model is shown (256 turns read, 32 turns or 24000
characters kept) are left out.

### ReplyCalls

A turn goes through `Enter` (`GroupLock.acquire`), `Begin` (a session of
`ReplyModelRouter` sees the settings), `Attempt` (next candidate, its circuit in
`GatewayProxy.clients`, a permit or a place in the queue of `LlmSemaphore`), `Call`
or `TurnedAway` (the circuit lets it through or not), `Settle` (the outcome and
what the catch branch does with it), `Leave` (`PassPermit`), `Onward` (next
candidate or end) and `Exit` (`Unlock`: hand over or free). `QueueTimeout` and
`Abort` end a wait. `Cool` is the end of `cooldownMs`, `Edit` saved
settings: the next session replaces the circuit, the old one lives on in the
calls that hold it. `generation` is the counter by which a call knows that its
circuit has changed state since.

### Ingress

`conn` and `active` are the sockets of `NapCatReverseServer`, `call` the promise of
an action in `pendingActions`, `remote` what NapCat did with it (no variable of the
program). `CloseEvent` gives up every pending action, whichever socket closed
(`GivenUp`). `Receive` is `handleGroupMessage` with deduplication, the backlog
limit and the rate limit, `Recall` is `handleRecall`, `Prune` the maintenance,
`Take` the first checks of the worker. NapCat may push any event on any open
connection, late, again or never. Answers that NapCat words as a time-out of its
own (`napcat-action-errors.ts:18`), which count as unknown for cards and deletions,
and a `markRetracted` that throws (the error is swallowed,
`napcat-reverse-server.ts:278`, and the recall forgotten) are left out.

### MessageRecall

Times are ages since `sent_at`, in ticks of five seconds. `Run` is `runDue` up
to its first await: expire, quarantine, claim, skip what a notice has overtaken,
dispatch. `unsent` are the actions that found no socket (`NotSent` reschedules
or expires them), `wire` those on their way, `reached` what QQ has received.
`Notice` is `handleRecall` for a message that a job names. `RecordFails` is a
database error on the outcome, `Restart` the quarantine in `start()`.

### HtmlPreview

`status`, `lease`, `told`, `ttl`, `sha` are columns of `html_previews`; `file` is the
build in the page's directory. The handler of a request (`Accept`, or `Refuse`)
claims pages of its group, oldest first, until it has come to its own (`Claim`,
`Settle`, `AfterPage`), generates (`Generate`), moves the directory in place
(`Place`), publishes the row (`Publish`) and announces (`Announce`), or fails and
says so (`Fail`, `Apologise`). Two errors do not reach `fail()` or find no row to
fail: one after `publish()` leaves a published page with its lease and without an
announcement (`AnnounceFails`), and one outside `processClaim` ends the handler
(`GiveUp`), whose failure text is linked to no page while the page stays as it is
(`Excuse`, also for a refusal); if sending this text throws, the consumer runs the
handler again. `texts` and `left` record what such errors said and left, and are no
variables of the program. The hourly cleanup runs between these steps:
`List`, `Wipe`, `MarkExpired`, and when no page is left to expire (`GoOn` reads the
ids that are known), `RemoveOrphans`. `Remove` and `MarkDeleted` are the admin
process. The signal of a handler is not among the inputs: for previews nobody
requests a cancellation (`index-worker.ts:342`).

### Schedules

The unit of time is the 30 s interval of the jobs. `Poll` is the entry of
`runDueJobs`, `RunDaily` and `RunReminders` the start of a job with what it reads
and claims, `Send` a row in the outbox, `MarkDaily` and `MarkReminder` its record,
`SendFails` a text that cannot be built or enqueued. `RecordFails` is an error after
the row is in the outbox, in the rest of `sendText` or in `markSent`: it is logged and
the message counts as not sent. `CorrectionFails` is the second update of
`markSent` of a reminder, which moves it into the work hours. `lag` and `today` are the
clock and the day the job read at its start, as they look now. `WorkerEdit` is a
command, `AdminRead` and `AdminSave` the two halves of an edit in the admin
process. `count`, `unmarked` and `unrecorded` count messages and are no variables of
the program.

### BtSearch

`pc` is the position of a request in the handler, `search` and `execute`; `active`,
`waiters` and `closed` are fields of `BtSearchService`. `Acquire` and `Release`
are the queue, `Prepare` and `Spawn` the awaits before the child process, `Terminate`
the kill by budget, signal or shutdown, `Close` the close event. `Progress`,
`ProgressSent` and `FinishProgress` are the timer of the progress message and the
wait for it before an answer. `Answer` is the card or text of the handler's `try`;
`AnswerFails` is an error before it is in the group or after it (the recovery notice
at the end of `sendText` and after the card), which the catch branch excuses with
another text (`Excuse`). An error of the excuse leaves the handler, and the consumer
runs the message again (`ExcuseFails`). `answers` and `errors` count these. `Stop` cancels everything and waits for the searches
in `awaited`.

## 4 Runs

`CHECK_DEADLOCK FALSE` is used where the bounded world ends (no more rows,
messages, requests or calls). `MessageRecall` and `Schedules` never end (time
passes), and `ReplyCalls` has an explicit final stutter: they have the check on.

| Run | States | What it shows |
|---|---|---|
| `outbox` | 221 000 | two rows of all kinds, two overlapping runs: `HeldRowsClosed`, `AtMostOneCopy`, `CancelledIsFinal`, the refinement `ImplementsDelivery`, and `EventuallySettled` |
| `consumer` | 273 000 | three messages, two keys, one slot, a poisonous message, a message whose key changes, one fault, a cutover: `InOrder`, the refinement `ImplementsConsumption`, `EventuallyHandled` |
| `reply` | 301 000 | one message, a clear, a crash, a failure: `WholeReply`, `ClearedIsSilent` |
| `reply_two` | 49 000 | two messages on a branch, a crash, two failures: `OneReply`, `EventuallyAnswered` |
| `reply_restart` | | counterexample, section 6 |
| `recall` | 856 000 | two cards, a crash, a failed write: `OneDeletion`, `DispatchInTime`, `NoneForgotten`, `EventuallyTerminal` |
| `context` | 524 000 | three messages of two users with forks, quotations, late answers and a clear: `NothingForgotten`, `AnswerInPlace`, `OwnContinuation`, `ClearSparesOthers` |
| `calls` | 739 000 | two conversations behind a group lock and two turns without it, two models, an abort or a settings edit: `LockConserved`, `PermitsConserved`, `OneProbe`, `ClosesByProbe` |
| `ingress` | 2 426 000 | two messages in a bucket of one, an action over two connections: `ReportsTrue`, `RateBound`, `RecallHeeded`, `EveryCallSettles` |
| `preview` | 1 229 000 | two pages, one crash, one error at any step, cleanup and removal: `OneNotice`, `OneBuilding`, `PublishedIsServed`, `EventuallyTold` |
| `schedules` | 548 000 | report, countdown and two reminders, a crash, a failed send or record, an edit, a unit of slowness: `OncePerDay`, `RemindedOnce`, `EventuallyReminded`, `EveryDay` |
| `bt` | 1 170 000 | three requests, a queue of one, an abort, a shutdown, two errors of sending an answer: `OneSearch`, `QuietAfterStop`, `OneAnswer`, `EveryRequestEnds` |

### Bounds

- *Outbox*: two rows are enough for a run to hold a row while it awaits another
  and for two runs to share the table; a batch of two lets one claim take both,
  and rows enqueued later fall to the other run. Stale after 2 ticks, time-out
  after 1, retry after 1 keep the order of the real durations (60 > 10 > 2 s):
  a run becomes stale when its batch takes longer than the quarantine, as six
  unanswered actions in a row do in the code. Two attempts instead of three:
  one retry and one refusal to retry.
- *Consumer*: three messages give a gap in the completed set and a prefix that
  closes it; a batch of two leaves one message out; one slot makes keys
  compete. The back-off of two ticks at most keeps default < maximum.
- *ReplyTurn*: a reply of two parts can be half drafted. One message with one
  clear already puts two tasks on it. `MaxAttempts` is large enough that `Begin`
  is not blocked in an undisturbed behaviour of `reply_two` (two messages, two
  faults, one crash: five attempts). One generation more than clears.
- *MessageRecall*: 90, 100 and 105 s are 2, 4 and 5 ticks: the wait before the
  due time is cut from 18 ticks to 2, the differences that decide retries and
  expiry are exact; action time-out 2 ticks, stale after 6. Two cards suffice
  for one to delay the other.
- *ConversationContext*: three messages give a question, a continuation routed
  before its answer, and a quotation by another user of either; a fork of a fork
  needs three, and the loop of `clearUser` two rounds for it.
- *ReplyCalls*: one slot and two conversations queue for the lock, two permits
  and four turns for the semaphore; `Trip` is 2, so that a failure in between and a
  failure that trips differ; one turn has a backup to go on to.
- *Ingress*: window, backlog and memory of marks are one unit, the clock ends at
  three, so a row can be inside, at the edge of and outside each of them. Two
  connections overlap. No message is exempt from the limit (`Muted = {}`): two
  messages are needed to reach it, and with a third one the run takes too long. The
  theorem `Bounded` is about every set of exempt messages.
- *HtmlPreview*: a build may take two units, a lease one, as the default budget
  (300 s) exceeds the default lease; retention two, so that pages expire while
  others are built. Two pages block one another. One error meets every step once.
- *Schedules*: a day of six units with minutes of two: a job can miss its minute
  and the day can end while a job runs; a lease of zero is shorter than a slow job.
- *BtSearch*: one search, one waiting, one refused. Two errors to one request: its
  answer fails and its excuse, and it starts again.
- Crashes, failures, clears, aborts and edits are counted and bounded, and the
  bound is a constant in every module.

## 5 Fairness

Weak fairness only, on what timers, bounded awaits and the service manager
guarantee: `setInterval` timers (emitter, maintenance, poll, retry, recall,
scheduler), `callAction` time-outs, model-call time-outs, the budget of the search
engine, promises that settle, `Restart=on-failure`, the passing of time. Nothing
is assumed of users, of NapCat's answers or of the order in which keys are
dispatched. In `Consumer`, time does not pass while a ready key has a free slot
(`Tick`), because the back-off is counted in seconds and the dispatch timer in
milliseconds. In `Schedules` an admin who has read a row saves it in the end, as
the request handler does; time that passes while a job works is bounded by
`MaxSlow`, as the time-outs of the lock and of the model bound it.
`ReplyCalls` and `ConversationContext` claim no liveness: what ends a wait there is
a remote model, a time-out of its caller or a user.

`EventuallyAnswered` is stated for behaviours without crash and clear: the crash
case is refuted (`reply_restart`), and after a clear two tasks on one short
message can delete each other's drafts for ever, each failing at its publication
and trying again (`shared/sqlite.ts:2238`). `EventuallyHandled` ends where
blocked messages fill the batch. `EventuallyTold` ends with a crash, with the
removal or expiry of the page, with an error that has left the page without a notice,
or with an earlier page that an error has left waiting.

## 6 Where code and documentation disagree

`reply_restart` is a run that TLC finishes with a counterexample: a message
recovered after a crash meets the registry row of its own dead attempt, younger
than 20 s (systemd restarts after three), and is dropped as a duplicate and
completed, although `shared/consumer-runner.ts:202` counts on the restart to
recover it.

The models show more that a maintainer should know. None of it has a run of its
own, and the properties are stated so that they hold of the code as it is.

Delivery and replies
- README.md:34 promises that a send of unknown outcome is not repeated. That
  holds for cards and generated images; text and plain images are retried
  (`index-ingress.ts:148`).
- `#clear` cancels a text that an emitter run holds; when this attempt fails, the text
  is retryable and comes into the group after the conversation was cleared (the same
  `markOutboxFailed`; `CancelledIsFinal` allows this way out and no other).
- `shared/sqlite.ts:1783` says a stalled row is never sent again. A run that still
  holds it can fail later, and `markOutboxFailed` (`:1962`) does not look at the
  status: the row becomes retryable.
- `shared/consumer-runner.ts:13` says a failing key does not stall the loop. The
  poll (`shared/sqlite.ts:1524`) returns the oldest uncompleted rows, queued ones
  included; when a key blocks as many as the batch holds, no other is polled.
- The same comment says the back-off is exponential. `dispatch` resets
  `backoffUntil` before each task (`:160`), so a new message does not wait for it.
- A message recalled after its handler started is answered: the mark is read once
  (`index-ingress.ts:377` against `index-worker.ts:221`).
- `cancel_and_rerun` marks the old task as cancelled and `begin` overwrites the
  mark before anyone reads it, so both replies appear (`index-worker.ts:351`,
  `services/inflight-manager.ts:18`).
- A row fetched by a poll, completed and pruned under the watermark before the
  poll reaches it is queued a second time; a message whose key changes while it
  is queued is worked on under two keys.

Intake
- Rows of `messages` stay, so a duplicate is recognised for ever, while recall
  marks go after 24 h: a worker that lags further answers a recalled message.
- The close of an old socket makes the actions on the new one "unknown"
  (`napcat-reverse-server.ts:136`); `ReportsTrue` holds, at the price of retries
  that are not made.

Conversation context
- `conversation-context-repository.ts:487` says that explicit replies must not
  gain access to an answer that did not exist when they were sent. Their own
  parent stays, but a quotation of an implicit continuation gains the answer
  that is spliced in before that continuation.
- Branches that others take part in keep the cleared user's messages.

Previews
- `html-preview-service.ts:265` says that recent directories are left alone. The
  sweep checks no age: a request accepted, built and placed while the sweep lists
  directories loses its page. `SlowSweep = TRUE` breaks `PublishedIsServed`; the
  run has `FALSE`, a sweep that is shorter than a generation.
- After a crash between publication and announcement, or while building, the
  page waits for the next request of the group.
- An error between publication and announcement leaves a published page with its
  lease; nobody is told of it, unless its request is handled again.
- An error between `enqueue` and `processNext` sends a failure text, and the page is
  built and announced by the next request of the group.
- An expired pending page keeps later ones of its group back until the cleanup:
  `findClaimableCandidate` does not look at `expires_at` of the earlier page.
- A build in flight puts the directory of a removed page back (README.md:253 and
  `html-preview-service.ts:228` say that a deleted page answers 404), where it
  stays until its row is gone.

Schedules
- An admin's save writes the whole row it has read: it can bring back a removed
  reminder and an old `next_run_at`, and an edit during a send makes
  the reminder speak twice.
- An error between the outbox row and `markSent` is logged, and the message is sent
  again: a daily one at the next tick of the same minute (`bot.ts:1252`), a reminder
  when its lease has run out (`bot.ts:1337`).
- A job that is slow when the minute of the report comes loses the day.
- A reminder that is switched off after its claim is still sent.

Model calls and searches
- A session that began before a settings edit puts a fresh circuit for the old
  connection back and its successor another for the new one: the count of
  failures starts again (README.md:174 describes a breaker per connection).
- An error after the card of a search was sent appends a failure text, and an error
  of that text makes the consumer search again (`bot.ts:1467`).
- `stop()` of the search service completes the messages of cancelled searches
  without an answer; a crash would have them retried.

## 7 Proofs

Every invariant and every action property that a run checks is also a theorem.
Theorems hold for every value of the constants that satisfies the module's
assumption: the constants are naturals, some positive, and sets have the members
the code gives them. Keys of `Consumer`, messages of `Ingress` and turns of
`ReplyCalls` are finite sets. Two theorems have a hypothesis more:
- `NobodyForgotten` (`After > 0`, `After + ActionTimeout <= Deadline`): an action
  dispatched at the due time of a card has been given up before the deadline of
  another one. In the code 90 s + 10 s against 105 s.
- `ServedAsPublished` (`~SlowSweep`): a sweep of the orphans is shorter than a
  generation, as in the run. Without it the property is false (section 6).

- **Outbox.** `IndInv` adds to `TypeOK` and `HeldRowsClosed` what each row and
  each holder guarantee: a held row has fewer copies than attempts until its
  action has landed, a careful row that was shown is `sent` or closed to claims,
  a row that was never claimed has no copies, and an action that landed has
  shown its row. `HeldRowsClosed` alone is not inductive for `AtMostOneCopy`: it does
  not say that a failed card without a receipt has been given up for good.
  `CancelledFinal` needs it too: a careful row that has been shown cannot become
  retryable in the next state. `Refinement` maps steps case by case: dispatches that land to `Show`, receipts
  to `Confirm`, publications to `Offer`, all else to stuttering.
- **Consumer.** `TypeCorrect` needs `CompleteAdvances`: the contiguous prefix
  ends at or before the newest message. `NothingLost` is inductive with it.
  `Ordered` rests on `OrderInv`: within a key's queue, and between the queue, the
  rows of the poll in flight and the table, messages of a stable key that are not
  handled appear in id order, so that the head of a queue has no unhandled
  predecessor elsewhere. `Refinement` maps the completed set and the boundary of the
  poll to one set of settled messages. `CompleteSettles` shows that a completion
  adds its own message to this set and no other, although it may move the watermark,
  prune rows and jump over the cutover; `TaskHasTurn`, that `OrderInv` gives a task
  what `KeyedConsumption` asks of a message that is handled. Every other step
  stutters. The refinement adds to `NothingSkipped` that what is settled stays so.
- **ReplyTurn.** `IndInv` adds to the types that no two tasks work on one attempt,
  that attempts belong to generations that exist, and that what was never begun
  has no rows. `VisibleInv` adds that an attempt which is still drafting has no
  turn (`Unstored`): without it a late draft could join a reply that is already
  public. All steps but `Persist`, `Deliver` and `Clear` are `Quiet` and show
  nothing, which leaves three steps to argue about. `NewestRegistered` is
  inductive with `IndInv`: only the owner clears a row. `OneReply` rests on
  `SoleInv`: before a clear only one key is in use, so that the look at the stored
  turns in `Begin` cannot be overtaken by another task on the same message.
- **ReplyCalls.** `IInv` has a part for each resource. `LockOK` and `PermitOK` say
  that a queue lists its waiters once each and is empty while a slot is free, so a
  hand-over keeps the cardinality of the holders. `Breakers` says what the
  generation of a call proves (`CallOK`): a call of the current generation finds
  its circuit closed or is the one probe of a half-open circuit, so a call of an
  older generation can neither close it nor take the place of the probe. `ClosesByProbe` and `ClosedBelowTrip` follow from it.
- **Ingress.** `ReportsTrue` needs `Unsent`: a call that was never dispatched has
  no frame on its way. `RateBound`
  is about every window of the past: it is inductive with `NoneLater` (no row is
  newer than the clock), since a new row falls only into windows that end now, for
  which `Limited` has just counted, and a tick opens a window whose rows all
  lie in the one before it. `RecallHeeded` needs that a notice which is still
  remembered has left its mark.
- **MessageRecall.** `Inv` says that a job which may still be dispatched, or
  whose action found no socket, has an untouched card: no `delete_msg` for it has
  reached QQ or is on its way. That is what makes the single retry safe.
  `DispatchInTime` follows from `Run` and the due dates in `Inv`;
  `RecalledIsFinal` from the guards on `sending` in every other write.
  `RecallTypeCorrect` needs `Left`: a job that waits has an attempt left. Behind
  `NoneForgotten` is `Waits`, an invariant about time: a job that was never tried and
  is past its due time waits for the end of a run begun before, and its age and
  what is left of the timer of that run add up to at most `After + ActionTimeout`.
- **Schedules.** Both theorems compare a count of messages with the disturbances
  that can separate a message from its record: crashes, edits, and errors after the
  outbox, which `unrecorded` counts for each message by itself. `DayOK` says when a daily message
  has used up its allowance but is not marked: only while it is under way or its
  day has passed. `TaskOK` weighs a reminder under way against a record that will
  find no row (`Lost`) and an edit that is open (`Open`); without these two terms
  the invariant is lost at the moment the row is changed, before anything is sent.
  `Adjusted` shows that the search for a time in the work hours finds the first one:
  a day meets every hour (`EveryHourComes`, arithmetic modulo the day) and a set of
  numbers has a least member. `ScheduleTypes` and `RemindersInWorkHours` need it.
- **HtmlPreview.** Four invariants beside the types. `Told` says that a notice is what
  the row links to: a page gets its hash by publication and its apology by failure,
  and neither comes twice. `TextsOK` says that a text without a page has an error or
  a refusal of its own. For `OneBuilding`, `Order` says that requests are
  accepted in the order of their numbers, and that once a later page is processing,
  an earlier one that is not done with has expired and has no lease. For
  `PublishedIsServed`, `Served` follows a build from the directory to the row: a page
  whose directory is in place has it as it was built, a published one has it with the
  hash of its row, and a sweep of the orphans that is not slow has both in its list.
  `Seen` says that what the cleanup and a removal work on has a row.
- **ConversationContext.** `Shape` and `Links` say that all references between the
  tables lead somewhere and that the head of a branch lies on it, `InPlace` how turns
  of each kind (`Quotes`, `Questions`, `Continuations`, `Spliced`) hang together.
  `AnswerInPlace` and `OwnContinuation` follow from these. `NothingForgotten` and
  `ClearSparesOthers` are about whole paths. That the recursive function `Path`
  exists and what its values are is proved by induction over sets: the set of
  the numbers for which a statement holds contains 0 and with each number the next
  (`SetInduction`). Its basis, `LeastNumber`, comes from the library's `WFMin`,
  which has no operator as a parameter, as the induction theorems have that the
  provers cannot instantiate. `PathTurnsBack`
  is a pigeonhole: a path that is longer than the table would be a cycle, so the
  bound on the depth cuts nothing off. Then `Whole` says that a set of turns which
  contains the head of a branch and, with each turn, the one before it on the same
  branch contains every message of the branch; splices keep it.
- **BtSearch.** `Queue` joins queue, slot and positions; `StopOK` says
  that after `stop()` a search on its way to the engine is cut and one that has an
  engine is waited for; `ToldOK` weighs the answers to a request against the errors of
  sending them, by the position of the handler, and ties the progress timer to it.

Properties with a theorem and no run of their own (they cost a run nothing new):
`CopiesWithinAttempts`, `DraftsInvisible`, `SentIsFinal`, `NothingSkipped` (a
consequence of the refinement), `NewestRegistered`, `RecalledIsFinal`, `SettledOnce`,
`ClosedBelowTrip`, and the type invariant of every component.

Model-checked only: the liveness properties `EventuallySettled`, `EventuallyHandled`,
`EventuallyAnswered`, `EventuallyTerminal`, `EventuallyTold`, `EventuallyReminded`,
`EveryDay`, `EveryCallSettles` and `EveryRequestEnds`. Liveness under fairness and
`ENABLED` are beyond the prover. No module declares a `RECURSIVE` operator.

## 8 What is not modelled

Of the modelled parts:
- pruning of old rows (days), the retired voice kinds, the limit of 20 recalls per
  claim, the `unsupported` recall status (a missing capability of the transport);
- the forward client `napcat-client.ts`, which only the legacy entry point uses,
  and `services/topic-router.ts`, which nothing but its test imports;
- in the reply turn, commands other than previews and searches, blacklisted users
  and group summaries: they end before `begin` or write rows without a branch;
- date rules of reminders other than intervals; holidays;
- a worker that dies during a search (its message is then handled again), a cleanup
  that cannot remove a directory (the next one tries again);
- ranking, rendering and validation of what searches and generations produce.

Left out as a whole, with the reason in `PROJECT.json`: admin server, sessions,
policies and task store (one synchronous operation on one table each; an admin's
edits enter `Schedules`, `HtmlPreview` and `ReplyCalls` as actions), group settings
(a settings edit is an action of `ReplyCalls`, the cutover one of `Consumer`), image
generation (a remote call; its delivery is in `Outbox`), providers and prompts,
memory, knowledge and profiles, participation scoring, the meme library, metrics,
parsing and calendars, the web front end, migrations and scripts. They are data
and text without a protocol between actors.

The definitions cover about 4 500 of the repository's 65 000 lines of code. The
rest is for the most part what these paragraphs list: the console, its server,
assets and scripts are close to a half, and `bot.ts` and `ai-service.ts` hold
commands, texts and prompts around the control that is modelled.

## 9 Extending the project

What could be added next, in order of use:
1. the composition of `ReplyTurn` with `Outbox` through their shared rows, and of
   `Consumer` with the handler that `ReplyTurn` details;
2. abstract specifications that `ReplyCalls` (locks and permits as counters) and
   `HtmlPreview` (a request and its one notice) implement;
3. an admin's task store (start, sweep, finish across restarts) and the cooldown
   and staging of generated images.

When the code changes: `PROJECT.json` "map" names the lines behind each
definition; change the definition, run the module's configuration with `tlc`,
then its proofs with `tlapm`.
