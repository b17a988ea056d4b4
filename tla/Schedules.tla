------------------------------ MODULE Schedules ------------------------------
(***************************************************************************)
(* MaintenanceScheduler of the worker with three of its jobs: the daily    *)
(* report and the holiday countdown of a group, sent in a given minute of  *)
(* the day and at most once a day, and the reminders, which are claimed    *)
(* with a lease, sent and given their next due time.  The reminder rows    *)
(* are also edited by commands in the worker and by the admin process.     *)
(*                                                                         *)
(* The unit of time is the interval of the jobs (30 s).  A job sends one   *)
(* message after another, and waits before each for the group lock and for *)
(* a text from a model, which may take long.  Times are relative: what is  *)
(* left of next_run_at and of lease_expires_at.                            *)
(***************************************************************************)
EXTENDS Integers, FiniteSets

CONSTANTS
  Reminders,  \* rows of v3_scheduled_reminders
  Day,        \* units of time in a day
  Minute,     \* units of time in a minute
  At,         \* minute of the day of the report and of the countdown
  WorkHours,  \* units of the day in which reminders are sent
  Interval,   \* intervalMinutes of the reminders
  Lease,      \* leaseMs of claimDueScheduledReminders
  MaxSlow,    \* time that passes while jobs run (bound)
  MaxCrashes, \* crashes of the worker (bound)
  MaxFaults,  \* messages that cannot be built, enqueued or recorded (bound)
  MaxEdits    \* edits of reminders (bound)

Daily == {"report", "countdown"}
Order == <<"report", "countdown", "reminder">>
Jobs == Daily \cup {"reminder"}
Nobody == "nobody"

ASSUME ScheduleAssumption ==
  /\ Day \in Nat \ {0} /\ Minute \in Nat \ {0}
  /\ At \in [Daily -> Nat]
  /\ WorkHours \subseteq 0..(Day - 1) /\ WorkHours # {}
  /\ Interval \in Nat \ {0} /\ Lease \in Nat
  /\ MaxSlow \in Nat /\ MaxCrashes \in Nat /\ MaxFaults \in Nat /\ MaxEdits \in Nat
  /\ Reminders \cap Daily = {} /\ Nobody \notin Reminders

RunOut == -1   \* a lease_expires_at that lies in the past
NoLease == -2  \* lease_expires_at is NULL

VARIABLES
  clock,    \* time of the day
  up,       \* the worker is running
  ticking,  \* tickRunning
  fresh,    \* the tick has begun in this unit of time
  due,      \* jobs whose interval has passed since their lastRunAt
  todo,     \* due jobs the tick has yet to run
  items,    \* what the running job has yet to send
  sending,  \* the message that is enqueued but not recorded
  lag,      \* time since the running job read the clock
  today,    \* that was on the present day
  lastSent, \* last_sent_day is the present day
  count,    \* messages sent for the present day (history)
  state,    \* a reminder is on, off (enabled = 0) or gone
  next,     \* column next_run_at, 0 when it has passed
  lease,    \* column lease_expires_at
  mine,     \* claimedLeases of the worker
  unmarked, \* messages since next_run_at was moved by markSent (history)
  unrecorded, \* of these messages, those whose record failed (history)
  draft,    \* the reminder an admin edit has read, and its next_run_at
  slow,
  crashes,
  faults,
  edits

worker == <<ticking, fresh, due, todo, items, sending, lag, today, mine>>
table == <<state, next, lease>>
sent == <<count, unmarked, unrecorded>>
bounds == <<slow, crashes, faults, edits>>
vars == <<clock, up, ticking, fresh, due, todo, items, sending, lag, today, lastSent,
          count, state, next, lease, mine, unmarked, unrecorded, draft, slow, crashes,
          faults, edits>>

NoDraft == [task |-> Nobody, next |-> 0]

Init == /\ clock = 0
        /\ up = TRUE
        /\ ticking = FALSE /\ fresh = FALSE
        /\ due = Jobs
        /\ todo = {} /\ items = {} /\ sending = Nobody
        /\ lag = 0 /\ today = TRUE
        /\ lastSent = [d \in Daily |-> FALSE]
        /\ count = [d \in Daily |-> 0]
        /\ state = [r \in Reminders |-> "on"]
        /\ next = [r \in Reminders |-> Interval]
        /\ lease = [r \in Reminders |-> NoLease]
        /\ mine = {}
        /\ unmarked = [r \in Reminders |-> 0]
        /\ unrecorded = [i \in Daily \cup Reminders |-> 0]
        /\ draft = NoDraft
        /\ slow = 0 /\ crashes = 0 /\ faults = 0 /\ edits = 0

-----------------------------------------------------------------------------
(* Mutant: the day of the last report is not looked up. *)
WantedAgain(d) == clock \div Minute = At[d]

(* shouldSendScheduledReport, shouldSendScheduledMessage *)
Wanted(d) == clock \div Minute = At[d] /\ ~lastSent[d]

(* Mutant: only rows without a lease are claimed. *)
ClaimableNull == {r \in Reminders : state[r] = "on" /\ next[r] = 0 /\ lease[r] = NoLease}

(* claimDueScheduledReminders; a lease runs out strictly before now. *)
Claimable == {r \in Reminders : state[r] = "on" /\ next[r] = 0 /\ lease[r] \in {NoLease, RunOut}}

(* The first time, n or more units from now, that lies in the work hours. *)
AdjustToWorkHours(n) ==
  CHOOSE k \in n..(n + Day) : /\ (clock + k) % Day \in WorkHours
                              /\ \A j \in n..(k - 1) : (clock + j) % Day \notin WorkHours

(* calculateIntervalNextRunAt: from next_run_at if an edit has moved it into
   the future, otherwise from the time at which the job read the clock. *)
IntervalRun(r) == IF next[r] > 0 THEN next[r] + Interval
                  ELSE IF Interval > lag THEN Interval - lag ELSE 0

NextRun(r) == AdjustToWorkHours(IntervalRun(r))

-----------------------------------------------------------------------------
(* runDueJobs *)
Poll ==
  /\ up /\ ~ticking /\ due # {}
  /\ ticking' = TRUE /\ fresh' = TRUE
  /\ todo' = due
  /\ UNCHANGED <<clock, up, due, items, sending, lag, today, mine, lastSent, sent,
                 table, draft, bounds>>

First(j) == \E i \in 1..3 : Order[i] = j /\ \A h \in 1..(i - 1) : Order[h] \notin todo

(* A job is marked with the time of the tick before it runs. *)
Started(j) ==
  /\ up /\ ticking /\ items = {}
  /\ j \in todo /\ First(j)
  /\ todo' = todo \ {j}
  /\ due' = IF fresh THEN due \ {j} ELSE due
  /\ lag' = 0 /\ today' = TRUE
  /\ UNCHANGED <<clock, up, ticking, fresh, sending, lastSent, sent, state, next,
                 draft, bounds>>

(* runDailyReportTick, runHolidayCountdownTick *)
RunDaily(d) ==
  /\ Started(d)
  /\ items' = IF Wanted(d) THEN {d} ELSE {}
  /\ UNCHANGED <<lease, mine>>

(* runScheduledReminderTick; outside the work hours nothing is claimed. *)
RunReminders ==
  /\ Started("reminder")
  /\ items' = IF clock \in WorkHours THEN Claimable ELSE {}
  /\ lease' = [r \in Reminders |-> IF r \in items' THEN Lease ELSE lease[r]]
  /\ mine' = mine \cup items'

(* sendText: the message is in the outbox. *)
Send(i) ==
  /\ up /\ i \in items /\ sending = Nobody
  /\ sending' = i
  /\ count' = [d \in Daily |-> IF d = i /\ today THEN count[d] + 1 ELSE count[d]]
  /\ unmarked' = [r \in Reminders |-> IF r = i THEN unmarked[r] + 1 ELSE unmarked[r]]
  /\ UNCHANGED <<clock, up, ticking, fresh, due, todo, items, lag, today, mine,
                 lastSent, unrecorded, table, draft, bounds>>

(* The text cannot be built, the group lock is full or the insert fails. *)
SendFails(i) ==
  /\ up /\ i \in items /\ sending = Nobody
  /\ faults < MaxFaults /\ faults' = faults + 1
  /\ items' = items \ {i}
  /\ UNCHANGED <<clock, up, ticking, fresh, due, todo, sending, lag, today, mine,
                 lastSent, sent, table, draft, slow, crashes, edits>>

(* The message is in the outbox, but what follows fails: the rest of sendText or
   markSent. The error is logged, and the message counts as not sent. *)
RecordFails(i) ==
  /\ up /\ sending = i
  /\ faults < MaxFaults /\ faults' = faults + 1
  /\ sending' = Nobody /\ items' = items \ {i}
  /\ unrecorded' = IF i \in Daily /\ ~today THEN unrecorded
                    ELSE [unrecorded EXCEPT ![i] = @ + 1]
  /\ UNCHANGED <<clock, up, ticking, fresh, due, todo, lag, today, mine, lastSent,
                 count, unmarked, table, draft, slow, crashes, edits>>

(* markSent of a daily message, for the day on which the job began. *)
MarkDaily(d) ==
  /\ up /\ sending = d
  /\ sending' = Nobody /\ items' = items \ {d}
  /\ lastSent' = [lastSent EXCEPT ![d] = @ \/ today]
  /\ UNCHANGED <<clock, up, ticking, fresh, due, todo, lag, today, mine, sent,
                 table, draft, bounds>>

(* Mutant: the lease must not have run out. *)
MatchesInTime(r) == state[r] # "gone" /\ (r \in mine => lease[r] >= 0)

(* The update of finalizeScheduledReminder matches the row: with a token the
   lease must still be in the row, without one every row matches. *)
Matches(r) == state[r] # "gone" /\ (r \in mine => lease[r] # NoLease)

(* finalizeScheduledReminder with n as the next time *)
Recorded(r, n) ==
  /\ up /\ sending = r
  /\ sending' = Nobody /\ items' = items \ {r}
  /\ mine' = IF state[r] = "gone" THEN mine ELSE mine \ {r}
  /\ IF Matches(r)
     THEN /\ next' = [next EXCEPT ![r] = n]
          /\ lease' = [lease EXCEPT ![r] = NoLease]
          /\ unmarked' = [unmarked EXCEPT ![r] = 0]
          /\ unrecorded' = [unrecorded EXCEPT ![r] = 0]
     ELSE UNCHANGED <<next, lease, unmarked, unrecorded>>
  /\ UNCHANGED <<clock, up, ticking, fresh, due, todo, lag, today, lastSent, count,
                 state, draft, slow, crashes, edits>>

(* markSent of a reminder, then its correction to the work hours, *)
MarkReminder(r) == Recorded(r, NextRun(r)) /\ UNCHANGED faults

(* which is a second update and may fail alone. *)
CorrectionFails(r) ==
  /\ Matches(r) /\ NextRun(r) # IntervalRun(r)
  /\ faults < MaxFaults /\ faults' = faults + 1
  /\ Recorded(r, IntervalRun(r))

(* tickRunning is reset in the end. *)
EndTick ==
  /\ up /\ ticking /\ todo = {} /\ items = {}
  /\ ticking' = FALSE /\ fresh' = FALSE
  /\ UNCHANGED <<clock, up, due, todo, items, sending, lag, today, mine, lastSent,
                 sent, table, draft, bounds>>

-----------------------------------------------------------------------------
(* A command in the worker edits a reminder: text, schedule, switch, removal. *)
WorkerEdit(r) ==
  /\ up /\ state[r] # "gone"
  /\ edits < MaxEdits /\ edits' = edits + 1
  /\ mine' = mine \ {r}
  /\ \/ /\ \/ UNCHANGED <<state, next>>
           \/ state' = state /\ next' = [next EXCEPT ![r] = Interval]
           \/ state' = [state EXCEPT ![r] = IF @ = "on" THEN "off" ELSE "on"] /\ next' = next
        /\ lease' = [lease EXCEPT ![r] = NoLease]
     \/ state' = [state EXCEPT ![r] = "gone"] /\ UNCHANGED <<next, lease>>
  /\ UNCHANGED <<clock, up, ticking, fresh, due, todo, items, sending, lag, today,
                 lastSent, sent, draft, slow, crashes, faults>>

(* The admin process reads the row *)
AdminRead(r) ==
  /\ draft = NoDraft /\ state[r] # "gone"
  /\ edits < MaxEdits /\ edits' = edits + 1
  /\ draft' = [task |-> r, next |-> next[r]]
  /\ UNCHANGED <<clock, up, worker, lastSent, sent, table, slow, crashes, faults>>

(* and replaces it as a whole, or deletes it. *)
AdminSave ==
  LET r == draft.task IN
  /\ draft # NoDraft
  /\ draft' = NoDraft
  /\ \/ /\ \E s \in {"on", "off"} : state' = [state EXCEPT ![r] = s]
        /\ \E n \in {draft.next, Interval} : next' = [next EXCEPT ![r] = n]
        /\ lease' = [lease EXCEPT ![r] = NoLease]
     \/ state' = [state EXCEPT ![r] = "gone"] /\ UNCHANGED <<next, lease>>
  /\ UNCHANGED <<clock, up, worker, lastSent, sent, bounds>>

-----------------------------------------------------------------------------
Crash ==
  /\ up /\ crashes < MaxCrashes
  /\ crashes' = crashes + 1
  /\ up' = FALSE
  /\ ticking' = FALSE /\ fresh' = FALSE
  /\ todo' = {} /\ items' = {} /\ sending' = Nobody /\ mine' = {}
  /\ UNCHANGED <<clock, due, lag, today, lastSent, sent, table, draft, slow, faults,
                 edits>>

(* A new scheduler has run no job yet. *)
Restart ==
  /\ ~up
  /\ up' = TRUE
  /\ due' = Jobs
  /\ UNCHANGED <<clock, ticking, fresh, todo, items, sending, lag, today, mine,
                 lastSent, sent, table, draft, bounds>>

(* Mutant: the day is not compared. *)
SentOnce(d, then) == lastSent[d]

(* last_sent_day names the day of a later time. *)
SentThatDay(d, then) == lastSent[d] /\ then # 0

Sooner(n) == IF n > 0 THEN n - 1 ELSE 0

(* A unit of time passes: while a job waits, or after the jobs that are due
   have run, which the polls every 10 s see to. *)
Tick ==
  /\ \/ ~up /\ slow' = slow
     \/ ~ticking /\ due = {} /\ slow' = slow
     \/ items # {} /\ slow < MaxSlow /\ slow' = slow + 1
  /\ clock' = (clock + 1) % Day
  /\ fresh' = FALSE
  /\ due' = IF up THEN Jobs ELSE due
  /\ lag' = IF items # {} THEN lag + 1 ELSE 0
  /\ today' = (today /\ clock' # 0)
  /\ lastSent' = [d \in Daily |-> SentThatDay(d, clock')]
  /\ count' = [d \in Daily |-> IF clock' = 0 THEN 0 ELSE count[d]]
  /\ unrecorded' = [i \in Daily \cup Reminders |->
                      IF i \in Daily /\ clock' = 0 THEN 0 ELSE unrecorded[i]]
  /\ next' = [r \in Reminders |-> Sooner(next[r])]
  /\ lease' = [r \in Reminders |-> IF lease[r] >= 0 THEN lease[r] - 1 ELSE lease[r]]
  /\ draft' = [draft EXCEPT !.next = Sooner(@)]
  /\ UNCHANGED <<up, ticking, todo, items, sending, mine, state, unmarked, crashes, faults, edits>>

-----------------------------------------------------------------------------
SchedulerStep ==
  \/ Poll \/ (\E d \in Daily : RunDaily(d) \/ MarkDaily(d)) \/ RunReminders
  \/ (\E i \in Daily \cup Reminders : Send(i) \/ SendFails(i) \/ RecordFails(i))
  \/ (\E r \in Reminders : MarkReminder(r) \/ CorrectionFails(r)) \/ EndTick

Next == \/ SchedulerStep
        \/ \E r \in Reminders : WorkerEdit(r) \/ AdminRead(r)
        \/ AdminSave \/ Crash \/ Restart \/ Tick

Spec == Init /\ [][Next]_vars

(* The timer polls, promises settle, systemd restarts, time passes. *)
Fairness == WF_vars(SchedulerStep) /\ WF_vars(Restart) /\ WF_vars(Tick) /\ WF_vars(AdminSave)

FairSpec == Spec /\ Fairness

-----------------------------------------------------------------------------
TypeOK == /\ clock \in 0..(Day - 1)
          /\ up \in BOOLEAN /\ ticking \in BOOLEAN /\ fresh \in BOOLEAN /\ today \in BOOLEAN
          /\ due \subseteq Jobs /\ todo \subseteq Jobs
          /\ items \subseteq Daily \cup Reminders
          /\ sending \in items \cup {Nobody}
          /\ lag \in Nat
          /\ lastSent \in [Daily -> BOOLEAN]
          /\ count \in [Daily -> Nat]
          /\ state \in [Reminders -> {"on", "off", "gone"}]
          /\ next \in [Reminders -> Nat]
          /\ lease \in [Reminders -> NoLease..Lease]
          /\ mine \subseteq Reminders
          /\ unmarked \in [Reminders -> Nat]
          /\ unrecorded \in [Daily \cup Reminders -> Nat]
          /\ draft \in [task : Reminders \cup {Nobody}, next : Nat]
          /\ slow \in 0..MaxSlow /\ crashes \in 0..MaxCrashes
          /\ faults \in 0..MaxFaults /\ edits \in 0..MaxEdits

(* A daily message is sent once a day.  It is sent again only if the day was not
   recorded after it was enqueued: the worker died, or an error came between and
   was logged (the jobs of bot.ts, markSent). *)
OncePerDay == \A d \in Daily : count[d] <= 1 + crashes + unrecorded[d]

(* Between two records of its next time a reminder speaks once, and once more
   for each crash, each edit of the row under way and each error between the
   outbox and the record at most: a lease that runs out during a slow job repeats
   nothing by itself (claimDueScheduledReminders, finalizeScheduledReminder). *)
RemindedOnce ==
  \A r \in Reminders : unmarked[r] <= 1 + crashes + edits + unrecorded[r]

(* A due reminder is sent in the end, or it is switched off, removed or
   given another time, whatever the crashes, faults and slow jobs. *)
EventuallyReminded ==
  \A r \in Reminders : state[r] = "on" /\ next[r] = 0 ~> next[r] > 0 \/ state[r] # "on"

(* However slow the jobs, a day on which a daily message is sent comes again:
   a message sent past midnight does not count for the next day. *)
EveryDay == \A d \in Daily : []<>(count[d] > 0)
=============================================================================
