----------------------------- MODULE ReplyCalls -----------------------------
(***************************************************************************)
(* The way of a turn to a model: the GroupLock of its group, a session of  *)
(* ReplyModelRouter over the configured models, a permit of LlmSemaphore   *)
(* for each attempt and the circuit breaker of the model (GatewayProxy).   *)
(*                                                                         *)
(* All of it lives in the worker's event loop: a step is what one callback *)
(* does between two awaits.  A turn with a group is a conversation, which  *)
(* holds the lock until it is done; the others (pages, decisions) come     *)
(* without it and end with their session, and a page whose output is       *)
(* refused runs the rest of its session again.                             *)
(* Deadlines and timers that nothing else depends on may pass at any time. *)
(***************************************************************************)
EXTENDS Integers, Sequences, FiniteSets

CONSTANTS
  Turns,         \* sessions begun
  Groups,
  GroupOf,       \* the group whose lock a turn takes, or NoGroup
  NoGroup,
  Models,
  Route,         \* the candidates of a turn: the primary of its group, then the backups
  PerGroup,      \* GroupLock.maxConcurrentPerGroup
  MaxConcurrent, \* LlmSemaphore.maxConcurrent
  Trip,          \* tripAfterFailures
  MaxEvents      \* aborted turns and saved settings (bound)

ASSUME CallsAssumption ==
  /\ IsFiniteSet(Turns)
  /\ GroupOf \in [Turns -> Groups \cup {NoGroup}] /\ NoGroup \notin Groups
  /\ Route \in [Turns -> Seq(Models)]
  /\ PerGroup \in Nat \ {0} /\ MaxConcurrent \in Nat \ {0}
  /\ Trip \in Nat \ {0} /\ MaxEvents \in Nat

VARIABLES
  pc,        \* where a turn is
  aborted,   \* its signal is aborted
  seen,      \* the settings its session was begun with
  cursor,    \* candidates it has taken
  call,      \* its attempt: circuit, generation, probe
  outcome,   \* how an attempt has just ended
  held,      \* GroupLock: active, by group
  lockQueue, \* GroupLock: queue, by group
  active,    \* LlmSemaphore.active
  waiters,   \* LlmSemaphore.waiters
  version,   \* the saved connection of each model
  circuits   \* by model, the circuits created; the last one is in `clients'

session == <<aborted, seen, cursor, call, outcome>>
lock == <<held, lockQueue>>
permits == <<active, waiters>>
vars == <<pc, aborted, seen, cursor, call, outcome, held, lockQueue,
          active, waiters, version, circuits>>

Places == {"new", "waitlock", "locked", "trying", "queued", "granted",
           "calling", "leaving", "over", "done"}
Outcomes == {"none", "ok", "transient", "refused", "rejected", "cancelled", "late"}
Retryable == {"transient", "refused"}
Inside == {"locked", "trying", "queued", "granted", "calling", "leaving", "over"}
Permitted == {"granted", "calling", "leaving"}

Circuit == [of : 0..1, state : {"closed", "open", "half_open"},
            failures : Nat, cooled : BOOLEAN, probing : BOOLEAN, generation : Nat]

FreshCircuit(v) == [of |-> v, state |-> "closed", failures |-> 0, cooled |-> FALSE,
                    probing |-> FALSE, generation |-> 0]

NoCall == [at |-> 0, generation |-> 0, probe |-> FALSE]

Grouped(t) == GroupOf[t] # NoGroup

Init == /\ pc = [t \in Turns |-> IF Grouped(t) THEN "new" ELSE "locked"]
        /\ aborted = [t \in Turns |-> FALSE]
        /\ seen = [t \in Turns |-> [m \in Models |-> 0]]
        /\ cursor = [t \in Turns |-> 0]
        /\ call = [t \in Turns |-> NoCall]
        /\ outcome = [t \in Turns |-> "none"]
        /\ held = [g \in Groups |-> 0]
        /\ lockQueue = [g \in Groups |-> <<>>]
        /\ active = 0
        /\ waiters = <<>>
        /\ version = [m \in Models |-> 0]
        /\ circuits = [m \in Models |-> <<>>]

-----------------------------------------------------------------------------
(* GroupLock *)

Goto(t, place) == pc' = [pc EXCEPT ![t] = place]

\* acquire: a conversation takes a slot of its group or joins the queue
Enter(t) ==
  /\ pc[t] = "new"
  /\ LET g == GroupOf[t]
     IN \/ /\ held[g] < PerGroup
           /\ held' = [held EXCEPT ![g] = @ + 1]
           /\ Goto(t, "locked")
           /\ UNCHANGED lockQueue
        \/ /\ held[g] >= PerGroup
           /\ lockQueue' = [lockQueue EXCEPT ![g] = Append(@, t)]
           /\ Goto(t, "waitlock")
           /\ UNCHANGED held
  /\ UNCHANGED <<session, permits, version, circuits>>

\* release: the slot goes to the first in the queue
HandOver(t, g) ==
  /\ held' = held
  /\ lockQueue' = [lockQueue EXCEPT ![g] = Tail(@)]
  /\ pc' = [pc EXCEPT ![t] = "done", ![Head(lockQueue[g])] = "locked"]

FreeSlot(t, g) ==
  /\ held' = [held EXCEPT ![g] = @ - 1]
  /\ Goto(t, "done")
  /\ UNCHANGED lockQueue

(* Mutant: the queue is not looked at. *)
UnlockOnly(t, g) == FreeSlot(t, g)

Unlock(t, g) == IF lockQueue[g] # <<>> THEN HandOver(t, g) ELSE FreeSlot(t, g)

Exit(t) ==
  /\ pc[t] = "over" /\ Grouped(t)
  /\ Unlock(t, GroupOf[t])
  /\ UNCHANGED <<session, permits, version, circuits>>

-----------------------------------------------------------------------------
(* The session *)

\* begin: reads the settings, which the session keeps
Begin(t) ==
  /\ pc[t] = "locked"
  /\ seen' = [seen EXCEPT ![t] = version]
  /\ Goto(t, IF aborted[t] \/ Route[t] = <<>> THEN "over" ELSE "trying")
  /\ UNCHANGED <<aborted, cursor, call, outcome, lock, permits, version, circuits>>

\* the signal is aborted or the total budget is spent: run throws
GiveUp(t) ==
  /\ pc[t] = "trying"
  /\ Goto(t, "over")
  /\ UNCHANGED <<session, lock, permits, version, circuits>>

\* the circuit of the model, a new one if the session's settings for the
\* model are not those the circuit in `clients' was made for
CircuitsFor(m, v) ==
  IF circuits[m] # <<>> /\ circuits[m][Len(circuits[m])].of = v
    THEN circuits[m]
    ELSE Append(circuits[m], FreshCircuit(v))

\* the next candidate, up to LlmSemaphore.acquire
Attempt(t) ==
  /\ pc[t] = "trying"
  /\ ~aborted[t]
  /\ cursor' = [cursor EXCEPT ![t] = @ + 1]
  /\ LET m == Route[t][cursor[t] + 1]
         known == CircuitsFor(m, seen[t][m])
     IN /\ circuits' = [circuits EXCEPT ![m] = known]
        /\ call' = [call EXCEPT ![t] = [NoCall EXCEPT !.at = Len(known)]]
  /\ \/ /\ active < MaxConcurrent
        /\ active' = active + 1
        /\ Goto(t, "granted")
        /\ UNCHANGED waiters
     \/ /\ active >= MaxConcurrent
        /\ waiters' = Append(waiters, t)
        /\ Goto(t, "queued")
        /\ UNCHANGED active
  /\ UNCHANGED <<aborted, seen, outcome, lock, version>>

\* the waiter leaves the queue
Without(s, t) ==
  LET i == CHOOSE i \in 1..Len(s) : s[i] = t
  IN  [k \in 1..Len(s) - 1 |-> IF k < i THEN s[k] ELSE s[k + 1]]

\* the timer of a waiter
QueueTimeout(t) ==
  /\ pc[t] = "queued"
  /\ waiters' = Without(waiters, t)
  /\ Goto(t, "over")
  /\ call' = [call EXCEPT ![t] = NoCall]
  /\ UNCHANGED <<aborted, seen, cursor, outcome, lock, active, version, circuits>>

-----------------------------------------------------------------------------
(* The circuit breaker *)

ModelOf(t) == Route[t][cursor[t]]
CircuitOf(t) == circuits[ModelOf(t)][call[t].at]
SetCircuit(t, c) == circuits' = [circuits EXCEPT ![ModelOf(t)][call[t].at] = c]

(* Mutant: half open lets everybody through. *)
RefusesOpen(c) == c.state = "open" /\ ~c.cooled

Refuses(c) == \/ c.state = "open" /\ ~c.cooled
              \/ c.state = "half_open" /\ c.probing

\* the permit is there, but the turn has ended or the circuit is open
TurnedAway(t) ==
  /\ pc[t] = "granted"
  /\ \E o \in {"cancelled", "late", "refused"} :
       /\ (o = "cancelled") = aborted[t]
       /\ o = "refused" => Refuses(CircuitOf(t))
       /\ outcome' = [outcome EXCEPT ![t] = o]
  /\ Goto(t, "leaving")
  /\ UNCHANGED <<aborted, seen, cursor, call, lock, permits, version, circuits>>

Call(t) ==
  /\ pc[t] = "granted"
  /\ ~aborted[t] /\ ~Refuses(CircuitOf(t))
  /\ LET c == CircuitOf(t)
         probe == c.state # "closed"
     IN /\ call' = [call EXCEPT ![t] = [at |-> @.at, generation |-> c.generation,
                                        probe |-> probe]]
        /\ SetCircuit(t, [c EXCEPT !.state = IF probe THEN "half_open" ELSE "closed",
                                   !.cooled = FALSE, !.probing = probe])
  /\ Goto(t, "calling")
  /\ UNCHANGED <<aborted, seen, cursor, outcome, lock, permits, version>>

(* Mutant: every call speaks for the circuit as it is now. *)
CurrentAlways(t) == TRUE

Current(t) == call[t].generation = CircuitOf(t).generation

\* a failure that says something about the model
Counts(t, o) == o = "transient" /\ ~aborted[t]

Trips(t, c) == call[t].probe \/ c.failures + 1 >= Trip

Reopened(c) == [c EXCEPT !.state = "open", !.cooled = FALSE]

\* what the end of a call does to its circuit, if that has not moved on
Judged(t, o) ==
  LET c == CircuitOf(t)
  IN CASE ~Current(t) -> c
       [] Current(t) /\ o = "ok" -> [c EXCEPT !.failures = 0, !.state = "closed"]
       [] Current(t) /\ Counts(t, o) /\ Trips(t, c) ->
            [Reopened(c) EXCEPT !.failures = @ + 1, !.generation = @ + 1]
       [] Current(t) /\ Counts(t, o) /\ ~Trips(t, c) -> [c EXCEPT !.failures = @ + 1]
       [] OTHER -> IF call[t].probe THEN Reopened(c) ELSE c

\* finally: the probe is over however it ended
ProbeOver(t, c) == [c EXCEPT !.probing = @ /\ ~call[t].probe]

\* the model answers, fails, or the attempt's timer or the signal ends the call
Settle(t, o) ==
  /\ pc[t] = "calling"
  /\ o = "cancelled" => aborted[t]
  /\ SetCircuit(t, ProbeOver(t, Judged(t, o)))
  /\ outcome' = [outcome EXCEPT ![t] = o]
  /\ Goto(t, "leaving")
  /\ UNCHANGED <<aborted, seen, cursor, call, lock, permits, version>>

\* where the turn goes after an attempt: a page may be refused and run again
More(t) == cursor[t] < Len(Route[t]) /\ ~aborted[t]

Onward(t) ==
  CASE More(t) /\ outcome[t] \in Retryable -> {"trying"}
    [] More(t) /\ outcome[t] = "ok" /\ ~Grouped(t) -> {"over", "trying"}
    [] OTHER -> {"over"}

\* LlmSemaphore.release: the first waiter takes the permit over
PassPermit ==
  IF waiters # <<>>
    THEN waiters' = Tail(waiters) /\ active' = active
    ELSE waiters' = waiters /\ active' = active - 1

Leave(t) ==
  /\ pc[t] = "leaving"
  /\ PassPermit
  /\ \E place \in Onward(t) :
       pc' = [u \in Turns |-> IF u = t THEN place
                              ELSE IF waiters # <<>> /\ u = Head(waiters) THEN "granted"
                              ELSE pc[u]]
  /\ call' = [call EXCEPT ![t] = NoCall]
  /\ outcome' = [outcome EXCEPT ![t] = "none"]
  /\ UNCHANGED <<aborted, seen, cursor, lock, version, circuits>>

-----------------------------------------------------------------------------
(* The rest of the process *)

Calm == Cardinality({t \in Turns : aborted[t]})
        + Cardinality({m \in Models : version[m] > 0}) < MaxEvents

\* the turn is superseded, cleared or recalled: only a waiter for a permit
\* listens, the others look at the signal later
(* Mutant: the waiter stays in the queue, and is passed a permit later. *)
AbortWaiterStays(t) ==
  /\ waiters' = waiters
  /\ Goto(t, "over")
  /\ call' = [call EXCEPT ![t] = NoCall]

AbortWaiter(t) ==
  /\ waiters' = Without(waiters, t)
  /\ Goto(t, "over")
  /\ call' = [call EXCEPT ![t] = NoCall]

Abort(t) ==
  /\ pc[t] \notin {"new", "over", "done"} /\ ~aborted[t] /\ Calm
  /\ aborted' = [aborted EXCEPT ![t] = TRUE]
  /\ IF pc[t] = "queued" THEN AbortWaiter(t) ELSE UNCHANGED <<waiters, pc, call>>
  /\ UNCHANGED <<seen, cursor, outcome, lock, active, version, circuits>>

\* openMs have passed since the circuit opened
Cool(m, i) ==
  /\ circuits[m][i].state = "open" /\ ~circuits[m][i].cooled
  /\ circuits' = [circuits EXCEPT ![m][i].cooled = TRUE]
  /\ UNCHANGED <<pc, session, lock, permits, version>>

\* an administrator changes the connection of a model
Edit(m) ==
  /\ Calm /\ version[m] = 0
  /\ version' = [version EXCEPT ![m] = @ + 1]
  /\ UNCHANGED <<pc, session, lock, permits, circuits>>

Advance(t) ==
  \/ Enter(t) \/ Begin(t) \/ GiveUp(t) \/ Attempt(t) \/ QueueTimeout(t)
  \/ TurnedAway(t) \/ Call(t)
  \/ \E o \in {"ok", "transient", "rejected", "cancelled"} : Settle(t, o)
  \/ Leave(t) \/ Exit(t)

Ended(t) == pc[t] = IF Grouped(t) THEN "done" ELSE "over"

\* all turns have been answered: with nothing else to do, a state in which
\* somebody still waits is a deadlock
Rest == (\A t \in Turns : Ended(t)) /\ UNCHANGED vars

Next ==
  \/ \E t \in Turns : Advance(t) \/ Abort(t)
  \/ \E m \in Models : \/ \E i \in 1..Len(circuits[m]) : Cool(m, i)
                       \/ Edit(m)
  \/ Rest

Spec == Init /\ [][Next]_vars

-----------------------------------------------------------------------------
\* Every variable keeps the shape the code gives it.
TypeOK ==
  /\ pc \in [Turns -> Places]
  /\ aborted \in [Turns -> BOOLEAN]
  /\ seen \in [Turns -> [Models -> 0..1]]
  /\ cursor \in [Turns -> Nat] /\ \A t \in Turns : cursor[t] <= Len(Route[t])
  /\ call \in [Turns -> [at : Nat, generation : Nat, probe : BOOLEAN]]
  /\ outcome \in [Turns -> Outcomes]
  /\ held \in [Groups -> 0..PerGroup]
  /\ lockQueue \in [Groups -> Seq(Turns)]
  /\ active \in 0..MaxConcurrent
  /\ waiters \in Seq(Turns)
  /\ version \in [Models -> 0..1]
  /\ circuits \in [Models -> Seq(Circuit)]

HoldersOf(g) == {t \in Turns : GroupOf[t] = g /\ pc[t] \in Inside}

\* No slot of a group's lock is lost or handed out twice, and nobody queues
\* while one is free (GroupLock.acquire and release).
LockConserved ==
  \A g \in Groups :
    /\ held[g] = Cardinality(HoldersOf(g))
    /\ lockQueue[g] # <<>> => held[g] = PerGroup
    /\ \A t \in Turns : GroupOf[t] = g =>
         (pc[t] = "waitlock" <=> \E i \in 1..Len(lockQueue[g]) : lockQueue[g][i] = t)

\* No permit is lost, also when a waiter times out or is aborted around the
\* moment one is passed to it, and nobody waits while one is free
\* (LlmSemaphore.acquire, its timer and abort listener, release).
PermitsConserved ==
  /\ active = Cardinality({t \in Turns : pc[t] \in Permitted})
  /\ waiters # <<>> => active = MaxConcurrent
  /\ \A t \in Turns : pc[t] = "queued" <=> \E i \in 1..Len(waiters) : waiters[i] = t

ProbesOf(m, i) ==
  {t \in Turns : pc[t] = "calling" /\ call[t].probe /\ ModelOf(t) = m /\ call[t].at = i}

\* A half-open circuit lets one call through and knows it until that call has
\* ended, in whatever way (GatewayProxy.call, probeInFlight).
OneProbe ==
  \A m \in Models : \A i \in 1..Len(circuits[m]) :
    Cardinality(ProbesOf(m, i)) = IF circuits[m][i].probing THEN 1 ELSE 0

\* A circuit is never closed with as many consecutive failures as trip it,
\* however its calls overlap (GatewayProxy.call, catch branch).
ClosedBelowTrip ==
  \A m \in Models : \A i \in 1..Len(circuits[m]) :
    circuits[m][i].state = "closed" => circuits[m][i].failures < Trip

\* A circuit that has opened is closed by a probe that succeeded, never by a
\* call that was under way when it opened (GatewayProxy.generation).
ClosesByProbe ==
  [][\A m \in Models : \A i \in 1..Len(circuits[m]) :
       circuits[m][i].state # "closed" /\ circuits'[m][i].state = "closed" =>
         \E t \in ProbesOf(m, i) : outcome'[t] = "ok"]_vars

=============================================================================
