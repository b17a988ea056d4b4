-------------------------- MODULE ReplyCalls_proofs --------------------------
(* Proofs about ReplyCalls, for any turns, groups, models and routes, any   *)
(* limits and any number of aborted turns.                                 *)
EXTENDS ReplyCalls, FiniteSetTheorems, TLAPS

-----------------------------------------------------------------------------
(* Queues *)

Listed(s, x) == \E i \in 1..Len(s) : s[i] = x
Distinct(s) == \A i, j \in 1..Len(s) : s[i] = s[j] => i = j

LEMMA QueueAppend ==
  ASSUME NEW S, NEW s \in Seq(S), Distinct(s), NEW x \in S, ~Listed(s, x)
  PROVE  /\ Append(s, x) \in Seq(S) /\ Append(s, x) # <<>>
         /\ Distinct(Append(s, x))
         /\ \A y \in S : Listed(Append(s, x), y) <=> Listed(s, y) \/ y = x
<1> DEFINE t == Append(s, x)
<1>1. /\ t \in Seq(S) /\ Len(t) = Len(s) + 1 /\ Len(s) \in Nat /\ t[Len(s) + 1] = x
      /\ \A i \in 1..Len(s) : t[i] = s[i]
  OBVIOUS
<1>. HIDE DEF t
<1>2. Distinct(t)
  BY <1>1 DEF Distinct, Listed
<1>3. \A y \in S : Listed(t, y) <=> Listed(s, y) \/ y = x
  BY <1>1 DEF Listed
<1>4. t # <<>>
  BY <1>1
<1>. QED BY <1>1, <1>2, <1>3, <1>4 DEF t

LEMMA QueueTail ==
  ASSUME NEW S, NEW s \in Seq(S), Distinct(s), s # <<>>
  PROVE  /\ Head(s) \in S /\ Listed(s, Head(s))
         /\ Tail(s) \in Seq(S) /\ Distinct(Tail(s))
         /\ \A y \in S : Listed(Tail(s), y) <=> Listed(s, y) /\ y # Head(s)
<1> DEFINE t == Tail(s)
           h == Head(s)
<1>1. /\ Len(s) \in Nat /\ Len(s) >= 1 /\ h = s[1] /\ h \in S
      /\ t \in Seq(S) /\ Len(t) = Len(s) - 1 /\ \A i \in 1..Len(t) : t[i] = s[i + 1]
  OBVIOUS
<1>. HIDE DEF t, h
<1>2. \A i \in 1..Len(t) : i + 1 \in 1..Len(s) /\ t[i] = s[i + 1]
  BY <1>1
<1>3. Distinct(t)
  BY <1>1, <1>2 DEF Distinct
<1>4. ASSUME NEW y \in S PROVE Listed(t, y) <=> Listed(s, y) /\ y # h
  <2>1. ASSUME Listed(t, y) PROVE Listed(s, y) /\ y # h
    BY <2>1, <1>1, <1>2 DEF Listed, Distinct
  <2>2. ASSUME Listed(s, y), y # h PROVE Listed(t, y)
    <3>1. PICK j \in 1..Len(s) : s[j] = y
      BY <2>2 DEF Listed
    <3>2. j # 1
      BY <3>1, <2>2, <1>1
    <3>3. j - 1 \in 1..Len(t) /\ (j - 1) + 1 = j
      BY <3>2, <1>1
    <3>. QED BY <3>1, <3>3, <1>2 DEF Listed
  <2>. QED BY <2>1, <2>2
<1>5. Listed(s, h)
  BY <1>1 DEF Listed
<1>. QED BY <1>1, <1>3, <1>4, <1>5 DEF t, h

LEMMA Shorter ==
  ASSUME NEW S, NEW s \in Seq(S), NEW i \in 1..Len(s)
  PROVE  LET t == [k \in 1..Len(s) - 1 |-> IF k < i THEN s[k] ELSE s[k + 1]]
         IN  t \in Seq(S) /\ Len(t) = Len(s) - 1
<1> DEFINE n == Len(s) - 1
           t == [k \in 1..n |-> IF k < i THEN s[k] ELSE s[k + 1]]
<1>1. n \in Nat
  OBVIOUS
<1>2. \A k \in 1..n : t[k] \in S
  OBVIOUS
<1>3. t \in [1..n -> S]
  BY <1>2
<1>4. t \in Seq(S)
  BY <1>1, <1>3
<1>5. Len(t) = n
  BY <1>1, <1>3, <1>4
<1>. QED BY <1>4, <1>5

LEMMA QueueWithout ==
  ASSUME NEW S, NEW s \in Seq(S), Distinct(s), NEW x \in S, Listed(s, x)
  PROVE  /\ Without(s, x) \in Seq(S) /\ Distinct(Without(s, x))
         /\ \A y \in S : Listed(Without(s, x), y) <=> Listed(s, y) /\ y # x
<1> DEFINE t == Without(s, x)
           i == CHOOSE i \in 1..Len(s) : s[i] = x
           n == Len(s) - 1
<1>1. i \in 1..Len(s) /\ s[i] = x
  BY DEF Listed
<1>2. t = [k \in 1..n |-> IF k < i THEN s[k] ELSE s[k + 1]]
  BY DEF Without
<1>. HIDE DEF i
<1>3. t \in Seq(S) /\ Len(t) = n /\ n \in Nat
  BY <1>1, <1>2, Shorter
<1>4. \A k \in 1..n : t[k] = IF k < i THEN s[k] ELSE s[k + 1]
  BY <1>2
<1>. HIDE DEF t
<1>5. ASSUME NEW y \in S PROVE Listed(t, y) <=> Listed(s, y) /\ y # x
  <2>1. ASSUME NEW k \in 1..n, t[k] = y PROVE Listed(s, y) /\ y # x
    BY <2>1, <1>1, <1>3, <1>4 DEF Listed, Distinct
  <2>2. ASSUME Listed(s, y), y # x PROVE \E k \in 1..n : t[k] = y
    <3>1. PICK j \in 1..Len(s) : s[j] = y
      BY <2>2 DEF Listed
    <3>2. CASE j < i
      BY <3>1, <3>2, <1>1, <1>3, <1>4
    <3>3. CASE j > i
      <4>1. j - 1 \in 1..n /\ ~(j - 1 < i) /\ (j - 1) + 1 = j
        BY <3>3, <1>1, <1>3
      <4>. QED BY <4>1, <3>1, <1>4
    <3>. QED BY <3>1, <3>2, <3>3, <2>2, <1>1
  <2>. QED BY <2>1, <2>2, <1>3 DEF Listed
<1>6. Distinct(t)
  BY <1>1, <1>3, <1>4 DEF Distinct
<1>. QED BY <1>3, <1>5, <1>6 DEF t

(* Sets of turns are finite; a turn counts for one. *)
LEMMA Counted ==
  ASSUME NEW S, S \subseteq Turns
  PROVE  /\ IsFiniteSet(S) /\ Cardinality(S) \in Nat
         /\ \A t \in S : Cardinality(S) >= 1
         /\ \A t \in Turns \ S : Cardinality(S \cup {t}) = Cardinality(S) + 1
         /\ \A t \in S : Cardinality(S \ {t}) = Cardinality(S) - 1
<1>1. IsFiniteSet(S)
  BY CallsAssumption, FS_Subset
<1>2. Cardinality(S) \in Nat
  BY <1>1, FS_CardinalityType
<1>3. \A t \in Turns \ S : Cardinality(S \cup {t}) = Cardinality(S) + 1
  BY <1>1, FS_AddElement
<1>4. \A t \in S : Cardinality(S \ {t}) = Cardinality(S) - 1
  BY <1>1, FS_RemoveElement
<1>5. ASSUME NEW t \in S PROVE Cardinality(S) >= 1
  <2>1. Cardinality(S \ {t}) = Cardinality(S) - 1 /\ Cardinality(S \ {t}) \in Nat
    BY <1>1, <1>4, FS_Subset, FS_CardinalityType
  <2>. QED BY <2>1, <1>2
<1>. QED BY <1>1, <1>2, <1>3, <1>4, <1>5

-----------------------------------------------------------------------------
(* Turns and their sessions *)

Calls == [at : Nat, generation : Nat, probe : BOOLEAN]
Begun == {"queued", "granted", "calling", "leaving"}

(* Only conversations wait for a lock, and a turn that is trying has a      *)
(* candidate left.                                                          *)
CoreOK ==
  /\ pc \in [Turns -> Places]
  /\ aborted \in [Turns -> BOOLEAN]
  /\ seen \in [Turns -> [Models -> 0..1]]
  /\ cursor \in [Turns -> Nat]
  /\ call \in [Turns -> Calls]
  /\ outcome \in [Turns -> Outcomes]
  /\ version \in [Models -> 0..1]
  /\ \A t \in Turns : /\ pc[t] \in {"new", "waitlock", "done"} => Grouped(t)
                      /\ pc[t] \in {"new", "waitlock", "locked"} => cursor[t] = 0
                      /\ pc[t] = "trying" => cursor[t] < Len(Route[t])
                      /\ pc[t] \in Begun => cursor[t] >= 1
                      /\ cursor[t] <= Len(Route[t])

LEMMA RouteType == \A t \in Turns : Route[t] \in Seq(Models) /\ Len(Route[t]) \in Nat
BY CallsAssumption

LEMMA ModelType == ASSUME CoreOK, NEW t \in Turns, pc[t] \in Begun PROVE ModelOf(t) \in Models
<1>1. cursor[t] \in 1..Len(Route[t])
  BY RouteType DEF CoreOK
<1>. QED BY <1>1, RouteType DEF ModelOf

(* The queues; what a step may do to them is in LockStep and PermitStep.    *)
LockOK ==
  \A g \in Groups :
    /\ held[g] = Cardinality(HoldersOf(g)) /\ held[g] <= PerGroup
    /\ lockQueue[g] # <<>> => held[g] = PerGroup
    /\ Distinct(lockQueue[g])
    /\ \A t \in Turns : Listed(lockQueue[g], t) <=> GroupOf[t] = g /\ pc[t] = "waitlock"

LockType == held \in [Groups -> Nat] /\ lockQueue \in [Groups -> Seq(Turns)]

Holders == {t \in Turns : pc[t] \in Permitted}

PermitOK ==
  /\ active = Cardinality(Holders) /\ active \in 0..MaxConcurrent
  /\ waiters # <<>> => active = MaxConcurrent
  /\ waiters \in Seq(Turns) /\ Distinct(waiters)
  /\ \A t \in Turns : Listed(waiters, t) <=> pc[t] = "queued"

LEMMA CoreInit == Init => CoreOK
<1> SUFFICES ASSUME Init PROVE CoreOK
  OBVIOUS
<1>1. call \in [Turns -> Calls]
  BY DEF Init, Calls, NoCall
<1>2. pc \in [Turns -> Places]
  BY DEF Init, Places
<1>. QED BY <1>1, <1>2, RouteType DEF Init, CoreOK, Outcomes, Begun

(* The turns that a step wakes are the first in their queues. *)
LEMMA LockHead ==
  ASSUME LockOK, LockType, NEW g \in Groups, lockQueue[g] # <<>>
  PROVE  /\ Head(lockQueue[g]) \in Turns /\ pc[Head(lockQueue[g])] = "waitlock"
         /\ GroupOf[Head(lockQueue[g])] = g
BY QueueTail DEF LockOK, LockType

LEMMA PermitHead ==
  ASSUME PermitOK, waiters # <<>>
  PROVE  Head(waiters) \in Turns /\ pc[Head(waiters)] = "queued"
BY QueueTail DEF PermitOK

(* The circuits; every attempt knows one of its model. *)
CircuitType == circuits \in [Models -> Seq(Circuit)]

AttemptOK == \A t \in Turns : pc[t] \in Begun => call[t].at \in 1..Len(circuits[ModelOf(t)])

LEMMA KnownType ==
  ASSUME CoreOK, CircuitType, NEW m \in Models, NEW v \in 0..1
  PROVE  /\ CircuitsFor(m, v) \in Seq(Circuit) /\ Len(CircuitsFor(m, v)) \in Nat \ {0}
         /\ Len(circuits[m]) <= Len(CircuitsFor(m, v))
         /\ \A i \in 1..Len(circuits[m]) : CircuitsFor(m, v)[i] = circuits[m][i]
         /\ \A i \in 1..Len(CircuitsFor(m, v)) :
              i > Len(circuits[m]) => CircuitsFor(m, v)[i] = FreshCircuit(v)
<1>1. FreshCircuit(v) \in Circuit
  BY DEF FreshCircuit, Circuit
<1>2. circuits[m] \in Seq(Circuit) /\ Len(circuits[m]) \in Nat
  BY DEF CircuitType
<1>3. CASE circuits[m] # <<>> /\ circuits[m][Len(circuits[m])].of = v
  <2>1. CircuitsFor(m, v) = circuits[m]
    BY <1>3 DEF CircuitsFor
  <2>. QED BY <2>1, <1>2, <1>3
<1>4. CASE ~(circuits[m] # <<>> /\ circuits[m][Len(circuits[m])].of = v)
  <2>1. CircuitsFor(m, v) = Append(circuits[m], FreshCircuit(v))
    BY <1>4 DEF CircuitsFor
  <2>. QED BY <2>1, <1>1, <1>2
<1>. QED BY <1>3, <1>4

LEMMA TriedModel ==
  ASSUME CoreOK, CircuitType, NEW t \in Turns, pc[t] = "trying"
  PROVE  /\ Route[t][cursor[t] + 1] \in Models
         /\ seen[t][Route[t][cursor[t] + 1]] \in 0..1
<1>1. cursor[t] + 1 \in 1..Len(Route[t])
  BY RouteType DEF CoreOK
<1>2. Route[t][cursor[t] + 1] \in Models
  BY <1>1, RouteType
<1>. QED BY <1>2 DEF CoreOK

LEMMA CalledCircuit ==
  ASSUME CoreOK, CircuitType, AttemptOK, NEW t \in Turns, pc[t] \in Begun
  PROVE  /\ ModelOf(t) \in Models /\ call[t].at \in 1..Len(circuits[ModelOf(t)])
         /\ CircuitOf(t) \in Circuit
<1>1. ModelOf(t) \in Models
  BY ModelType
<1>2. call[t].at \in 1..Len(circuits[ModelOf(t)])
  BY DEF AttemptOK
<1>. QED BY <1>1, <1>2 DEF CircuitOf, CircuitType

LEMMA CoreStep ==
  ASSUME CoreOK, LockOK, LockType, PermitOK, CircuitType, AttemptOK, [Next]_vars
  PROVE  CoreOK'
<1>1. CASE UNCHANGED vars
  BY <1>1 DEF vars, CoreOK, Begun
<1>2. ASSUME NEW t \in Turns, Advance(t) \/ Abort(t) PROVE CoreOK'
  <2>1. CASE Enter(t)
    BY <2>1 DEF Enter, Goto, session, Places, CoreOK, Begun
  <2>2. CASE Exit(t)
    <3> DEFINE g == GroupOf[t]
    <3>1. g \in Groups
      BY <2>2, CallsAssumption DEF Exit, Grouped
    <3>2. CASE lockQueue[g] # <<>>
      <4>1. pc' = [pc EXCEPT ![t] = "done", ![Head(lockQueue[g])] = "locked"]
        BY <2>2, <3>2 DEF Exit, Unlock, HandOver
      <4>2. Head(lockQueue[g]) \in Turns /\ pc[Head(lockQueue[g])] = "waitlock"
        BY <3>1, <3>2, LockHead
      <4>. QED BY <2>2, <4>1, <4>2 DEF Exit, session, Places, CoreOK, Begun
    <3>3. CASE lockQueue[g] = <<>>
      <4>1. pc' = [pc EXCEPT ![t] = "done"]
        BY <2>2, <3>3 DEF Exit, Unlock, FreeSlot, Goto
      <4>. QED BY <2>2, <4>1 DEF Exit, session, Places, CoreOK, Begun
    <3>. QED BY <3>2, <3>3
  <2>3. CASE Begin(t)
    <3>1. Route[t] # <<>> => 0 < Len(Route[t])
      BY RouteType
    <3>. QED BY <2>3, <3>1 DEF Begin, Goto, Places, CoreOK, Begun
  <2>4. CASE GiveUp(t)
    BY <2>4 DEF GiveUp, Goto, session, Places, CoreOK, Begun
  <2>5. CASE Attempt(t)
    <3>1. PICK place \in {"granted", "queued"} : pc' = [pc EXCEPT ![t] = place]
      BY <2>5 DEF Attempt, Goto
    <3>2. PICK n \in Nat : call' = [call EXCEPT ![t] = [NoCall EXCEPT !.at = n]]
      <4> DEFINE m == Route[t][cursor[t] + 1]
                 n == Len(CircuitsFor(m, seen[t][m]))
      <4>1. call' = [call EXCEPT ![t] = [NoCall EXCEPT !.at = n]]
        BY <2>5 DEF Attempt
      <4>2. n \in Nat
        BY <2>5, TriedModel, KnownType DEF Attempt
      <4>. QED BY <4>1, <4>2
    <3>3. [NoCall EXCEPT !.at = n] \in Calls
      BY DEF NoCall, Calls
    <3>4. call' \in [Turns -> Calls]
      BY <3>2, <3>3 DEF CoreOK
    <3>5. cursor' = [cursor EXCEPT ![t] = @ + 1] /\ pc[t] = "trying"
      BY <2>5 DEF Attempt
    <3>. QED BY <2>5, <3>1, <3>4, <3>5, RouteType DEF Attempt, Places, CoreOK, Begun
  <2>6. CASE QueueTimeout(t)
    <3>1. NoCall \in Calls
      BY DEF NoCall, Calls
    <3>. QED BY <2>6, <3>1 DEF QueueTimeout, Goto, Places, CoreOK, Begun
  <2>7. CASE TurnedAway(t)
    BY <2>7 DEF TurnedAway, Goto, Places, Outcomes, CoreOK, Begun
  <2>8. CASE Call(t)
    <3>1. CircuitOf(t).generation \in Nat
      BY <2>8, CalledCircuit DEF Call, Begun, Circuit
    <3>2. PICK b \in BOOLEAN :
            call' = [call EXCEPT ![t] = [at |-> @.at, generation |-> CircuitOf(t).generation,
                                         probe |-> b]]
      BY <2>8 DEF Call
    <3>3. call' \in [Turns -> Calls]
      BY <3>1, <3>2 DEF Calls, CoreOK
    <3>. QED BY <2>8, <3>3 DEF Call, Goto, Places, CoreOK, Begun
  <2>9. ASSUME NEW o \in {"ok", "transient", "rejected", "cancelled"}, Settle(t, o) PROVE CoreOK'
    BY <2>9 DEF Settle, Goto, Places, Outcomes, CoreOK, Begun
  <2>10. CASE Leave(t)
    <3>1. NoCall \in Calls
      BY DEF NoCall, Calls
    <3>2. PICK place \in Onward(t) :
            pc' = [u \in Turns |-> IF u = t THEN place
                                   ELSE IF waiters # <<>> /\ u = Head(waiters) THEN "granted"
                                   ELSE pc[u]]
      BY <2>10 DEF Leave
    <3>3. place \in {"over", "trying"} /\ (place = "trying" => cursor[t] < Len(Route[t]))
      BY <3>2 DEF Onward, More
    <3>4. waiters # <<>> => Head(waiters) \in Turns /\ pc[Head(waiters)] = "queued"
      BY PermitHead
    <3>. QED BY <2>10, <3>1, <3>2, <3>3, <3>4 DEF Leave, Places, Outcomes, CoreOK, Begun
  <2>11. CASE Abort(t)
    <3>1. NoCall \in Calls
      BY DEF NoCall, Calls
    <3>. QED BY <2>11, <3>1 DEF Abort, AbortWaiter, Goto, Places, CoreOK, Begun
  <2>. QED BY <1>2, <2>1, <2>2, <2>3, <2>4, <2>5, <2>6, <2>7, <2>8, <2>9, <2>10, <2>11 DEF Advance
<1>3. ASSUME NEW m \in Models, NEW i \in 1..Len(circuits[m]), Cool(m, i) PROVE CoreOK'
  BY <1>3 DEF Cool, session, CoreOK, Begun
<1>4. ASSUME NEW m \in Models, Edit(m) PROVE CoreOK'
  BY <1>4 DEF Edit, session, CoreOK, Begun
<1>5. CASE Rest
  BY <1>5 DEF Rest, vars, CoreOK, Begun
<1>. QED BY <1>1, <1>2, <1>3, <1>4, <1>5 DEF Next

-----------------------------------------------------------------------------
(* The locks of the groups *)

LEMMA LockStays ==
  ASSUME LockOK, LockType, UNCHANGED lock,
         \A t \in Turns : /\ pc'[t] \in Inside <=> pc[t] \in Inside
                          /\ pc'[t] = "waitlock" <=> pc[t] = "waitlock"
  PROVE  LockOK' /\ LockType'
<1>1. ASSUME NEW g \in Groups PROVE HoldersOf(g)' = HoldersOf(g)
  BY DEF HoldersOf
<1>. QED BY <1>1 DEF LockOK, LockType, lock, Distinct, Listed

LEMMA EnterLock ==
  ASSUME CoreOK, LockOK, LockType, NEW t \in Turns, Enter(t) PROVE LockOK' /\ LockType'
<1> DEFINE g == GroupOf[t]
<1>1. g \in Groups /\ pc[t] = "new"
  BY CallsAssumption DEF Enter, CoreOK, Grouped
<1>2. CASE held[g] < PerGroup
  <2>1. /\ held' = [held EXCEPT ![g] = @ + 1] /\ pc' = [pc EXCEPT ![t] = "locked"]
        /\ lockQueue' = lockQueue
    BY <1>2, <1>1, CallsAssumption DEF Enter, Goto, LockType
  <2>2. LockType'
    BY <1>1, <2>1 DEF LockType
  <2>3. ASSUME NEW k \in Groups
        PROVE  held'[k] = Cardinality(HoldersOf(k)') /\ held'[k] <= PerGroup
    <3>1. CASE k = g
      <4>1. HoldersOf(g)' = HoldersOf(g) \cup {t} /\ t \notin HoldersOf(g)
        BY <1>1, <2>1 DEF HoldersOf, Inside, CoreOK
      <4>2. Cardinality(HoldersOf(g) \cup {t}) = Cardinality(HoldersOf(g)) + 1
        BY <4>1, Counted DEF HoldersOf
      <4>. QED BY <3>1, <4>1, <4>2, <2>1, <1>1, <1>2, CallsAssumption DEF LockOK, LockType
    <3>2. CASE k # g
      <4>1. HoldersOf(k)' = HoldersOf(k)
        BY <3>2, <1>1, <2>1 DEF HoldersOf, CoreOK
      <4>. QED BY <3>2, <4>1, <2>1 DEF LockOK, LockType
    <3>. QED BY <3>1, <3>2
  <2>4. ASSUME NEW k \in Groups PROVE lockQueue'[k] # <<>> => held'[k] = PerGroup
    BY <1>2, <2>1, <1>1 DEF LockOK, LockType
  <2>5. ASSUME NEW k \in Groups, NEW u \in Turns
        PROVE  Listed(lockQueue'[k], u) <=> GroupOf[u] = k /\ pc'[u] = "waitlock"
    BY <2>1, <1>1 DEF LockOK, CoreOK
  <2>. QED BY <2>1, <2>2, <2>3, <2>4, <2>5 DEF LockOK, Distinct, Listed
<1>3. CASE held[g] >= PerGroup
  <2>1. /\ lockQueue' = [lockQueue EXCEPT ![g] = Append(@, t)]
        /\ pc' = [pc EXCEPT ![t] = "waitlock"] /\ held' = held
    BY <1>3, <1>1, CallsAssumption DEF Enter, Goto, LockType
  <2>2. /\ Append(lockQueue[g], t) \in Seq(Turns) /\ Distinct(Append(lockQueue[g], t))
        /\ \A u \in Turns : Listed(Append(lockQueue[g], t), u) <=> Listed(lockQueue[g], u) \/ u = t
    <3>1. lockQueue[g] \in Seq(Turns) /\ Distinct(lockQueue[g]) /\ ~Listed(lockQueue[g], t)
      BY <1>1 DEF LockOK, LockType
    <3>. QED BY <3>1, QueueAppend
  <2>3. LockType'
    BY <1>1, <2>1, <2>2 DEF LockType
  <2>4. ASSUME NEW k \in Groups PROVE HoldersOf(k)' = HoldersOf(k)
    BY <1>1, <2>1 DEF HoldersOf, Inside, CoreOK
  <2>5. ASSUME NEW k \in Groups
        PROVE  /\ Distinct(lockQueue'[k])
               /\ lockQueue'[k] # <<>> => held'[k] = PerGroup
               /\ \A u \in Turns : Listed(lockQueue'[k], u) <=>
                                     GroupOf[u] = k /\ pc'[u] = "waitlock"
    <3>1. CASE k = g
      BY <3>1, <1>1, <1>3, <2>1, <2>2, CallsAssumption DEF LockOK, LockType, CoreOK
    <3>2. CASE k # g
      BY <3>2, <1>1, <2>1 DEF LockOK, LockType, CoreOK
    <3>. QED BY <3>1, <3>2
  <2>. QED BY <2>1, <2>3, <2>4, <2>5 DEF LockOK
<1>. QED BY <1>1, <1>2, <1>3, CallsAssumption DEF LockType

LEMMA ExitLock ==
  ASSUME CoreOK, LockOK, LockType, NEW t \in Turns, Exit(t) PROVE LockOK' /\ LockType'
<1> DEFINE g == GroupOf[t]
           h == Head(lockQueue[g])
<1>1. g \in Groups /\ pc[t] = "over"
  BY CallsAssumption DEF Exit, Grouped
<1>2. t \in HoldersOf(g) /\ HoldersOf(g) \subseteq Turns
  BY <1>1 DEF HoldersOf, Inside
<1>3. CASE lockQueue[g] # <<>>
  <2>1. /\ held' = held /\ lockQueue' = [lockQueue EXCEPT ![g] = Tail(@)]
        /\ pc' = [pc EXCEPT ![t] = "done", ![h] = "locked"]
    BY <1>3 DEF Exit, Unlock, HandOver
  <2>2. h \in Turns /\ pc[h] = "waitlock" /\ GroupOf[h] = g /\ h # t
    BY <1>1, <1>3, LockHead
  <2>3. /\ Tail(lockQueue[g]) \in Seq(Turns) /\ Distinct(Tail(lockQueue[g]))
        /\ \A u \in Turns : Listed(Tail(lockQueue[g]), u) <=> Listed(lockQueue[g], u) /\ u # h
    <3>1. lockQueue[g] \in Seq(Turns) /\ Distinct(lockQueue[g])
      BY <1>1 DEF LockOK, LockType
    <3>. QED BY <3>1, <1>3, QueueTail
  <2>. HIDE DEF h
  <2>4. /\ pc'[t] = "done" /\ pc'[h] = "locked"
        /\ \A u \in Turns : u # t /\ u # h => pc'[u] = pc[u]
    BY <2>1, <2>2 DEF CoreOK
  <2>5. LockType'
    BY <1>1, <2>1, <2>3 DEF LockType
  <2>6. ASSUME NEW k \in Groups PROVE Cardinality(HoldersOf(k)') = Cardinality(HoldersOf(k))
    <3>1. CASE k = g
      <4>1. HoldersOf(g)' = (HoldersOf(g) \ {t}) \cup {h}
        BY <2>2, <2>4 DEF HoldersOf, Inside
      <4>2. h \notin HoldersOf(g)
        BY <2>2 DEF HoldersOf, Inside
      <4> DEFINE S == HoldersOf(g) \ {t}
      <4>3. Cardinality(S) = Cardinality(HoldersOf(g)) - 1
        BY <1>2, Counted
      <4>4. Cardinality(S \cup {h}) = Cardinality(S) + 1
        BY <4>2, <1>2, <2>2, Counted
      <4>5. Cardinality(HoldersOf(g)) \in Nat
        BY <1>2, Counted
      <4>. QED BY <3>1, <4>1, <4>3, <4>4, <4>5
    <3>2. CASE k # g
      <4>1. HoldersOf(k)' = HoldersOf(k)
        BY <3>2, <2>2, <2>4 DEF HoldersOf
      <4>. QED BY <4>1
    <3>. QED BY <3>1, <3>2
  <2>7. ASSUME NEW k \in Groups
        PROVE  /\ Distinct(lockQueue'[k])
               /\ lockQueue'[k] # <<>> => held'[k] = PerGroup
               /\ \A u \in Turns : Listed(lockQueue'[k], u) <=>
                                     GroupOf[u] = k /\ pc'[u] = "waitlock"
    <3>1. CASE k = g
      <4>1. lockQueue'[g] = Tail(lockQueue[g])
        BY <1>1, <2>1 DEF LockType
      <4>2. held'[g] = PerGroup
        BY <1>1, <1>3, <2>1 DEF LockOK
      <4>3. \A u \in Turns : pc'[u] = "waitlock" <=> pc[u] = "waitlock" /\ u # h
        BY <1>1, <2>2, <2>4
      <4>. QED BY <3>1, <1>1, <4>1, <4>2, <4>3, <2>3 DEF LockOK
    <3>2. CASE k # g
      <4>1. lockQueue'[k] = lockQueue[k] /\ held'[k] = held[k]
        BY <3>2, <2>1 DEF LockType
      <4>2. \A u \in Turns : GroupOf[u] = k => (pc'[u] = "waitlock" <=> pc[u] = "waitlock")
        BY <3>2, <1>1, <2>2, <2>4
      <4>. QED BY <4>1, <4>2 DEF LockOK
    <3>. QED BY <3>1, <3>2
  <2>. QED BY <2>1, <2>5, <2>6, <2>7 DEF LockOK
<1>4. CASE lockQueue[g] = <<>>
  <2>1. /\ held' = [held EXCEPT ![g] = @ - 1] /\ lockQueue' = lockQueue
        /\ pc' = [pc EXCEPT ![t] = "done"]
    BY <1>4 DEF Exit, Unlock, FreeSlot, Goto
  <2>2. held[g] >= 1 /\ held[g] \in Nat
    BY <1>1, <1>2, Counted DEF LockOK
  <2>3. LockType'
    BY <1>1, <2>1, <2>2 DEF LockType
  <2>4. ASSUME NEW k \in Groups
        PROVE  held'[k] = Cardinality(HoldersOf(k)') /\ held'[k] <= PerGroup
    <3>1. CASE k = g
      <4>1. HoldersOf(g)' = HoldersOf(g) \ {t}
        BY <1>1, <2>1 DEF HoldersOf, Inside, CoreOK
      <4>2. Cardinality(HoldersOf(g) \ {t}) = Cardinality(HoldersOf(g)) - 1
        BY <1>2, Counted
      <4>. QED BY <3>1, <4>1, <4>2, <2>1, <2>2, <1>1, CallsAssumption DEF LockOK, LockType
    <3>2. CASE k # g
      <4>1. HoldersOf(k)' = HoldersOf(k)
        BY <3>2, <1>1, <2>1 DEF HoldersOf, CoreOK
      <4>. QED BY <3>2, <4>1, <2>1 DEF LockOK, LockType
    <3>. QED BY <3>1, <3>2
  <2>5. ASSUME NEW k \in Groups PROVE lockQueue'[k] # <<>> => held'[k] = PerGroup
    BY <1>1, <1>4, <2>1 DEF LockOK, LockType
  <2>6. ASSUME NEW k \in Groups, NEW u \in Turns
        PROVE  Listed(lockQueue'[k], u) <=> GroupOf[u] = k /\ pc'[u] = "waitlock"
    BY <1>1, <2>1 DEF LockOK, CoreOK
  <2>. QED BY <2>1, <2>3, <2>4, <2>5, <2>6 DEF LockOK, Distinct, Listed
<1>. QED BY <1>3, <1>4

(* The other steps keep every conversation inside or outside its lock. *)
LEMMA LockStep ==
  ASSUME CoreOK, LockOK, LockType, PermitOK, [Next]_vars PROVE LockOK' /\ LockType'
<1>. USE DEF Inside
<1>1. CASE UNCHANGED vars
  BY <1>1, LockStays DEF vars, lock
<1>2. ASSUME NEW t \in Turns, Advance(t) \/ Abort(t) PROVE LockOK' /\ LockType'
  <2>1. CASE Enter(t)
    BY <2>1, EnterLock
  <2>2. CASE Exit(t)
    BY <2>2, ExitLock
  <2>3. CASE Begin(t)
    BY <2>3, LockStays DEF Begin, Goto, CoreOK
  <2>4. CASE GiveUp(t)
    BY <2>4, LockStays DEF GiveUp, Goto, CoreOK
  <2>5. CASE Attempt(t)
    <3>1. PICK place \in {"granted", "queued"} : pc' = [pc EXCEPT ![t] = place]
      BY <2>5 DEF Attempt, Goto
    <3>. QED BY <2>5, <3>1, LockStays DEF Attempt, CoreOK
  <2>6. CASE QueueTimeout(t)
    BY <2>6, LockStays DEF QueueTimeout, Goto, CoreOK
  <2>7. CASE TurnedAway(t)
    BY <2>7, LockStays DEF TurnedAway, Goto, CoreOK
  <2>8. CASE Call(t)
    BY <2>8, LockStays DEF Call, Goto, CoreOK
  <2>9. ASSUME NEW o, Settle(t, o) PROVE LockOK' /\ LockType'
    BY <2>9, LockStays DEF Settle, Goto, CoreOK
  <2>10. CASE Leave(t)
    <3>1. PICK place \in Onward(t) :
            pc' = [u \in Turns |-> IF u = t THEN place
                                   ELSE IF waiters # <<>> /\ u = Head(waiters) THEN "granted"
                                   ELSE pc[u]]
      BY <2>10 DEF Leave
    <3>2. place \in {"over", "trying"}
      BY <3>1 DEF Onward
    <3>3. waiters # <<>> => pc[Head(waiters)] = "queued"
      BY PermitHead
    <3>. QED BY <2>10, <3>1, <3>2, <3>3, LockStays DEF Leave
  <2>11. CASE Abort(t)
    BY <2>11, LockStays DEF Abort, AbortWaiter, Goto, CoreOK
  <2>. QED BY <1>2, <2>1, <2>2, <2>3, <2>4, <2>5, <2>6, <2>7, <2>8, <2>9, <2>10, <2>11 DEF Advance
<1>3. ASSUME NEW m \in Models, NEW i \in 1..Len(circuits[m]), Cool(m, i) PROVE LockOK' /\ LockType'
  BY <1>3, LockStays DEF Cool
<1>4. ASSUME NEW m \in Models, Edit(m) PROVE LockOK' /\ LockType'
  BY <1>4, LockStays DEF Edit
<1>5. CASE Rest
  BY <1>5, LockStays DEF Rest, vars, lock
<1>. QED BY <1>1, <1>2, <1>3, <1>4, <1>5 DEF Next

-----------------------------------------------------------------------------
(* The permits *)

LEMMA PermitStays ==
  ASSUME PermitOK, UNCHANGED permits,
         \A t \in Turns : /\ pc'[t] \in Permitted <=> pc[t] \in Permitted
                          /\ pc'[t] = "queued" <=> pc[t] = "queued"
  PROVE  PermitOK'
<1>1. Holders' = Holders
  BY DEF Holders
<1>. QED BY <1>1 DEF PermitOK, permits, Distinct, Listed

(* A turn that gives up waiting. *)
LEMMA WaiterLeaves ==
  ASSUME CoreOK, PermitOK, NEW t \in Turns, pc[t] = "queued",
         waiters' = Without(waiters, t), active' = active, pc' = [pc EXCEPT ![t] = "over"]
  PROVE  PermitOK'
<1>1. Holders' = Holders
  BY DEF Holders, Permitted, CoreOK
<1>2. waiters # <<>> /\ Listed(waiters, t)
  BY DEF PermitOK, Listed
<1>3. /\ waiters' \in Seq(Turns) /\ Distinct(waiters')
      /\ \A u \in Turns : Listed(waiters', u) <=> Listed(waiters, u) /\ u # t
  BY <1>2, QueueWithout DEF PermitOK
<1>4. \A u \in Turns : pc'[u] = "queued" <=> pc[u] = "queued" /\ u # t
  BY DEF CoreOK
<1>. QED BY <1>1, <1>2, <1>3, <1>4 DEF PermitOK

LEMMA AttemptPermit ==
  ASSUME CoreOK, PermitOK, NEW t \in Turns, Attempt(t) PROVE PermitOK'
<1>1. pc[t] = "trying"
  BY DEF Attempt
<1>2. CASE active < MaxConcurrent /\ active' = active + 1 /\ Goto(t, "granted") /\ waiters' = waiters
  <2>1. Holders' = Holders \cup {t} /\ t \notin Holders /\ Holders \subseteq Turns
    BY <1>1, <1>2 DEF Holders, Permitted, Goto, CoreOK
  <2>2. Cardinality(Holders \cup {t}) = Cardinality(Holders) + 1
    BY <2>1, Counted
  <2>3. \A u \in Turns : pc'[u] = "queued" <=> pc[u] = "queued"
    BY <1>1, <1>2 DEF Goto, CoreOK
  <2>4. active' = Cardinality(Holders') /\ active' \in 0..MaxConcurrent
    BY <1>2, <2>1, <2>2, CallsAssumption DEF PermitOK
  <2>5. waiters' = <<>>
    BY <1>2, CallsAssumption DEF PermitOK
  <2>. QED BY <1>2, <2>3, <2>4, <2>5 DEF PermitOK
<1>3. CASE /\ active >= MaxConcurrent /\ waiters' = Append(waiters, t)
           /\ Goto(t, "queued") /\ active' = active
  <2>1. Holders' = Holders
    BY <1>1, <1>3 DEF Holders, Permitted, Goto, CoreOK
  <2>2. ~Listed(waiters, t)
    BY <1>1 DEF PermitOK
  <2>3. /\ waiters' \in Seq(Turns) /\ Distinct(waiters')
        /\ \A u \in Turns : Listed(waiters', u) <=> Listed(waiters, u) \/ u = t
    BY <1>3, <2>2, QueueAppend DEF PermitOK
  <2>4. \A u \in Turns : pc'[u] = "queued" <=> pc[u] = "queued" \/ u = t
    BY <1>3 DEF Goto, CoreOK
  <2>5. active' = MaxConcurrent
    BY <1>3, CallsAssumption DEF PermitOK
  <2>. QED BY <1>3, <2>1, <2>3, <2>4, <2>5, CallsAssumption DEF PermitOK
<1>. QED BY <1>2, <1>3 DEF Attempt

LEMMA LeavePermit ==
  ASSUME CoreOK, PermitOK, NEW t \in Turns, Leave(t) PROVE PermitOK'
<1> DEFINE h == Head(waiters)
<1>1. pc[t] = "leaving" /\ t \in Holders /\ Holders \subseteq Turns
  BY DEF Leave, Holders, Permitted
<1>2. PICK place \in Onward(t) :
        pc' = [u \in Turns |-> IF u = t THEN place
                               ELSE IF waiters # <<>> /\ u = h THEN "granted" ELSE pc[u]]
  BY DEF Leave
<1>3. place \in {"over", "trying"}
  BY <1>2 DEF Onward
<1> DEFINE S == Holders \ {t}
<1>4. Cardinality(S) = Cardinality(Holders) - 1 /\ Cardinality(Holders) \in Nat
      /\ Cardinality(Holders) >= 1
  BY <1>1, Counted
<1>5. CASE waiters # <<>>
  <2>1. h \in Turns /\ pc[h] = "queued" /\ h # t
    BY <1>1, <1>5, PermitHead
  <2>2. waiters' = Tail(waiters) /\ active' = active
    BY <1>5 DEF Leave, PassPermit
  <2>3. /\ waiters' \in Seq(Turns) /\ Distinct(waiters')
        /\ \A u \in Turns : Listed(waiters', u) <=> Listed(waiters, u) /\ u # h
    BY <1>5, <2>2, QueueTail DEF PermitOK
  <2>. HIDE DEF h
  <2>4. Holders' = S \cup {h} /\ h \notin S /\ S \subseteq Turns
    BY <1>2, <1>3, <1>5, <2>1 DEF Holders, Permitted
  <2>5. Cardinality(S \cup {h}) = Cardinality(S) + 1
    BY <2>1, <2>4, Counted
  <2>6. \A u \in Turns : pc'[u] = "queued" <=> pc[u] = "queued" /\ u # h
    BY <1>1, <1>2, <1>3, <1>5, <2>1
  <2>7. Cardinality(Holders') = Cardinality(Holders)
    BY <1>4, <2>4, <2>5
  <2>. QED BY <1>5, <2>2, <2>3, <2>6, <2>7 DEF PermitOK
<1>6. CASE waiters = <<>>
  <2>1. waiters' = waiters /\ active' = active - 1
    BY <1>6 DEF Leave, PassPermit
  <2>2. Holders' = S
    BY <1>2, <1>3, <1>6 DEF Holders, Permitted
  <2>3. \A u \in Turns : pc'[u] = "queued" <=> pc[u] = "queued"
    BY <1>1, <1>2, <1>3, <1>6
  <2>4. active' = Cardinality(Holders') /\ active' \in 0..MaxConcurrent
    BY <1>4, <2>1, <2>2, CallsAssumption DEF PermitOK
  <2>. QED BY <1>6, <2>1, <2>3, <2>4 DEF PermitOK
<1>. QED BY <1>5, <1>6

LEMMA PermitStep ==
  ASSUME CoreOK, LockOK, LockType, PermitOK, [Next]_vars PROVE PermitOK'
<1>. USE DEF Permitted
<1>1. CASE UNCHANGED vars
  BY <1>1, PermitStays DEF vars, permits
<1>2. ASSUME NEW t \in Turns, Advance(t) \/ Abort(t) PROVE PermitOK'
  <2>1. CASE Enter(t)
    <3>1. PICK place \in {"locked", "waitlock"} : pc' = [pc EXCEPT ![t] = place]
      BY <2>1 DEF Enter, Goto
    <3>. QED BY <2>1, <3>1, PermitStays DEF Enter, CoreOK
  <2>2. CASE Exit(t)
    <3> DEFINE g == GroupOf[t]
    <3>1. g \in Groups
      BY <2>2, CallsAssumption DEF Exit, Grouped
    <3>2. CASE lockQueue[g] # <<>>
      <4>1. pc' = [pc EXCEPT ![t] = "done", ![Head(lockQueue[g])] = "locked"]
        BY <2>2, <3>2 DEF Exit, Unlock, HandOver
      <4>2. Head(lockQueue[g]) \in Turns /\ pc[Head(lockQueue[g])] = "waitlock"
        BY <3>1, <3>2, LockHead
      <4>. QED BY <2>2, <4>1, <4>2, PermitStays DEF Exit, CoreOK
    <3>3. CASE lockQueue[g] = <<>>
      BY <2>2, <3>3, PermitStays DEF Exit, Unlock, FreeSlot, Goto, CoreOK
    <3>. QED BY <3>2, <3>3
  <2>3. CASE Begin(t)
    BY <2>3, PermitStays DEF Begin, Goto, CoreOK
  <2>4. CASE GiveUp(t)
    BY <2>4, PermitStays DEF GiveUp, Goto, CoreOK
  <2>5. CASE Attempt(t)
    BY <2>5, AttemptPermit
  <2>6. CASE QueueTimeout(t)
    BY <2>6, WaiterLeaves DEF QueueTimeout, Goto
  <2>7. CASE TurnedAway(t)
    BY <2>7, PermitStays DEF TurnedAway, Goto, CoreOK
  <2>8. CASE Call(t)
    BY <2>8, PermitStays DEF Call, Goto, CoreOK
  <2>9. ASSUME NEW o, Settle(t, o) PROVE PermitOK'
    BY <2>9, PermitStays DEF Settle, Goto, CoreOK
  <2>10. CASE Leave(t)
    BY <2>10, LeavePermit
  <2>11. CASE Abort(t)
    <3>1. CASE pc[t] = "queued"
      BY <2>11, <3>1, WaiterLeaves DEF Abort, AbortWaiter, Goto
    <3>2. CASE pc[t] # "queued"
      BY <2>11, <3>2, PermitStays DEF Abort, permits
    <3>. QED BY <3>1, <3>2
  <2>. QED BY <1>2, <2>1, <2>2, <2>3, <2>4, <2>5, <2>6, <2>7, <2>8, <2>9, <2>10, <2>11 DEF Advance
<1>3. ASSUME NEW m \in Models, NEW i \in 1..Len(circuits[m]), Cool(m, i) PROVE PermitOK'
  BY <1>3, PermitStays DEF Cool
<1>4. ASSUME NEW m \in Models, Edit(m) PROVE PermitOK'
  BY <1>4, PermitStays DEF Edit
<1>5. CASE Rest
  BY <1>5, PermitStays DEF Rest, vars, permits
<1>. QED BY <1>1, <1>2, <1>3, <1>4, <1>5 DEF Next

-----------------------------------------------------------------------------
(* The circuits *)

On(t, m, i) == pc[t] = "calling" /\ ModelOf(t) = m /\ call[t].at = i

(* A call is of its circuit's generation or an older one.  A call of the    *)
(* current generation finds the circuit closed, or it is the one probe of a *)
(* half-open circuit, which knows of it.                                    *)
CallOK(t, c) ==
  /\ call[t].generation <= c.generation
  /\ ~call[t].probe /\ call[t].generation = c.generation => c.state = "closed"
  /\ call[t].probe => /\ c.probing /\ c.state = "half_open"
                      /\ call[t].generation = c.generation

BreakerOK ==
  \A m \in Models : \A i \in 1..Len(circuits[m]) :
    /\ \A t \in Turns : On(t, m, i) => CallOK(t, circuits[m][i])
    /\ \A t, u \in Turns : On(t, m, i) /\ On(u, m, i) /\ call[t].probe /\ call[u].probe => t = u
    /\ circuits[m][i].probing => \E t \in Turns : On(t, m, i) /\ call[t].probe
    /\ circuits[m][i].state = "closed" => circuits[m][i].failures < Trip

Breakers == CircuitType /\ AttemptOK /\ BreakerOK

(* A step that leaves the circuits and the calls under way alone. *)
LEMMA BreakersStay ==
  ASSUME Breakers, circuits' = circuits,
         \A t \in Turns : /\ pc'[t] = "calling" <=> pc[t] = "calling"
                          /\ pc'[t] \in Begun => /\ pc[t] \in Begun
                                                 /\ call'[t] = call[t] /\ cursor'[t] = cursor[t]
  PROVE  Breakers'
<1>1. \A t \in Turns : pc'[t] \in Begun => ModelOf(t)' = ModelOf(t)
  BY DEF ModelOf
<1>2. CircuitType' /\ AttemptOK'
  BY <1>1 DEF Breakers, CircuitType, AttemptOK
<1>3. \A t \in Turns : pc[t] = "calling" => ModelOf(t)' = ModelOf(t) /\ call'[t] = call[t]
  BY <1>1 DEF Begun
<1>4. BreakerOK'
  <2> SUFFICES ASSUME NEW m \in Models, NEW i \in 1..Len(circuits[m])
               PROVE  /\ \A t \in Turns : On(t, m, i)' => CallOK(t, circuits[m][i])'
                      /\ \A t, u \in Turns :
                           On(t, m, i)' /\ On(u, m, i)' /\ call'[t].probe /\ call'[u].probe => t = u
                      /\ circuits[m][i].probing => \E t \in Turns : On(t, m, i)' /\ call'[t].probe
                      /\ circuits[m][i].state = "closed" => circuits[m][i].failures < Trip
    BY DEF BreakerOK
  <2>1. \A t \in Turns : On(t, m, i)' <=> On(t, m, i)
    BY <1>3 DEF On
  <2>2. \A t \in Turns : On(t, m, i) => call'[t] = call[t]
    BY <1>3 DEF On
  <2>. QED BY <2>1, <2>2 DEF Breakers, BreakerOK, CallOK
<1>. QED BY <1>2, <1>4 DEF Breakers

LEMMA NewCircuit ==
  ASSUME CoreOK, Breakers, NEW t \in Turns, Attempt(t) PROVE Breakers'
<1> DEFINE m == Route[t][cursor[t] + 1]
           v == seen[t][m]
           known == CircuitsFor(m, v)
<1>1. pc[t] = "trying" /\ m \in Models /\ v \in 0..1
  BY TriedModel DEF Attempt, Breakers
<1>2. /\ known \in Seq(Circuit) /\ Len(known) \in Nat \ {0} /\ Len(circuits[m]) <= Len(known)
      /\ \A i \in 1..Len(circuits[m]) : known[i] = circuits[m][i]
      /\ \A i \in 1..Len(known) : i > Len(circuits[m]) => known[i] = FreshCircuit(v)
  BY <1>1, KnownType DEF Breakers
<1>3. circuits' = [circuits EXCEPT ![m] = known] /\ cursor' = [cursor EXCEPT ![t] = @ + 1]
  BY DEF Attempt
<1>4. call' = [call EXCEPT ![t] = [NoCall EXCEPT !.at = Len(known)]]
  BY DEF Attempt
<1>5. /\ pc'[t] \in {"granted", "queued"} /\ \A u \in Turns : u # t => pc'[u] = pc[u]
  BY DEF Attempt, Goto, CoreOK
<1>. HIDE DEF known, v
<1>6. CircuitType'
  BY <1>2, <1>3 DEF Breakers, CircuitType
<1>7. \A u \in Turns : u # t => ModelOf(u)' = ModelOf(u) /\ call'[u] = call[u]
  BY <1>3, <1>4 DEF ModelOf, CoreOK
<1>8. ModelOf(t)' = m
  BY <1>3 DEF ModelOf, CoreOK
<1>9. call'[t].at = Len(known)
  BY <1>4 DEF CoreOK, NoCall
<1>. HIDE DEF m
<1>10. \A n \in Models : Len(circuits[n]) \in Nat /\ Len(circuits'[n]) \in Nat
                         /\ Len(circuits[n]) <= Len(circuits'[n])
  BY <1>1, <1>2, <1>3 DEF Breakers, CircuitType
<1>11. AttemptOK'
  <2> SUFFICES ASSUME NEW u \in Turns, pc'[u] \in Begun
               PROVE  call'[u].at \in 1..Len(circuits'[ModelOf(u)'])
    BY DEF AttemptOK
  <2>1. CASE u = t
    BY <2>1, <1>1, <1>2, <1>3, <1>8, <1>9 DEF Breakers, CircuitType
  <2>2. CASE u # t
    <3>1. pc[u] \in Begun /\ call[u].at \in 1..Len(circuits[ModelOf(u)]) /\ ModelOf(u) \in Models
      BY <2>2, <1>5, ModelType DEF Breakers, AttemptOK
    <3>. QED BY <2>2, <3>1, <1>7, <1>10
  <2>. QED BY <2>1, <2>2
<1>12. \A u \in Turns, n \in Models : \A i \in 1..Len(circuits'[n]) :
          On(u, n, i)' => On(u, n, i) /\ i \in 1..Len(circuits[n]) /\ call'[u] = call[u]
  BY <1>1, <1>5, <1>7 DEF On, Breakers, AttemptOK, Begun
<1>13. \A u \in Turns, n \in Models : \A i \in 1..Len(circuits[n]) : On(u, n, i) => On(u, n, i)'
  BY <1>1, <1>5, <1>7 DEF On
<1>14. ASSUME NEW n \in Models, NEW i \in 1..Len(circuits'[n])
       PROVE  circuits'[n][i] = IF i <= Len(circuits[n]) THEN circuits[n][i] ELSE FreshCircuit(v)
  BY <1>1, <1>2, <1>3, <1>10 DEF Breakers, CircuitType
<1>15. BreakerOK'
  <2> SUFFICES ASSUME NEW n \in Models, NEW i \in 1..Len(circuits'[n])
               PROVE  /\ \A u \in Turns : On(u, n, i)' => CallOK(u, circuits[n][i])'
                      /\ \A u, w \in Turns :
                           On(u, n, i)' /\ On(w, n, i)' /\ call'[u].probe /\ call'[w].probe => u = w
                      /\ circuits'[n][i].probing => \E u \in Turns : On(u, n, i)' /\ call'[u].probe
                      /\ circuits'[n][i].state = "closed" => circuits'[n][i].failures < Trip
    BY DEF BreakerOK
  <2>1. CASE i <= Len(circuits[n])
    <3>1. i \in 1..Len(circuits[n]) /\ circuits'[n][i] = circuits[n][i]
      BY <2>1, <1>10, <1>14
    <3>. QED BY <3>1, <1>12, <1>13 DEF Breakers, BreakerOK, CallOK
  <2>2. CASE i > Len(circuits[n])
    <3>1. circuits'[n][i] = FreshCircuit(v)
      BY <2>2, <1>10, <1>14
    <3>2. \A u \in Turns : ~On(u, n, i)'
      BY <2>2, <1>10, <1>12
    <3>. QED BY <3>1, <3>2, CallsAssumption DEF FreshCircuit
  <2>. QED BY <2>1, <2>2, <1>10
<1>. QED BY <1>6, <1>11, <1>15 DEF Breakers

(* A step that changes one circuit, for one call. *)
LEMMA OneCircuit ==
  ASSUME CoreOK, Breakers, NEW m \in Models, NEW i \in 1..Len(circuits[m]), NEW d \in Circuit,
         circuits' = [circuits EXCEPT ![m][i] = d]
  PROVE  /\ CircuitType' /\ \A n \in Models : Len(circuits'[n]) = Len(circuits[n])
         /\ \A n \in Models : \A j \in 1..Len(circuits[n]) :
              circuits'[n][j] = IF n = m /\ j = i THEN d ELSE circuits[n][j]
BY DEF Breakers, CircuitType

LEMMA ChangedCircuit ==
  ASSUME CoreOK, Breakers, NEW m \in Models, NEW i \in 1..Len(circuits[m]), NEW d \in Circuit,
         circuits' = [circuits EXCEPT ![m][i] = d], cursor' = cursor,
         NEW t \in Turns, On(t, m, i) \/ On(t, m, i)', pc[t] \in Begun, pc'[t] \in Begun,
         call'[t].at = call[t].at,
         \A u \in Turns : u # t => pc'[u] = pc[u] /\ call'[u] = call[u],
         \A u \in Turns : On(u, m, i)' => CallOK(u, d)',
         \A u, w \in Turns :
           On(u, m, i)' /\ On(w, m, i)' /\ call'[u].probe /\ call'[w].probe => u = w,
         d.probing => \E u \in Turns : On(u, m, i)' /\ call'[u].probe,
         d.state = "closed" => d.failures < Trip
  PROVE  Breakers'
<1>1. CircuitType' /\ (\A n \in Models : Len(circuits'[n]) = Len(circuits[n]))
      /\ \A n \in Models : \A j \in 1..Len(circuits[n]) :
              circuits'[n][j] = IF n = m /\ j = i THEN d ELSE circuits[n][j]
  BY OneCircuit
<1>2. \A u \in Turns : ModelOf(u)' = ModelOf(u)
  BY DEF ModelOf
<1>3. ModelOf(t) = m /\ call[t].at = i
  BY <1>2 DEF On
<1>4. AttemptOK'
  <2> SUFFICES ASSUME NEW u \in Turns, pc'[u] \in Begun
               PROVE  call'[u].at \in 1..Len(circuits'[ModelOf(u)'])
    BY DEF AttemptOK
  <2>1. pc[u] \in Begun /\ call'[u].at = call[u].at
    OBVIOUS
  <2>2. ModelOf(u) \in Models /\ call[u].at \in 1..Len(circuits[ModelOf(u)])
    BY <2>1, ModelType DEF Breakers, AttemptOK
  <2>. QED BY <2>1, <2>2, <1>1, <1>2
<1>5. BreakerOK'
  <2> SUFFICES ASSUME NEW n \in Models, NEW j \in 1..Len(circuits'[n])
               PROVE  /\ \A u \in Turns : On(u, n, j)' => CallOK(u, circuits[n][j])'
                      /\ \A u, w \in Turns :
                           On(u, n, j)' /\ On(w, n, j)' /\ call'[u].probe /\ call'[w].probe => u = w
                      /\ circuits'[n][j].probing => \E u \in Turns : On(u, n, j)' /\ call'[u].probe
                      /\ circuits'[n][j].state = "closed" => circuits'[n][j].failures < Trip
    BY DEF BreakerOK
  <2>0. j \in 1..Len(circuits[n])
    BY <1>1
  <2>1. CASE n = m /\ j = i
    <3>1. circuits'[n][j] = d
      BY <2>1, <1>1
    <3>. QED BY <2>1, <3>1 DEF CallOK
  <2>2. CASE ~(n = m /\ j = i)
    <3>1. circuits'[n][j] = circuits[n][j]
      BY <2>0, <2>2, <1>1
    <3>2. ~On(t, n, j) /\ ~On(t, n, j)'
      BY <2>2, <1>2, <1>3 DEF On
    <3>3. \A u \in Turns : /\ On(u, n, j)' <=> On(u, n, j)
                           /\ On(u, n, j) => call'[u] = call[u]
      BY <3>2, <1>2 DEF On
    <3>. QED BY <2>0, <3>1, <3>3 DEF Breakers, BreakerOK, CallOK
  <2>. QED BY <2>1, <2>2
<1>. QED BY <1>1, <1>4, <1>5 DEF Breakers

LEMMA CallBreaker ==
  ASSUME CoreOK, Breakers, NEW t \in Turns, Call(t) PROVE Breakers'
<1>1. PICK m \in Models : m = ModelOf(t)
  BY CalledCircuit DEF Call, Begun, Breakers
<1>2. PICK i \in 1..Len(circuits[m]) : i = call[t].at
  BY <1>1, CalledCircuit DEF Call, Begun, Breakers
<1>3. PICK c \in Circuit : c = circuits[m][i]
  BY <1>1, <1>2, CalledCircuit DEF Call, Begun, Breakers, CircuitOf
<1>4. PICK p \in BOOLEAN : p = (c.state # "closed")
  OBVIOUS
<1>5. PICK d : d = [c EXCEPT !.state = IF p THEN "half_open" ELSE "closed",
                             !.cooled = FALSE, !.probing = p]
  OBVIOUS
<1>6. /\ call' = [call EXCEPT ![t] = [at |-> @.at, generation |-> c.generation, probe |-> p]]
      /\ circuits' = [circuits EXCEPT ![m][i] = d] /\ cursor' = cursor
      /\ ~Refuses(c) /\ pc[t] = "granted" /\ pc' = [pc EXCEPT ![t] = "calling"]
  BY <1>1, <1>2, <1>3, <1>4, <1>5 DEF Call, SetCircuit, CircuitOf, Goto
<1>7. /\ d \in Circuit /\ d.state = (IF p THEN "half_open" ELSE "closed") /\ d.probing = p
      /\ d.failures = c.failures /\ d.generation = c.generation
  BY <1>5 DEF Circuit
<1>8. /\ call'[t].at = i /\ call'[t].generation = c.generation /\ call'[t].probe = p
      /\ \A u \in Turns : u # t => call'[u] = call[u] /\ pc'[u] = pc[u]
      /\ pc'[t] = "calling"
  BY <1>2, <1>6 DEF CoreOK
<1>9. \A u \in Turns : ModelOf(u)' = ModelOf(u)
  BY <1>6 DEF ModelOf
<1>10. c.state \in {"closed", "open", "half_open"} /\ c.generation \in Nat
  BY DEF Circuit
<1>11. /\ \A u \in Turns : On(u, m, i) => CallOK(u, c)
       /\ c.probing => \E u \in Turns : On(u, m, i) /\ call[u].probe
       /\ c.state = "closed" => c.failures < Trip
  BY <1>3 DEF Breakers, BreakerOK
<1>12. ~c.probing /\ \A u \in Turns : On(u, m, i) => ~call[u].probe
  BY <1>6, <1>10, <1>11 DEF CallOK, Refuses
<1>13. \A u \in Turns : u # t => (On(u, m, i)' <=> On(u, m, i))
  BY <1>8, <1>9 DEF On
<1>14. On(t, m, i)'
  BY <1>1, <1>8, <1>9 DEF On
<1>15. ASSUME NEW u \in Turns, On(u, m, i)' PROVE CallOK(u, d)'
  <2>1. CASE u = t
    BY <2>1, <1>4, <1>7, <1>8, <1>10 DEF CallOK
  <2>2. CASE u # t
    <3>1. call'[u] = call[u] /\ ~call[u].probe /\ CallOK(u, c)
      BY <2>2, <1>15, <1>8, <1>11, <1>12, <1>13
    <3>. QED BY <3>1, <1>4, <1>7 DEF CallOK
  <2>. QED BY <2>1, <2>2
<1>16. \A u, w \in Turns :
         On(u, m, i)' /\ On(w, m, i)' /\ call'[u].probe /\ call'[w].probe => u = w
  BY <1>8, <1>12, <1>13
<1>17. d.probing => \E u \in Turns : On(u, m, i)' /\ call'[u].probe
  BY <1>7, <1>8, <1>14
<1>18. d.state = "closed" => d.failures < Trip
  BY <1>4, <1>7, <1>11
<1>19. /\ pc[t] \in Begun /\ pc'[t] \in Begun /\ call'[t].at = call[t].at
       /\ \A u \in Turns : u # t => pc'[u] = pc[u] /\ call'[u] = call[u]
  BY <1>2, <1>6, <1>8 DEF Begun
<1>20. d \in Circuit /\ circuits' = [circuits EXCEPT ![m][i] = d] /\ cursor' = cursor
  BY <1>6, <1>7
<1>. QED BY <1>14, <1>15, <1>16, <1>17, <1>18, <1>19, <1>20, ChangedCircuit

LEMMA Updated ==
  ASSUME NEW c \in Circuit
  PROVE  /\ LET d == [c EXCEPT !.failures = 0, !.state = "closed"]
            IN  /\ d \in Circuit /\ d.probing = c.probing /\ d.failures = 0
                /\ d.state = "closed" /\ d.generation = c.generation
         /\ LET d == [Reopened(c) EXCEPT !.failures = @ + 1, !.generation = @ + 1]
            IN  /\ d \in Circuit /\ d.probing = c.probing
                /\ d.state = "open" /\ d.generation = c.generation + 1
<1>1. LET d == [c EXCEPT !.failures = 0, !.state = "closed"]
      IN  /\ d \in Circuit /\ d.probing = c.probing /\ d.failures = 0
          /\ d.state = "closed" /\ d.generation = c.generation
  <2>1. PICK r \in Circuit : r = [c EXCEPT !.failures = 0]
    BY DEF Circuit
  <2>2. r.probing = c.probing /\ r.failures = 0 /\ r.generation = c.generation
    BY <2>1 DEF Circuit
  <2>3. LET d == [r EXCEPT !.state = "closed"]
        IN  /\ d \in Circuit /\ d.probing = r.probing /\ d.failures = r.failures
            /\ d.state = "closed" /\ d.generation = r.generation
    BY DEF Circuit
  <2>. QED BY <2>1, <2>2, <2>3
<1>2. PICK r \in Circuit : r = Reopened(c)
  BY DEF Circuit, Reopened
<1>3. r.probing = c.probing /\ r.state = "open" /\ r.generation = c.generation
  BY <1>2 DEF Circuit, Reopened
<1>4. LET d == [r EXCEPT !.failures = @ + 1, !.generation = @ + 1]
      IN  /\ d \in Circuit /\ d.probing = r.probing
          /\ d.state = r.state /\ d.generation = r.generation + 1
  <2>5. ASSUME NEW n \in Nat
        PROVE  [r EXCEPT !.failures = n] \in Circuit /\ [r EXCEPT !.generation = n] \in Circuit
    BY DEF Circuit
  <2>4. r.failures + 1 \in Nat
    BY DEF Circuit
  <2>1. PICK q \in Circuit : q = [r EXCEPT !.failures = @ + 1]
    BY <2>4, <2>5
  <2>2. q.probing = r.probing /\ q.state = r.state /\ q.generation = r.generation
    BY <2>1 DEF Circuit
  <2>3. LET d == [q EXCEPT !.generation = @ + 1]
        IN  /\ d \in Circuit /\ d.probing = q.probing /\ d.state = q.state
            /\ d.generation = q.generation + 1
    BY DEF Circuit
  <2>. QED BY <2>1, <2>2, <2>3
<1>. QED BY <1>1, <1>2, <1>3, <1>4

(* What the end of a call leaves of its circuit. *)
LEMMA Verdict ==
  ASSUME CoreOK, Breakers, NEW t \in Turns, pc[t] = "calling", NEW o
  PROVE  LET c == CircuitOf(t)
             d == ProbeOver(t, Judged(t, o))
         IN  /\ d \in Circuit /\ d.probing = (c.probing /\ ~call[t].probe)
             /\ d.state = "closed" => d.failures < Trip
             /\ \/ d.generation = c.generation /\ d.state = c.state /\ ~call[t].probe
                \/ /\ call[t].generation = c.generation
                   /\ \/ d.generation = c.generation + 1 /\ d.state = "open"
                      \/ d.generation = c.generation /\ d.state = "closed" /\ o = "ok"
                      \/ d.generation = c.generation /\ call[t].probe /\ d.state = "open"
<1> DEFINE c == CircuitOf(t)
           j == Judged(t, o)
           d == ProbeOver(t, j)
<1>1. /\ c \in Circuit /\ CallOK(t, c) /\ (c.state = "closed" => c.failures < Trip)
      /\ call[t].generation \in Nat /\ call[t].probe \in BOOLEAN
  <2>1. ModelOf(t) \in Models /\ call[t].at \in 1..Len(circuits[ModelOf(t)]) /\ c \in Circuit
    BY CalledCircuit DEF Breakers, Begun
  <2>2. On(t, ModelOf(t), call[t].at)
    BY DEF On
  <2>. QED BY <2>1, <2>2 DEF Breakers, BreakerOK, CircuitOf, CoreOK, Calls
<1>2. /\ j \in Circuit /\ j.probing = c.probing /\ (j.state = "closed" => j.failures < Trip)
      /\ \/ j.generation = c.generation /\ j.state = c.state /\ ~call[t].probe
         \/ /\ call[t].generation = c.generation
            /\ \/ j.generation = c.generation + 1 /\ j.state = "open"
               \/ j.generation = c.generation /\ j.state = "closed" /\ o = "ok"
               \/ j.generation = c.generation /\ call[t].probe /\ j.state = "open"
  <2>1. CASE ~Current(t)
    <3>1. j = c /\ call[t].generation # c.generation
      BY <2>1 DEF Judged, Current
    <3>2. ~call[t].probe
      BY <1>1, <3>1 DEF CallOK
    <3>. QED BY <1>1, <3>1, <3>2
  <2>2. CASE Current(t) /\ o = "ok"
    <3>1. j = [c EXCEPT !.failures = 0, !.state = "closed"]
      BY <2>2 DEF Judged, Counts
    <3>2. /\ j \in Circuit /\ j.probing = c.probing /\ j.failures = 0 /\ j.state = "closed"
          /\ j.generation = c.generation
      BY <1>1, <3>1, Updated
    <3>. QED BY <2>2, <3>2, CallsAssumption DEF Current
  <2>3. CASE Current(t) /\ Counts(t, o) /\ Trips(t, c)
    <3>1. j = [Reopened(c) EXCEPT !.failures = @ + 1, !.generation = @ + 1]
      BY <2>3 DEF Judged, Counts
    <3>2. /\ j \in Circuit /\ j.probing = c.probing /\ j.state = "open"
          /\ j.generation = c.generation + 1
      BY <1>1, <3>1, Updated
    <3>. QED BY <2>3, <3>2 DEF Current
  <2>4. CASE Current(t) /\ Counts(t, o) /\ ~Trips(t, c)
    <3>1. j = [c EXCEPT !.failures = @ + 1]
      BY <2>4 DEF Judged, Counts
    <3>2. /\ j \in Circuit /\ j.probing = c.probing /\ j.failures = c.failures + 1
          /\ j.state = c.state /\ j.generation = c.generation
      BY <1>1, <3>1 DEF Circuit
    <3>3. ~call[t].probe /\ c.failures + 1 < Trip
      BY <1>1, <2>4, CallsAssumption DEF Trips, Circuit
    <3>. QED BY <3>2, <3>3
  <2>5. CASE Current(t) /\ o # "ok" /\ ~Counts(t, o)
    <3>1. j = IF call[t].probe THEN Reopened(c) ELSE c
      BY <2>5 DEF Judged
    <3>2. Reopened(c) \in Circuit /\ Reopened(c).probing = c.probing /\ Reopened(c).state = "open"
          /\ Reopened(c).generation = c.generation
      BY <1>1 DEF Circuit, Reopened
    <3>3. CASE call[t].probe
      BY <2>5, <3>1, <3>2, <3>3 DEF Current
    <3>4. CASE ~call[t].probe
      BY <3>1, <3>4, <1>1
    <3>. QED BY <3>3, <3>4
  <2>. QED BY <2>1, <2>2, <2>3, <2>4, <2>5
<1>. HIDE DEF j, c
<1>3. /\ d \in Circuit /\ d.probing = (j.probing /\ ~call[t].probe) /\ d.state = j.state
      /\ d.failures = j.failures /\ d.generation = j.generation
  BY <1>2 DEF ProbeOver, Circuit
<1>. QED BY <1>2, <1>3 DEF j, c

LEMMA SettleBreaker ==
  ASSUME CoreOK, Breakers, NEW t \in Turns, NEW o, Settle(t, o) PROVE Breakers'
<1>0. pc[t] = "calling"
  BY DEF Settle
<1>1. PICK m \in Models : m = ModelOf(t)
  BY <1>0, CalledCircuit DEF Begun, Breakers
<1>2. PICK i \in 1..Len(circuits[m]) : i = call[t].at
  BY <1>0, <1>1, CalledCircuit DEF Begun, Breakers
<1>3. PICK c \in Circuit : c = circuits[m][i] /\ c = CircuitOf(t)
  BY <1>0, <1>1, <1>2, CalledCircuit DEF Begun, Breakers, CircuitOf
<1>4. PICK d : d = ProbeOver(t, Judged(t, o))
  OBVIOUS
<1>5. /\ circuits' = [circuits EXCEPT ![m][i] = d] /\ cursor' = cursor /\ call' = call
      /\ pc' = [pc EXCEPT ![t] = "leaving"]
  BY <1>1, <1>2, <1>4 DEF Settle, SetCircuit, Goto
<1>6. /\ d \in Circuit /\ d.probing = (c.probing /\ ~call[t].probe)
      /\ d.state = "closed" => d.failures < Trip
      /\ \/ d.generation = c.generation /\ d.state = c.state /\ ~call[t].probe
         \/ /\ call[t].generation = c.generation
            /\ \/ d.generation = c.generation + 1 /\ d.state = "open"
               \/ d.generation = c.generation /\ d.state = "closed" /\ o = "ok"
               \/ d.generation = c.generation /\ call[t].probe /\ d.state = "open"
  BY <1>0, <1>3, <1>4, Verdict
<1>7. /\ \A u \in Turns : u # t => pc'[u] = pc[u]
      /\ pc'[t] = "leaving"
  BY <1>5 DEF CoreOK
<1>8. \A u \in Turns : ModelOf(u)' = ModelOf(u)
  BY <1>5 DEF ModelOf
<1>9. c.state \in {"closed", "open", "half_open"} /\ c.generation \in Nat
      /\ \A u \in Turns : call[u].generation \in Nat /\ call[u].probe \in BOOLEAN
  BY DEF Circuit, CoreOK, Calls
<1>10. /\ \A u \in Turns : On(u, m, i) => CallOK(u, c)
       /\ \A u, w \in Turns : On(u, m, i) /\ On(w, m, i) /\ call[u].probe /\ call[w].probe => u = w
       /\ c.probing => \E u \in Turns : On(u, m, i) /\ call[u].probe
  <2>1. ASSUME NEW u \in Turns, On(u, m, i) PROVE CallOK(u, c)
    <3>1. CallOK(u, circuits[m][i])
      BY <2>1 DEF Breakers, BreakerOK
    <3>. QED BY <3>1, <1>3
  <2>2. ASSUME NEW u \in Turns, NEW w \in Turns, On(u, m, i), On(w, m, i), call[u].probe, call[w].probe
        PROVE  u = w
    BY <2>2 DEF Breakers, BreakerOK
  <2>3. c.probing => \E u \in Turns : On(u, m, i) /\ call[u].probe
    <3>1. circuits[m][i].probing => \E u \in Turns : On(u, m, i) /\ call[u].probe
      BY DEF Breakers, BreakerOK
    <3>. QED BY <3>1, <1>3
  <2>. QED BY <2>1, <2>2, <2>3
<1>11. On(t, m, i) /\ CallOK(t, c)
  BY <1>0, <1>1, <1>2, <1>10 DEF On
<1>12. \A u \in Turns : On(u, m, i)' <=> On(u, m, i) /\ u # t
  BY <1>5, <1>7, <1>8 DEF On
<1>13. ASSUME NEW u \in Turns, On(u, m, i)' PROVE CallOK(u, d)'
  <2>1. u # t /\ On(u, m, i) /\ CallOK(u, c) /\ call'[u] = call[u]
    BY <1>13, <1>12, <1>10, <1>5
  <2>2. CASE call[u].probe
    <3>1. ~call[t].probe /\ c.probing /\ c.state = "half_open"
          /\ call[u].generation = c.generation
      BY <2>1, <2>2, <1>10, <1>11 DEF CallOK
    <3>2. call[t].generation # c.generation
      BY <3>1, <1>11 DEF CallOK
    <3>3. d.generation = c.generation /\ d.state = c.state /\ d.probing
      BY <3>1, <3>2, <1>6
    <3>. QED BY <2>1, <2>2, <3>1, <3>3, <1>9 DEF CallOK
  <2>3. CASE ~call[u].probe
    <3>1. call[u].generation <= c.generation
          /\ (call[u].generation = c.generation => c.state = "closed")
      BY <2>1, <2>3 DEF CallOK
    <3>2. CASE d.generation = c.generation /\ d.state = c.state
      BY <2>1, <2>3, <3>1, <3>2 DEF CallOK
    <3>3. CASE d.generation = c.generation + 1
      BY <2>1, <2>3, <3>1, <3>3, <1>9 DEF CallOK
    <3>4. CASE d.generation = c.generation /\ d.state = "closed"
      BY <2>1, <2>3, <3>1, <3>4 DEF CallOK
    <3>5. CASE d.generation = c.generation /\ call[t].probe
      <4>1. c.state = "half_open"
        BY <3>5, <1>11 DEF CallOK
      <4>. QED BY <2>1, <2>3, <3>1, <3>5, <4>1 DEF CallOK
    <3>. QED BY <3>2, <3>3, <3>4, <3>5, <1>6
  <2>. QED BY <2>2, <2>3, <1>9
<1>14. \A u, w \in Turns :
         On(u, m, i)' /\ On(w, m, i)' /\ call'[u].probe /\ call'[w].probe => u = w
  BY <1>5, <1>10, <1>12
<1>15. d.probing => \E u \in Turns : On(u, m, i)' /\ call'[u].probe
  BY <1>5, <1>6, <1>10, <1>12
<1>16. /\ pc[t] \in Begun /\ pc'[t] \in Begun /\ call'[t].at = call[t].at
       /\ \A u \in Turns : u # t => pc'[u] = pc[u] /\ call'[u] = call[u]
  BY <1>0, <1>5, <1>7 DEF Begun
<1>. QED BY <1>5, <1>6, <1>11, <1>13, <1>14, <1>15, <1>16, ChangedCircuit

LEMMA CoolBreaker ==
  ASSUME CoreOK, Breakers, NEW m \in Models, NEW i \in 1..Len(circuits[m]), Cool(m, i)
  PROVE  Breakers'
<1>1. PICK c \in Circuit : c = circuits[m][i]
  BY DEF Breakers, CircuitType
<1>2. PICK d \in Circuit : d = [c EXCEPT !.cooled = TRUE]
  BY DEF Circuit
<1>3. circuits' = [circuits EXCEPT ![m][i] = d] /\ UNCHANGED <<pc, cursor, call>>
  BY <1>1, <1>2 DEF Cool, session
<1>4. /\ d.state = c.state /\ d.failures = c.failures /\ d.probing = c.probing
      /\ d.generation = c.generation
  BY <1>2 DEF Circuit
<1>5. /\ CircuitType' /\ (\A n \in Models : Len(circuits'[n]) = Len(circuits[n]))
      /\ \A n \in Models : \A j \in 1..Len(circuits[n]) :
           circuits'[n][j] = IF n = m /\ j = i THEN d ELSE circuits[n][j]
  BY <1>3, OneCircuit
<1>6. \A u \in Turns : ModelOf(u)' = ModelOf(u)
  BY <1>3 DEF ModelOf
<1>7. AttemptOK'
  <2> SUFFICES ASSUME NEW u \in Turns, pc[u] \in Begun
               PROVE  call[u].at \in 1..Len(circuits'[ModelOf(u)'])
    BY <1>3 DEF AttemptOK
  <2>. QED BY <1>5, <1>6, ModelType DEF Breakers, AttemptOK
<1>8. BreakerOK'
  <2> SUFFICES ASSUME NEW n \in Models, NEW j \in 1..Len(circuits'[n])
               PROVE  /\ \A u \in Turns : On(u, n, j)' => CallOK(u, circuits[n][j])'
                      /\ \A u, w \in Turns :
                           On(u, n, j)' /\ On(w, n, j)' /\ call'[u].probe /\ call'[w].probe => u = w
                      /\ circuits'[n][j].probing => \E u \in Turns : On(u, n, j)' /\ call'[u].probe
                      /\ circuits'[n][j].state = "closed" => circuits'[n][j].failures < Trip
    BY DEF BreakerOK
  <2>1. j \in 1..Len(circuits[n])
    BY <1>5
  <2>2. LET e == circuits'[n][j]
        IN  /\ e.state = circuits[n][j].state /\ e.failures = circuits[n][j].failures
            /\ e.probing = circuits[n][j].probing /\ e.generation = circuits[n][j].generation
    BY <2>1, <1>1, <1>4, <1>5
  <2>3. \A u \in Turns : On(u, n, j)' <=> On(u, n, j)
    BY <1>3, <1>6 DEF On
  <2>. QED BY <2>1, <2>2, <2>3, <1>3 DEF Breakers, BreakerOK, CallOK
<1>. QED BY <1>5, <1>7, <1>8 DEF Breakers

LEMMA BreakerStep ==
  ASSUME CoreOK, LockOK, LockType, PermitOK, Breakers, [Next]_vars PROVE Breakers'
<1>. USE DEF Begun
<1>1. CASE UNCHANGED vars
  BY <1>1, BreakersStay DEF vars
<1>2. ASSUME NEW t \in Turns, Advance(t) \/ Abort(t) PROVE Breakers'
  <2>1. CASE Enter(t)
    <3>1. PICK place \in {"locked", "waitlock"} : pc' = [pc EXCEPT ![t] = place]
      BY <2>1 DEF Enter, Goto
    <3>. QED BY <2>1, <3>1, BreakersStay DEF Enter, session, CoreOK
  <2>2. CASE Exit(t)
    <3> DEFINE g == GroupOf[t]
    <3>1. g \in Groups
      BY <2>2, CallsAssumption DEF Exit, Grouped
    <3>2. CASE lockQueue[g] # <<>>
      <4>1. pc' = [pc EXCEPT ![t] = "done", ![Head(lockQueue[g])] = "locked"]
        BY <2>2, <3>2 DEF Exit, Unlock, HandOver
      <4>2. Head(lockQueue[g]) \in Turns /\ pc[Head(lockQueue[g])] = "waitlock"
        BY <3>1, <3>2, LockHead
      <4>. QED BY <2>2, <4>1, <4>2, BreakersStay DEF Exit, session, CoreOK
    <3>3. CASE lockQueue[g] = <<>>
      BY <2>2, <3>3, BreakersStay DEF Exit, Unlock, FreeSlot, Goto, session, CoreOK
    <3>. QED BY <3>2, <3>3
  <2>3. CASE Begin(t)
    <3>1. PICK place \in {"over", "trying"} : pc' = [pc EXCEPT ![t] = place]
      BY <2>3 DEF Begin, Goto
    <3>. QED BY <2>3, <3>1, BreakersStay DEF Begin, CoreOK
  <2>4. CASE GiveUp(t)
    BY <2>4, BreakersStay DEF GiveUp, Goto, session, CoreOK
  <2>5. CASE Attempt(t)
    BY <2>5, NewCircuit
  <2>6. CASE QueueTimeout(t)
    BY <2>6, BreakersStay DEF QueueTimeout, Goto, CoreOK
  <2>7. CASE TurnedAway(t)
    BY <2>7, BreakersStay DEF TurnedAway, Goto, CoreOK
  <2>8. CASE Call(t)
    BY <2>8, CallBreaker
  <2>9. ASSUME NEW o, Settle(t, o) PROVE Breakers'
    BY <2>9, SettleBreaker
  <2>10. CASE Leave(t)
    <3>1. PICK place \in Onward(t) :
            pc' = [u \in Turns |-> IF u = t THEN place
                                   ELSE IF waiters # <<>> /\ u = Head(waiters) THEN "granted"
                                   ELSE pc[u]]
      BY <2>10 DEF Leave
    <3>2. place \in {"over", "trying"}
      BY <3>1 DEF Onward
    <3>3. waiters # <<>> => pc[Head(waiters)] = "queued"
      BY PermitHead
    <3>4. call' = [call EXCEPT ![t] = NoCall] /\ cursor' = cursor /\ circuits' = circuits
          /\ pc[t] = "leaving"
      BY <2>10 DEF Leave
    <3>. QED BY <3>1, <3>2, <3>3, <3>4, BreakersStay DEF CoreOK
  <2>11. CASE Abort(t)
    BY <2>11, BreakersStay DEF Abort, AbortWaiter, Goto, CoreOK
  <2>. QED BY <1>2, <2>1, <2>2, <2>3, <2>4, <2>5, <2>6, <2>7, <2>8, <2>9, <2>10, <2>11 DEF Advance
<1>3. ASSUME NEW m \in Models, NEW i \in 1..Len(circuits[m]), Cool(m, i) PROVE Breakers'
  BY <1>3, CoolBreaker
<1>4. ASSUME NEW m \in Models, Edit(m) PROVE Breakers'
  BY <1>4, BreakersStay DEF Edit, session
<1>5. CASE Rest
  BY <1>5, BreakersStay DEF Rest, vars
<1>. QED BY <1>1, <1>2, <1>3, <1>4, <1>5 DEF Next

-----------------------------------------------------------------------------
(* The invariant, and what follows from it *)

IInv == CoreOK /\ LockOK /\ LockType /\ PermitOK /\ Breakers

LEMMA IInvInit == Init => IInv
<1> SUFFICES ASSUME Init PROVE IInv
  OBVIOUS
<1>1. LockType
  BY DEF Init, LockType
<1>2. LockOK
  <2>1. ASSUME NEW g \in Groups PROVE HoldersOf(g) = {} \/ \E t \in Turns : GroupOf[t] = g /\ ~Grouped(t)
    BY DEF Init, HoldersOf, Inside
  <2>2. ASSUME NEW g \in Groups PROVE HoldersOf(g) = {}
    BY <2>1, CallsAssumption DEF Grouped
  <2>3. ASSUME NEW g \in Groups PROVE held[g] = Cardinality(HoldersOf(g)) /\ held[g] <= PerGroup
    <3>1. held[g] = 0 /\ Cardinality(HoldersOf(g)) = 0
      BY <2>2, FS_EmptySet DEF Init
    <3>. QED BY <3>1, CallsAssumption
  <2>4. ASSUME NEW g \in Groups
        PROVE  /\ lockQueue[g] = <<>> /\ Distinct(lockQueue[g])
               /\ \A t \in Turns : ~Listed(lockQueue[g], t) /\ pc[t] # "waitlock"
    BY DEF Init, Distinct, Listed
  <2>. QED BY <2>3, <2>4 DEF LockOK
<1>3. PermitOK
  <2>1. Holders = {}
    BY DEF Init, Holders, Permitted
  <2>2. active = Cardinality(Holders) /\ active \in 0..MaxConcurrent
    BY <2>1, FS_EmptySet, CallsAssumption DEF Init
  <2>. QED BY <2>2 DEF Init, PermitOK, Distinct, Listed
<1>4. Breakers
  <2>1. CircuitType /\ \A m \in Models : Len(circuits[m]) = 0
    BY DEF Init, CircuitType
  <2>2. AttemptOK
    BY DEF Init, AttemptOK, Begun
  <2>. QED BY <2>1, <2>2 DEF Breakers, BreakerOK
<1>. QED BY <1>1, <1>2, <1>3, <1>4, CoreInit DEF IInv

LEMMA Always == Spec => []IInv
<1>1. IInv /\ [Next]_vars => IInv'
  BY CoreStep, LockStep, PermitStep, BreakerStep DEF IInv, Breakers
<1>. QED BY <1>1, IInvInit, PTL DEF Spec

(* Every variable keeps its type; no counter of slots or permits passes its  *)
(* limit.                                                                    *)
THEOREM TypeCorrect == Spec => []TypeOK
<1>1. IInv => TypeOK
  <2> SUFFICES ASSUME IInv PROVE TypeOK
    OBVIOUS
  <2>1. held \in [Groups -> 0..PerGroup]
    BY CallsAssumption DEF IInv, LockOK, LockType
  <2>. QED BY <2>1 DEF IInv, TypeOK, CoreOK, LockType, PermitOK, Breakers, CircuitType, Calls
<1>. QED BY <1>1, Always, PTL

(* Slots of a group's lock are neither lost nor handed out twice, for any   *)
(* number of conversations and slots.                                       *)
THEOREM LockSafe == Spec => []LockConserved
<1>1. IInv => LockConserved
  <2> SUFFICES ASSUME IInv, NEW g \in Groups
               PROVE  /\ held[g] = Cardinality(HoldersOf(g))
                      /\ lockQueue[g] # <<>> => held[g] = PerGroup
                      /\ \A t \in Turns : GroupOf[t] = g =>
                           (pc[t] = "waitlock" <=>
                            \E i \in 1..Len(lockQueue[g]) : lockQueue[g][i] = t)
    BY DEF LockConserved
  <2>. QED BY DEF IInv, LockOK, Listed
<1>. QED BY <1>1, Always, PTL

(* No permit is lost, whatever timers and aborts meet the moment it is      *)
(* passed on, for any number of turns and permits.                          *)
THEOREM PermitsSafe == Spec => []PermitsConserved
<1>1. IInv => PermitsConserved
  BY DEF IInv, PermitOK, PermitsConserved, Holders, Listed
<1>. QED BY <1>1, Always, PTL

(* A half-open circuit has one probe, and knows of it until it has ended.   *)
THEOREM ProbeSafe == Spec => []OneProbe
<1>1. IInv => OneProbe
  <2> SUFFICES ASSUME IInv, NEW m \in Models, NEW i \in 1..Len(circuits[m])
               PROVE  Cardinality(ProbesOf(m, i)) = IF circuits[m][i].probing THEN 1 ELSE 0
    BY DEF OneProbe
  <2>1. \A t \in ProbesOf(m, i) : t \in Turns /\ On(t, m, i) /\ call[t].probe
    BY DEF ProbesOf, On
  <2>2. \A t \in Turns : On(t, m, i) /\ call[t].probe => t \in ProbesOf(m, i)
    BY DEF ProbesOf, On
  <2>3. CASE circuits[m][i].probing
    <3>1. PICK t \in Turns : On(t, m, i) /\ call[t].probe
      BY <2>3 DEF IInv, Breakers, BreakerOK
    <3>2. \A u \in ProbesOf(m, i) : u = t
      BY <2>1, <3>1 DEF IInv, Breakers, BreakerOK
    <3>3. ProbesOf(m, i) = {t}
      BY <2>2, <3>1, <3>2
    <3>. QED BY <2>3, <3>3, FS_Singleton
  <2>4. CASE ~circuits[m][i].probing
    <3>1. ProbesOf(m, i) = {}
      BY <2>1, <2>4 DEF IInv, Breakers, BreakerOK, CallOK
    <3>. QED BY <2>4, <3>1, FS_EmptySet
  <2>. QED BY <2>3, <2>4
<1>. QED BY <1>1, Always, PTL

(* A closed circuit has fewer failures than trip it.                        *)
THEOREM TripSafe == Spec => []ClosedBelowTrip
<1>1. IInv => ClosedBelowTrip
  BY DEF IInv, Breakers, BreakerOK, ClosedBelowTrip
<1>. QED BY <1>1, Always, PTL

(* A circuit that has opened is closed by a probe that succeeded.           *)
Closes(m, i) == circuits[m][i].state # "closed" /\ circuits'[m][i].state = "closed"

LEMMA SettleCloses ==
  ASSUME IInv, NEW t \in Turns, NEW o, Settle(t, o),
         NEW m \in Models, NEW i \in 1..Len(circuits[m]), Closes(m, i)
  PROVE  \E u \in ProbesOf(m, i) : outcome'[u] = "ok"
<1>1. pc[t] = "calling" /\ outcome' = [outcome EXCEPT ![t] = o]
  BY DEF Settle
<1>2. PICK n \in Models : n = ModelOf(t)
  BY <1>1, CalledCircuit DEF IInv, Begun, Breakers
<1>3. PICK j \in 1..Len(circuits[n]) : j = call[t].at
  BY <1>1, <1>2, CalledCircuit DEF IInv, Begun, Breakers
<1>4. PICK d : d = ProbeOver(t, Judged(t, o))
  OBVIOUS
<1>5. PICK c : c = circuits[n][j]
  OBVIOUS
<1>6. c = CircuitOf(t) /\ circuits' = [circuits EXCEPT ![n][j] = d]
  BY <1>2, <1>3, <1>4, <1>5 DEF CircuitOf, Settle, SetCircuit
<1>7. /\ d \in Circuit
      /\ \/ d.generation = c.generation /\ d.state = c.state /\ ~call[t].probe
         \/ /\ call[t].generation = c.generation
            /\ \/ d.generation = c.generation + 1 /\ d.state = "open"
               \/ d.generation = c.generation /\ d.state = "closed" /\ o = "ok"
               \/ d.generation = c.generation /\ call[t].probe /\ d.state = "open"
  BY <1>1, <1>4, <1>6, Verdict DEF IInv
<1>8. circuits'[m][i] = IF m = n /\ i = j THEN d ELSE circuits[m][i]
  BY <1>6, <1>7, OneCircuit DEF IInv
<1>9. m = n /\ i = j /\ c.state # "closed" /\ d.state = "closed"
  BY <1>5, <1>8 DEF Closes
<1>10. call[t].generation = c.generation /\ o = "ok"
  BY <1>7, <1>9
<1>11. On(t, n, j)
  BY <1>1, <1>2, <1>3 DEF On
<1>12. CallOK(t, c)
  BY <1>5, <1>11 DEF IInv, Breakers, BreakerOK
<1>13. call[t].probe
  BY <1>9, <1>10, <1>12 DEF CallOK
<1>14. t \in ProbesOf(m, i)
  BY <1>9, <1>11, <1>13 DEF ProbesOf, On
<1>15. outcome'[t] = "ok"
  BY <1>1, <1>10 DEF IInv, CoreOK
<1>. QED BY <1>14, <1>15

LEMMA NothingCloses ==
  ASSUME IInv, NEW m \in Models, NEW i \in 1..Len(circuits[m]), [Next]_vars, Closes(m, i)
  PROVE  \E t \in Turns, o \in {"ok", "transient", "rejected", "cancelled"} : Settle(t, o)
<1>1. circuits'[m][i] # circuits[m][i]
  BY DEF Closes
<1>2. ASSUME NEW t \in Turns, Attempt(t) PROVE FALSE
  <2>1. PICK n \in Models : n = Route[t][cursor[t] + 1]
    BY <1>2, TriedModel DEF Attempt, IInv, Breakers
  <2>2. PICK v \in 0..1 : v = seen[t][n]
    BY <1>2, <2>1, TriedModel DEF Attempt, IInv, Breakers
  <2>3. circuits' = [circuits EXCEPT ![n] = CircuitsFor(n, v)]
    BY <1>2, <2>1, <2>2 DEF Attempt
  <2>4. \A k \in 1..Len(circuits[n]) : CircuitsFor(n, v)[k] = circuits[n][k]
    BY KnownType DEF IInv, Breakers
  <2>. QED BY <1>1, <2>3, <2>4 DEF IInv, Breakers, CircuitType
<1>3. ASSUME NEW t \in Turns, Call(t) PROVE FALSE
  <2>1. PICK n \in Models : n = ModelOf(t)
    BY <1>3, CalledCircuit DEF Call, Begun, IInv, Breakers
  <2>2. PICK j \in 1..Len(circuits[n]) : j = call[t].at
    BY <1>3, <2>1, CalledCircuit DEF Call, Begun, IInv, Breakers
  <2>3. PICK c \in Circuit : c = circuits[n][j]
    BY DEF IInv, Breakers, CircuitType
  <2>4. PICK p \in BOOLEAN : p = (c.state # "closed")
    OBVIOUS
  <2>5. PICK d : d = [c EXCEPT !.state = IF p THEN "half_open" ELSE "closed",
                               !.cooled = FALSE, !.probing = p]
    OBVIOUS
  <2>6. d \in Circuit /\ d.state = (IF p THEN "half_open" ELSE "closed")
    BY <2>5 DEF Circuit
  <2>7. circuits' = [circuits EXCEPT ![n][j] = d]
    BY <1>3, <2>1, <2>2, <2>3, <2>4, <2>5 DEF Call, SetCircuit, CircuitOf
  <2>8. circuits'[m][i] = IF m = n /\ i = j THEN d ELSE circuits[m][i]
    <3>1. CoreOK /\ Breakers /\ circuits' = [circuits EXCEPT ![n][j] = d]
      BY <2>6, <2>7 DEF IInv
    <3>2. \A x \in Models : \A y \in 1..Len(circuits[x]) :
            circuits'[x][y] = IF x = n /\ y = j THEN d ELSE circuits[x][y]
      BY <3>1, <2>6 DEF Breakers, CircuitType
    <3>. QED BY <3>2
  <2>. QED BY <1>1, <2>3, <2>4, <2>6, <2>8 DEF Closes
<1>4. ASSUME NEW n \in Models, NEW j \in 1..Len(circuits[n]), Cool(n, j) PROVE FALSE
  <2>1. PICK c \in Circuit : c = circuits[n][j]
    BY DEF IInv, Breakers, CircuitType
  <2>2. PICK d \in Circuit : d = [c EXCEPT !.cooled = TRUE]
    BY DEF Circuit
  <2>3. d.state = c.state /\ circuits' = [circuits EXCEPT ![n][j] = d]
    BY <1>4, <2>1, <2>2 DEF Cool, Circuit
  <2>4. circuits'[m][i] = IF m = n /\ i = j THEN d ELSE circuits[m][i]
    <3>1. CoreOK /\ Breakers /\ circuits' = [circuits EXCEPT ![n][j] = d]
      BY <2>3 DEF IInv
    <3>2. \A x \in Models : \A y \in 1..Len(circuits[x]) :
            circuits'[x][y] = IF x = n /\ y = j THEN d ELSE circuits[x][y]
      BY <3>1, <2>3 DEF Breakers, CircuitType
    <3>. QED BY <3>2
  <2>. QED BY <2>1, <2>3, <2>4 DEF Closes
<1>5. ASSUME NEW t \in Turns, Advance(t) \/ Abort(t)
      PROVE  circuits' = circuits \/ Attempt(t) \/ Call(t)
             \/ \E o \in {"ok", "transient", "rejected", "cancelled"} : Settle(t, o)
  BY <1>5 DEF Advance, Enter, Exit, Begin, GiveUp, QueueTimeout, TurnedAway, Leave, Abort
<1>6. ASSUME NEW n \in Models, Edit(n) PROVE circuits' = circuits
  BY <1>6 DEF Edit
<1>7. ASSUME Rest \/ UNCHANGED vars PROVE circuits' = circuits
  BY <1>7 DEF Rest, vars
<1>. QED BY <1>1, <1>2, <1>3, <1>4, <1>5, <1>6, <1>7 DEF Next

(* A circuit that has opened is closed by a probe that succeeded, never by  *)
(* one of the calls that were under way when it opened, however many.       *)
THEOREM ProbeCloses == Spec => ClosesByProbe
<1>1. IInv /\ [Next]_vars =>
        [\A m \in Models : \A i \in 1..Len(circuits[m]) :
           circuits[m][i].state # "closed" /\ circuits'[m][i].state = "closed" =>
             \E t \in ProbesOf(m, i) : outcome'[t] = "ok"]_vars
  BY NothingCloses, SettleCloses DEF Closes
<1>. QED BY <1>1, Always, PTL DEF Spec, ClosesByProbe
=============================================================================
