---------------------------- MODULE Outbox_proofs ----------------------------
(***************************************************************************)
(* Proofs about Outbox for every number of rows, emitter runs, attempts    *)
(* and every choice of durations.  IndInv is the inductive invariant; the  *)
(* named properties of Outbox follow from it.                              *)
(***************************************************************************)
EXTENDS Outbox, TLAPS

(* What a row says about its past: until it is claimed nobody has seen it
   and no attempt was counted; while it may be claimed again, an attempt is
   left; a draft is still a draft or was deleted.  *)
RowInv(i) ==
  /\ status[i] \in {"unused", "deleted", "preparing", "pending"}
       => copies[i] = 0 /\ attempts[i] = 0
  /\ status[i] = "failed" /\ retry[i] => attempts[i] < MaxAttempts
  /\ context[i] = "routed" => status[i] \in {"preparing", "deleted"}
  /\ copies[i] <= attempts[i]
  /\ attempts[i] <= MaxAttempts

(* A careful row that the group has seen is not up for another claim, and
   has been seen once.  *)
SeenInv(i) ==
  kind[i] \in CarefulKinds /\ copies[i] # 0
    => /\ copies[i] = 1
       /\ status[i] = "sent" \/ Closed(i)

(* An action that has landed has shown its row, and a run without rows has no
   action.  *)
LandedSeen(r, i) == landed[r] => /\ batch[r] # {}
                                 /\ Current(r, i) => copies[i] # 0

(* What a run knows of the rows it holds: each has an attempt that showed
   nothing yet, except the current one when its action has landed.  *)
HeldInv(r, i) ==
  i \in batch[r] =>
    \/ copies[i] < attempts[i]
         /\ (kind[i] \in CarefulKinds => copies[i] = 0)
    \/ Current(r, i) /\ await[r] # "none" /\ landed[r]

IndInv == /\ TypeOK
          /\ HeldRowsClosed
          /\ \A i \in Rows : RowInv(i) /\ SeenInv(i)
          /\ \A r \in Runs : \A i \in Rows : HeldInv(r, i) /\ LandedSeen(r, i)

-----------------------------------------------------------------------------
LEMMA InitIndInv == Init => IndInv
  BY OutboxAssumption DEF Init, IndInv, TypeOK, Statuses, AllKinds, CarefulKinds,
     HeldRowsClosed, RowInv, SeenInv, HeldInv, LandedSeen, Closed

LEMMA EnqueueInv ==
  ASSUME IndInv, NEW i \in Rows, NEW k \in Kinds, NEW routed \in BOOLEAN,
         Enqueue(i, k, routed)
  PROVE  IndInv'
  BY OutboxAssumption DEF Enqueue, IndInv, TypeOK, Statuses, AllKinds, CarefulKinds,
     HeldRowsClosed, RowInv, SeenInv, HeldInv, LandedSeen, Closed, Current

LEMMA PublishInv ==
  ASSUME IndInv, NEW S \in SUBSET Rows, Publish(S)
  PROVE  IndInv'
  BY OutboxAssumption DEF Publish, IndInv, TypeOK, Statuses, AllKinds, CarefulKinds,
     HeldRowsClosed, RowInv, SeenInv, HeldInv, LandedSeen, Closed, Current

LEMMA DiscardInv ==
  ASSUME IndInv, NEW S \in SUBSET Rows, Discard(S)
  PROVE  IndInv'
  BY OutboxAssumption DEF Discard, IndInv, TypeOK, Statuses, AllKinds, CarefulKinds,
     HeldRowsClosed, RowInv, SeenInv, HeldInv, LandedSeen, Closed, Current

LEMMA CancelInv ==
  ASSUME IndInv, NEW S \in SUBSET Rows, Cancel(S)
  PROVE  IndInv'
  BY OutboxAssumption DEF Cancel, IndInv, TypeOK, Statuses, AllKinds, CarefulKinds,
     HeldRowsClosed, RowInv, SeenInv, HeldInv, LandedSeen, Closed, Current

-----------------------------------------------------------------------------
(* Emitter *)

LEMMA MaintainInv ==
  ASSUME IndInv, Maintain
  PROVE  IndInv'
  BY OutboxAssumption DEF Maintain, Stale, IndInv, TypeOK, Statuses, AllKinds, CarefulKinds,
     HeldRowsClosed, RowInv, SeenInv, HeldInv, LandedSeen, Closed, Current

LEMMA CandidatesClaimable == Candidates \subseteq Claimable
  BY DEF Candidates

LEMMA ClaimInv ==
  ASSUME IndInv, NEW r \in Runs, Claim(r)
  PROVE  IndInv'
<1>. USE OutboxAssumption, CandidatesClaimable DEF IndInv, TypeOK
<1>1. TypeOK'
  <2>1. Candidates \in SUBSET Rows
    BY DEF Claimable
  <2>2. status' \in [Rows -> Statuses] /\ batch' \in [Runs -> SUBSET Rows]
    BY <2>1 DEF Claim, Statuses
  <2>3. attempts' \in [Rows -> Nat] /\ timer' \in [Rows -> Nat]
    BY DEF Claim
  <2>4. retry' \in [Rows -> BOOLEAN]
    BY DEF Claim
  <2>. QED BY <2>2, <2>3, <2>4 DEF Claim
<1>2. HeldRowsClosed'
  <2>1. \A s \in Runs : \A i \in batch'[s] : Closed(i)'
    BY DEF Claim, HeldRowsClosed, Closed, Claimable, Stale
  <2>2. \A s \in Runs : batch[s] \cap Candidates = {}
    BY DEF HeldRowsClosed, Closed, Claimable
  <2>3. \A s, t \in Runs : s # t => batch'[s] \cap batch'[t] = {}
    BY <2>2 DEF Claim, HeldRowsClosed
  <2>. QED BY <2>1, <2>3 DEF HeldRowsClosed
<1>3. ASSUME NEW i \in Rows PROVE RowInv(i)' /\ SeenInv(i)'
  BY DEF Claim, RowInv, SeenInv, Closed, Claimable, Stale, Statuses, CarefulKinds
<1>4. ASSUME NEW s \in Runs, NEW i \in Rows PROVE HeldInv(s, i)' /\ LandedSeen(s, i)'
  <2>1. CASE s = r
    BY <2>1 DEF Claim, HeldInv, LandedSeen, RowInv, SeenInv, Closed, Claimable, CarefulKinds
  <2>2. CASE s # r
    <3>1. i \in batch[s] => i \notin Candidates
      BY DEF HeldRowsClosed, Closed, Claimable
    <3>. QED BY <2>2, <3>1 DEF Claim, HeldInv, LandedSeen, Current
  <2>. QED BY <2>1, <2>2
<1>. QED BY <1>1, <1>2, <1>3, <1>4

(* The rows a run holds behind the current one have shown nothing yet. *)
LEMMA NotCurrentHeld ==
  ASSUME NEW r \in Runs, NEW i \in Rows, NEW j \in Rows, Current(r, i),
         HeldInv(r, j), j \in batch[r], j # i
  PROVE  /\ copies[j] < attempts[j]
         /\ kind[j] \in CarefulKinds => copies[j] = 0
  BY DEF HeldInv, Current, Rows

(* markOutboxFailed ends the work of a run on a row and keeps the invariant,
   provided a careful row is retried only if the group cannot have seen it.  *)
LEMMA FailInv ==
  ASSUME IndInv, NEW r \in Runs, NEW i \in Rows, NEW retryable \in BOOLEAN,
         Current(r, i), Fail(r, i, retryable),
         retryable /\ kind[i] \in CarefulKinds => await[r] = "none" \/ ~landed[r]
  PROVE  IndInv'
<1>. USE OutboxAssumption DEF IndInv, TypeOK
<1>1. TypeOK'
  BY DEF Fail, NextRow, Statuses
<1>2. HeldRowsClosed'
  <2>1. \A s \in Runs : batch'[s] \subseteq batch[s] /\ i \notin batch'[s]
    BY DEF Fail, NextRow, Current, HeldRowsClosed
  <2>2. \A s \in Runs : \A j \in batch'[s] : Closed(j)'
    BY <2>1 DEF Fail, HeldRowsClosed, Closed
  <2>. QED BY <2>1, <2>2 DEF HeldRowsClosed
<1>3. ASSUME NEW j \in Rows PROVE RowInv(j)' /\ SeenInv(j)'
  <2>1. Closed(i) /\ HeldInv(r, i) /\ i \in batch[r]
    BY DEF Fail, Current, HeldRowsClosed
  <2>2. CASE j = i
    BY <2>1, <2>2 DEF Fail, RowInv, SeenInv, HeldInv, LandedSeen, Closed, Statuses
  <2>3. CASE j # i
    BY <2>3 DEF Fail, RowInv, SeenInv, Closed
  <2>. QED BY <2>2, <2>3
<1>4. ASSUME NEW s \in Runs, NEW j \in Rows PROVE HeldInv(s, j)' /\ LandedSeen(s, j)'
  <2>1. CASE s = r
    BY <2>1, NotCurrentHeld DEF Fail, NextRow, HeldInv, LandedSeen
  <2>2. CASE s # r
    BY <2>2 DEF Fail, NextRow, HeldInv, LandedSeen, Current, HeldRowsClosed
  <2>. QED BY <2>1, <2>2
<1>. QED BY <1>1, <1>2, <1>3, <1>4

(* An action may be dispatched for the current row as long as no earlier
   action of this claim has landed.  *)
LEMMA DispatchInv ==
  ASSUME IndInv, NEW r \in Runs, NEW i \in Rows, NEW action \in {"card", "plain"},
         Current(r, i), Dispatch(r, i, action), await[r] = "none" \/ ~landed[r]
  PROVE  IndInv'
<1>. USE OutboxAssumption DEF IndInv, TypeOK
<1>1. /\ i \in batch[r] /\ Closed(i) /\ copies[i] < attempts[i]
      /\ kind[i] \in CarefulKinds => copies[i] = 0
  BY DEF Current, HeldRowsClosed, HeldInv
<1>2. \A s \in Runs : s # r => i \notin batch[s]
  BY <1>1 DEF HeldRowsClosed
<1>3. TypeOK'
  BY DEF Dispatch
<1>4. HeldRowsClosed'
  BY DEF Dispatch, HeldRowsClosed, Closed
<1>5. ASSUME NEW j \in Rows PROVE RowInv(j)' /\ SeenInv(j)'
  BY <1>1 DEF Dispatch, RowInv, SeenInv, Closed
<1>6. ASSUME NEW s \in Runs, NEW j \in Rows PROVE HeldInv(s, j)' /\ LandedSeen(s, j)'
  <2>1. CASE s # r
    BY <1>2, <2>1 DEF Dispatch, HeldInv, LandedSeen, Current
  <2>2. CASE s = r /\ j = i
    BY <1>1, <2>2 DEF Dispatch, HeldInv, LandedSeen, Current
  <2>3. CASE s = r /\ j # i
    <3>1. ~Current(r, j)
      BY <2>3 DEF Current, Rows
    <3>2. HeldInv(r, j) /\ copies'[j] = copies[j]
      BY <2>3 DEF Dispatch
    <3>. QED BY <1>1, <2>3, <3>1, <3>2 DEF Dispatch, HeldInv, LandedSeen, Current
  <2>. QED BY <2>1, <2>2, <2>3
<1>. QED BY <1>3, <1>4, <1>5, <1>6

LEMMA ReceiptInv ==
  ASSUME IndInv, NEW r \in Runs, NEW i \in Rows, Receipt(r, i)
  PROVE  IndInv'
<1>. USE OutboxAssumption DEF IndInv, TypeOK
<1>1. TypeOK'
  BY DEF Receipt, NextRow, Statuses
<1>2. HeldRowsClosed'
  <2>1. \A s \in Runs : batch'[s] \subseteq batch[s] /\ i \notin batch'[s]
    BY DEF Receipt, NextRow, Current, HeldRowsClosed
  <2>2. \A s \in Runs : \A j \in batch'[s] : Closed(j)'
    BY <2>1 DEF Receipt, HeldRowsClosed, Closed
  <2>. QED BY <2>1, <2>2 DEF HeldRowsClosed
<1>3. ASSUME NEW j \in Rows PROVE RowInv(j)' /\ SeenInv(j)'
  <2>1. Closed(i) /\ HeldInv(r, i) /\ i \in batch[r]
    BY DEF Receipt, Current, HeldRowsClosed
  <2>2. CASE j = i
    BY <2>1, <2>2 DEF Receipt, RowInv, SeenInv, HeldInv, LandedSeen, Closed, Statuses
  <2>3. CASE j # i
    BY <2>3 DEF Receipt, RowInv, SeenInv, Closed
  <2>. QED BY <2>2, <2>3
<1>4. ASSUME NEW s \in Runs, NEW j \in Rows PROVE HeldInv(s, j)' /\ LandedSeen(s, j)'
  <2>1. CASE s = r
    BY <2>1, NotCurrentHeld DEF Receipt, NextRow, HeldInv, LandedSeen
  <2>2. CASE s # r
    BY <2>2 DEF Receipt, NextRow, HeldInv, LandedSeen, Current, HeldRowsClosed
  <2>. QED BY <2>1, <2>2
<1>. QED BY <1>1, <1>2, <1>3, <1>4

LEMMA AckFailsInv ==
  ASSUME IndInv, NEW r \in Runs, NEW i \in Rows, AckFails(r, i)
  PROVE  IndInv'
<1>. USE OutboxAssumption DEF IndInv, TypeOK
<1>1. TypeOK'
  BY DEF AckFails, columns, NextRow, Statuses
<1>2. HeldRowsClosed'
  <2>1. \A s \in Runs : batch'[s] \subseteq batch[s] /\ i \notin batch'[s]
    BY DEF AckFails, columns, NextRow, Current, HeldRowsClosed
  <2>2. \A s \in Runs : \A j \in batch'[s] : Closed(j)'
    BY <2>1 DEF AckFails, columns, HeldRowsClosed, Closed
  <2>. QED BY <2>1, <2>2 DEF HeldRowsClosed
<1>3. ASSUME NEW j \in Rows PROVE RowInv(j)' /\ SeenInv(j)'
  <2>1. Closed(i) /\ HeldInv(r, i) /\ i \in batch[r]
    BY DEF AckFails, columns, Current, HeldRowsClosed
  <2>2. CASE j = i
    BY <2>1, <2>2 DEF AckFails, columns, RowInv, SeenInv, HeldInv, LandedSeen, Closed, Statuses
  <2>3. CASE j # i
    BY <2>3 DEF AckFails, columns, RowInv, SeenInv, Closed
  <2>. QED BY <2>2, <2>3
<1>4. ASSUME NEW s \in Runs, NEW j \in Rows PROVE HeldInv(s, j)' /\ LandedSeen(s, j)'
  <2>1. CASE s = r
    BY <2>1, NotCurrentHeld DEF AckFails, columns, NextRow, HeldInv, LandedSeen
  <2>2. CASE s # r
    BY <2>2 DEF AckFails, columns, NextRow, HeldInv, LandedSeen, Current, HeldRowsClosed
  <2>. QED BY <2>1, <2>2
<1>. QED BY <1>1, <1>2, <1>3, <1>4

LEMMA CrashInv ==
  ASSUME IndInv, Crash
  PROVE  IndInv'
  BY OutboxAssumption DEF Crash, columns, IndInv, TypeOK, Statuses, AllKinds, CarefulKinds,
     HeldRowsClosed, RowInv, SeenInv, HeldInv, LandedSeen, Closed, Current

LEMMA TickInv ==
  ASSUME IndInv, Tick
  PROVE  IndInv'
  BY OutboxAssumption DEF Tick, IndInv, TypeOK, Statuses, AllKinds, CarefulKinds,
     HeldRowsClosed, RowInv, SeenInv, HeldInv, LandedSeen, Closed, Current
-----------------------------------------------------------------------------
(* The invariant of the specification *)

LEMMA EmitterStepInv ==
  ASSUME IndInv, NEW r \in Runs, EmitterStep(r)
  PROVE  IndInv'
<1>1. PICK i \in Rows : \/ Send(r, i) \/ NotSent(r, i) \/ BadImage(r, i)
                        \/ Receipt(r, i) \/ AckFails(r, i) \/ Refused(r, i)
                        \/ Unanswered(r, i)
  BY DEF EmitterStep
<1>2. CASE Send(r, i)
  BY <1>2, DispatchInv DEF Send
<1>3. CASE NotSent(r, i)
  BY <1>3, FailInv DEF NotSent
<1>4. CASE BadImage(r, i)
  BY <1>4, FailInv DEF BadImage
<1>5. CASE Receipt(r, i)
  BY <1>5, ReceiptInv
<1>6. CASE AckFails(r, i)
  BY <1>6, AckFailsInv
<1>7. CASE Refused(r, i)
  <2>. RetryableKind(i) \in BOOLEAN
    BY DEF RetryableKind
  <2>. QED BY <1>7, DispatchInv, FailInv DEF Refused
<1>8. CASE Unanswered(r, i)
  BY <1>8, FailInv DEF Unanswered, RetryableKind
<1>. QED BY <1>1, <1>2, <1>3, <1>4, <1>5, <1>6, <1>7, <1>8

LEMMA StepInv == IndInv /\ [Next]_vars => IndInv'
<1>. SUFFICES ASSUME IndInv, [Next]_vars PROVE IndInv'
  OBVIOUS
<1>1. CASE WorkerStep
  BY <1>1, EnqueueInv, PublishInv, DiscardInv, CancelInv DEF WorkerStep
<1>2. CASE \E r \in Runs : Claim(r) \/ EmitterStep(r)
  BY <1>2, ClaimInv, EmitterStepInv
<1>3. CASE Maintain
  BY <1>3, MaintainInv
<1>4. CASE Crash
  BY <1>4, CrashInv
<1>5. CASE Tick
  BY <1>5, TickInv
<1>6. CASE UNCHANGED vars
  BY <1>6 DEF vars, IndInv, TypeOK, HeldRowsClosed, RowInv, SeenInv, HeldInv,
     LandedSeen, Closed, Current
<1>. QED BY <1>1, <1>2, <1>3, <1>4, <1>5, <1>6 DEF Next

THEOREM Invariant == Spec => []IndInv
  BY InitIndInv, StepInv, PTL DEF Spec

(* The columns and the state of the emitter keep their types. *)
THEOREM TypeCorrect == Spec => []TypeOK
  BY Invariant, PTL DEF IndInv

(* Overlapping emitter runs never hold the same row, and what one holds no
   other can claim.  *)
THEOREM Exclusive == Spec => []HeldRowsClosed
  BY Invariant, PTL DEF IndInv

(* A forward card or a generated image is seen at most once in the group. *)
THEOREM NoDuplicates == Spec => []AtMostOneCopy
<1>1. IndInv => AtMostOneCopy
  BY DEF IndInv, TypeOK, SeenInv, AtMostOneCopy
<1>. QED BY <1>1, Invariant, PTL

(* Any row is seen at most as often as it was claimed, and claimed at most
   MaxAttempts times.  *)
THEOREM BoundedCopies == Spec => []CopiesWithinAttempts
<1>1. IndInv => CopiesWithinAttempts
  BY DEF IndInv, RowInv, CopiesWithinAttempts
<1>. QED BY <1>1, Invariant, PTL

(* No part of a reply is seen before the turn of the reply is committed. *)
THEOREM NoDraftShown == Spec => []DraftsInvisible
<1>1. IndInv => DraftsInvisible
  BY DEF IndInv, RowInv, DraftsInvisible
<1>. QED BY <1>1, Invariant, PTL
-----------------------------------------------------------------------------
(* Action properties *)

LEMMA StepFinal ==
  ASSUME IndInv, [Next]_vars, NEW i \in Rows
  PROVE  /\ status[i] = "sent" => status'[i] = "sent" /\ receipt'[i] = receipt[i]
         /\ status[i] = "cancelled" /\ status'[i] # "cancelled" =>
              \E r \in Runs : /\ Current(r, i) /\ i \notin batch'[r]
                             /\ \/ status'[i] = "sent" /\ landed[r]
                                \/ status'[i] = "failed"
<1>. DEFINE Final ==
       /\ status[i] = "sent" => status'[i] = "sent" /\ receipt'[i] = receipt[i]
       /\ status[i] = "cancelled" /\ status'[i] # "cancelled" =>
            \E r \in Runs : /\ Current(r, i) /\ i \notin batch'[r]
                           /\ \/ status'[i] = "sent" /\ landed[r]
                              \/ status'[i] = "failed"
<1>. USE DEF IndInv, TypeOK
<1>1. CASE WorkerStep
  <2>1. ASSUME NEW j \in Rows, NEW k \in Kinds, NEW routed \in BOOLEAN, Enqueue(j, k, routed)
        PROVE  Final
    BY <2>1 DEF Enqueue
  <2>2. ASSUME NEW S \in SUBSET Rows, Publish(S) \/ Discard(S) \/ Cancel(S)
        PROVE  Final
    BY <2>2 DEF Publish, Discard, Cancel
  <2>. QED BY <1>1, <2>1, <2>2 DEF WorkerStep
<1>2. CASE \E r \in Runs : Claim(r)
  BY <1>2, CandidatesClaimable DEF Claim, Claimable, Stale
<1>3. ASSUME NEW r \in Runs, EmitterStep(r) PROVE Final
  <2>1. PICK j \in Rows : \/ Send(r, j) \/ NotSent(r, j) \/ BadImage(r, j)
                          \/ Receipt(r, j) \/ AckFails(r, j) \/ Refused(r, j)
                          \/ Unanswered(r, j)
    BY <1>3 DEF EmitterStep
  <2>2. j \in batch[r] /\ Closed(j) /\ Current(r, j)
    BY <2>1 DEF Send, NotSent, BadImage, Receipt, AckFails, Refused, Unanswered,
       Current, HeldRowsClosed
  <2>3. ASSUME NEW retryable \in BOOLEAN, Fail(r, j, retryable) PROVE Final
    <3>1. j \notin batch'[r] /\ status'[j] = "failed" /\ UNCHANGED receipt
          /\ (i # j => status'[i] = status[i])
      BY <2>3 DEF Fail, NextRow
    <3>. QED BY <2>2, <3>1 DEF Closed
  <2>4. CASE Receipt(r, j)
    <3>1. j \notin batch'[r] /\ status'[j] = "sent" /\ landed[r]
          /\ (i # j => status'[i] = status[i] /\ receipt'[i] = receipt[i])
      BY <2>4 DEF Receipt, NextRow
    <3>. QED BY <2>2, <3>1 DEF Closed
  <2>5. CASE status' = status /\ receipt' = receipt
    BY <2>5
  <2>. QED
    BY <2>1, <2>3, <2>4, <2>5 DEF Send, NotSent, BadImage, AckFails, Refused, Unanswered,
       Dispatch, RetryableKind, columns
<1>4. CASE Maintain \/ Crash \/ Tick \/ UNCHANGED vars
  BY <1>4 DEF Maintain, Stale, Crash, Tick, vars, columns
<1>. QED BY <1>1, <1>2, <1>3, <1>4 DEF Next

(* A confirmed row stays confirmed, with the platform id it has. *)
THEOREM SentFinal == Spec => SentIsFinal
<1>1. IndInv /\ [Next]_vars =>
        \A i \in Rows : status[i] = "sent" =>
          status'[i] = "sent" /\ receipt'[i] = receipt[i]
  BY StepFinal
<1>. QED BY <1>1, Invariant, PTL DEF Spec, SentIsFinal

(* What the group has seen of a row stays seen. *)
LEMMA SeenStays ==
  ASSUME IndInv, [Next]_vars, NEW i \in Rows, copies[i] # 0
  PROVE  kind'[i] = kind[i] /\ copies'[i] # 0
<1>. USE DEF IndInv, TypeOK
<1>1. CASE WorkerStep
  BY <1>1 DEF WorkerStep, Enqueue, Publish, Discard, Cancel, RowInv
<1>2. CASE \E r \in Runs : Claim(r)
  BY <1>2 DEF Claim
<1>3. CASE \E r \in Runs : EmitterStep(r)
  BY <1>3 DEF EmitterStep, Send, NotSent, BadImage, Receipt, AckFails, Refused, Unanswered,
     Dispatch, Fail, columns
<1>4. CASE Maintain \/ Crash \/ Tick \/ UNCHANGED vars
  BY <1>4 DEF Maintain, Crash, Tick, vars, columns
<1>. QED BY <1>1, <1>2, <1>3, <1>4 DEF Next

(* A cancelled row leaves its status only by the end of the attempt that was under
   way, and is up for another one only if it is a text or this attempt has not
   reached the group.  *)
THEOREM CancelledFinal == Spec => CancelledIsFinal
<1>. DEFINE Kept(i) ==
       status[i] = "cancelled" /\ status'[i] # "cancelled" =>
         \E r \in Runs :
           /\ Current(r, i) /\ i \notin batch'[r]
           /\ \/ status'[i] = "sent" /\ landed[r]
              \/ status'[i] = "failed" /\ (retry'[i] => kind[i] = "text" \/ ~landed[r])
<1>1. ASSUME IndInv, IndInv', [Next]_vars PROVE \A i \in Rows : Kept(i)
  <2>. SUFFICES ASSUME NEW i \in Rows, status[i] = "cancelled", status'[i] # "cancelled"
                PROVE  Kept(i)
    OBVIOUS
  <2>1. PICK r \in Runs : /\ Current(r, i) /\ i \notin batch'[r]
                          /\ \/ status'[i] = "sent" /\ landed[r]
                             \/ status'[i] = "failed"
    BY <1>1, StepFinal
  <2>2. ASSUME status'[i] = "failed", retry'[i], kind[i] # "text", landed[r] PROVE FALSE
    <3>1. copies[i] # 0 /\ kind[i] \in CarefulKinds
      BY <1>1, <2>1, <2>2 DEF IndInv, LandedSeen, TypeOK, AllKinds, CarefulKinds
    <3>2. kind'[i] = kind[i] /\ copies'[i] # 0
      BY <1>1, <3>1, SeenStays
    <3>. QED BY <1>1, <2>2, <3>1, <3>2 DEF IndInv, SeenInv, Closed
  <2>. QED BY <2>1, <2>2
<1>. QED BY <1>1, StepInv, Invariant, PTL DEF Spec, CancelledIsFinal
-----------------------------------------------------------------------------
(* Refinement *)

LEMMA InitDelivery == Init => Delivery!Init
  BY DEF Init, Delivery!Init, CarefulRows, CarefulKinds

(* What a step can do to the mapped state: rows become available; or one
   careful row that was not seen yet is seen; or one that was seen is
   confirmed.  *)
LEMMA StepDelivery ==
  ASSUME IndInv, IndInv', [Next]_vars
  PROVE  [Delivery!Next]_Delivery!vars
<1>. DEFINE Offered == {i \in CarefulRows :
                          status[i] \notin {"unused", "deleted", "preparing"}}
            Shown == [i \in Rows |-> IF i \in CarefulRows THEN copies[i] ELSE 0]
            Confirmed == {i \in CarefulRows : status[i] = "sent"}
<1>. USE DEF IndInv, TypeOK
<1>1. ASSUME Offered \subseteq Offered', Shown' = Shown, Confirmed' = Confirmed
      PROVE  Delivery!Next
  <2>1. Offered' \in SUBSET Rows
    BY DEF CarefulRows
  <2>. QED BY <1>1, <2>1 DEF Delivery!Next, Delivery!Offer
<1>2. CASE WorkerStep
  <2>1. ASSUME NEW j \in Rows, NEW k \in Kinds, NEW routed \in BOOLEAN, Enqueue(j, k, routed)
        PROVE  Offered \subseteq Offered' /\ Shown' = Shown /\ Confirmed' = Confirmed
    BY <2>1 DEF Enqueue, CarefulRows, RowInv
  <2>2. ASSUME NEW S \in SUBSET Rows, Publish(S)
        PROVE  Offered \subseteq Offered' /\ Shown' = Shown /\ Confirmed' = Confirmed
    BY <2>2 DEF Publish, CarefulRows
  <2>3. ASSUME NEW S \in SUBSET Rows, Discard(S)
        PROVE  Offered \subseteq Offered' /\ Shown' = Shown /\ Confirmed' = Confirmed
    BY <2>3 DEF Discard, CarefulRows
  <2>4. ASSUME NEW S \in SUBSET Rows, Cancel(S)
        PROVE  Offered \subseteq Offered' /\ Shown' = Shown /\ Confirmed' = Confirmed
    BY <2>4 DEF Cancel, CarefulRows
  <2>5. Offered \subseteq Offered' /\ Shown' = Shown /\ Confirmed' = Confirmed
    BY <1>2, <2>1, <2>2, <2>3, <2>4 DEF WorkerStep
  <2>. QED BY <1>1, <2>5
<1>3. CASE \E r \in Runs : Claim(r)
  <2>1. Offered \subseteq Offered' /\ Shown' = Shown /\ Confirmed' = Confirmed
    BY <1>3, CandidatesClaimable DEF Claim, Claimable, Stale, CarefulRows
  <2>. QED BY <1>1, <2>1
<1>4. ASSUME NEW r \in Runs, EmitterStep(r) PROVE Delivery!Next
  <2>1. PICK j \in Rows : \/ Send(r, j) \/ NotSent(r, j) \/ BadImage(r, j)
                          \/ Receipt(r, j) \/ AckFails(r, j) \/ Refused(r, j)
                          \/ Unanswered(r, j)
    BY <1>4 DEF EmitterStep
  <2>2. j \in batch[r] /\ Closed(j) /\ Current(r, j)
    BY <2>1 DEF Send, NotSent, BadImage, Receipt, AckFails, Refused, Unanswered,
       Current, HeldRowsClosed
  <2>3. ASSUME NEW retryable \in BOOLEAN, Fail(r, j, retryable)
        PROVE  Offered \subseteq Offered' /\ Shown' = Shown /\ Confirmed' = Confirmed
    BY <2>2, <2>3 DEF Fail, Closed, CarefulRows
  <2>4. ASSUME NEW action \in {"card", "plain"}, Dispatch(r, j, action),
               await[r] = "none" \/ ~landed[r]
        PROVE  Delivery!Next
    <3>1. Offered' = Offered /\ Confirmed' = Confirmed
      BY <2>4 DEF Dispatch, CarefulRows
    <3>2. CASE j \notin CarefulRows
      <4>1. Shown' = Shown
        BY <2>4, <3>2 DEF Dispatch, CarefulRows
      <4>. QED BY <1>1, <3>1, <4>1
    <3>3. CASE j \in CarefulRows /\ copies' = copies
      <4>1. Shown' = Shown
        BY <2>4, <3>3 DEF Dispatch, CarefulRows
      <4>. QED BY <1>1, <3>1, <4>1
    <3>4. CASE j \in CarefulRows /\ copies' # copies
      <4>1. copies[j] = 0 /\ copies' = [copies EXCEPT ![j] = 1]
        <5>1. HeldInv(r, j) /\ kind[j] \in CarefulKinds
          BY <3>4 DEF CarefulRows
        <5>2. copies[j] = 0
          BY <2>2, <2>4, <5>1 DEF HeldInv
        <5>3. PICK arrives \in BOOLEAN :
                copies' = [copies EXCEPT ![j] = IF arrives THEN @ + 1 ELSE @]
          BY <2>4 DEF Dispatch
        <5>4. arrives
          BY <3>4, <5>3
        <5>. QED BY <5>2, <5>3, <5>4
      <4>2. j \in Offered
        BY <2>2, <3>4 DEF Closed
      <4>3. Shown[j] = 0 /\ Shown' = [Shown EXCEPT ![j] = 1]
        BY <2>4, <3>4, <4>1 DEF Dispatch, CarefulRows
      <4>4. Delivery!Show(j)
        BY <3>1, <4>2, <4>3 DEF Delivery!Show
      <4>. QED BY <4>4 DEF Delivery!Next
    <3>. QED BY <3>2, <3>3, <3>4
  <2>5. CASE Receipt(r, j)
    <3>1. Offered \subseteq Offered' /\ Offered' \subseteq Offered /\ Shown' = Shown
      BY <2>2, <2>5 DEF Receipt, Closed, CarefulRows
    <3>2. CASE j \notin CarefulRows
      <4>1. Confirmed' = Confirmed
        BY <2>5, <3>2 DEF Receipt, CarefulRows
      <4>. QED BY <1>1, <3>1, <4>1
    <3>3. CASE j \in CarefulRows
      <4>1. Confirmed' = Confirmed \cup {j}
        BY <2>5, <3>3 DEF Receipt, CarefulRows
      <4>2. CASE copies[j] = 1
        <5>1. Delivery!Confirm(j)
          BY <3>1, <3>3, <4>1, <4>2 DEF Delivery!Confirm
        <5>. QED BY <5>1 DEF Delivery!Next
      <4>3. CASE copies[j] = 0
        BY <2>5, <3>3, <4>3 DEF Receipt, LandedSeen
      <4>. QED BY <3>3, <4>2, <4>3 DEF SeenInv, CarefulRows
    <3>. QED BY <3>2, <3>3
  <2>6. CASE AckFails(r, j)
    <3>1. Offered \subseteq Offered' /\ Shown' = Shown /\ Confirmed' = Confirmed
      BY <2>6 DEF AckFails, columns, CarefulRows
    <3>. QED BY <1>1, <3>1
  <2>. QED
    BY <1>1, <2>1, <2>3, <2>4, <2>5, <2>6
    DEF Send, NotSent, BadImage, Refused, Unanswered, RetryableKind
<1>5. CASE Maintain \/ Crash \/ Tick
  <2>1. Offered \subseteq Offered' /\ Shown' = Shown /\ Confirmed' = Confirmed
    <3>1. ASSUME Maintain
          PROVE  Offered \subseteq Offered' /\ Shown' = Shown /\ Confirmed' = Confirmed
      BY <3>1 DEF Maintain, Stale, CarefulRows
    <3>2. ASSUME Crash \/ Tick
          PROVE  Offered \subseteq Offered' /\ Shown' = Shown /\ Confirmed' = Confirmed
      BY <3>2 DEF Crash, Tick, columns, CarefulRows
    <3>. QED BY <1>5, <3>1, <3>2
  <2>. QED BY <1>1, <2>1
<1>6. CASE UNCHANGED vars
  BY <1>6 DEF vars, Delivery!vars, CarefulRows
<1>. QED BY <1>2, <1>3, <1>4, <1>5, <1>6 DEF Next

(* For forward cards and generated images the outbox implements
   OutboxDelivery.  *)
THEOREM Refinement == Spec => ImplementsDelivery
  BY InitDelivery, StepDelivery, Invariant, PTL DEF Spec, ImplementsDelivery, Delivery!Spec
=============================================================================
