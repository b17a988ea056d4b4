-------------------------- MODULE HtmlPreview_proofs --------------------------
(* Proofs about HtmlPreview, for any number of requests and any durations. *)
EXTENDS HtmlPreview, TLAPS

(* The columns of the rows with the files, and what the processes do. *)
RowTypes == /\ status \in [Pages -> Statuses]
            /\ lease \in [Pages -> NoLease..Lease]
            /\ told \in [Pages -> {"no", "link", "apology"}]
            /\ notices \in [Pages -> Nat]
            /\ ttl \in [Pages -> 0..Retention]
            /\ sha \in [Pages -> Nat]
            /\ file \in [Pages -> Nat]
            /\ builds \in [Pages -> Nat]

StepTypes == /\ pc \in {"idle", "claim", "apologise", "end"} \cup Working \cup Announcing
             /\ msg \in Pages \cup {NoPage}
             /\ page \in Pages \cup {NoPage}
             /\ spent \in 0..MaxBuild
             /\ handled \subseteq Pages

RestTypes == /\ up \in BOOLEAN
             /\ sweep \in {"idle", "expire", "orphans"}
             /\ listed \subseteq Pages
             /\ swept \in Pages \cup {NoPage}
             /\ removing \in Pages \cup {NoPage}
             /\ doomed \subseteq Pages
             /\ texts \in [Pages -> Nat]
             /\ left \in [Pages -> {"no", "waiting", "lost"}]
             /\ crashes \in 0..MaxCrashes
             /\ faults \in 0..MaxFaults

LEMMA TypeParts == TypeOK <=> RowTypes /\ StepTypes /\ RestTypes
BY DEF TypeOK, RowTypes, StepTypes, RestTypes

(* A handler has a request, and a page once it has come to one.  The page it
   builds has been claimed, and its removal is all that may have come between. *)
Task == /\ pc # "idle" => msg \in Pages
        /\ Building \/ pc \in Announcing \cup {"apologise"} => page \in Pages
        /\ Building => status[page] \in {"processing"} \cup Ended
        /\ pc \in {"place", "publish"} => builds[page] > 0

LEMMA InitTypes == Init => TypeOK /\ Task
<1> SUFFICES ASSUME Init PROVE RowTypes /\ StepTypes /\ RestTypes /\ Task
  BY TypeParts
<1>1. RowTypes
  BY PreviewAssumption DEF Init, RowTypes, Statuses, NoLease
<1>2. StepTypes
  BY PreviewAssumption DEF Init, StepTypes
<1>3. RestTypes
  <2>1. crashes \in 0..MaxCrashes /\ faults \in 0..MaxFaults
    BY PreviewAssumption DEF Init
  <2> QED
    BY <2>1 DEF Init, RestTypes
<1>4. Task
  BY DEF Init, Task, Building, Working, Announcing
<1> QED
  BY <1>1, <1>2, <1>3, <1>4

LEMMA StepKeepsTypes == TypeOK /\ Task /\ [Next]_vars => (TypeOK /\ Task)'
<1> SUFFICES ASSUME TypeOK, Task, [Next]_vars
             PROVE  (RowTypes /\ StepTypes /\ RestTypes /\ Task)'
  BY TypeParts, PTL
<1> USE PreviewAssumption DEF NoPage, NoLease, Statuses, Ended, Building, Working, Announcing
<1>0. RowTypes /\ StepTypes /\ RestTypes
  BY TypeParts
<1> USE <1>0
<1>1. ASSUME NEW m \in Pages, Accept(m)
      PROVE  (RowTypes /\ StepTypes /\ RestTypes /\ Task)'
  <2>1. RowTypes'
    BY <1>1 DEF Accept, RowTypes
  <2>2. StepTypes' /\ Task'
    BY <1>1 DEF Accept, StepTypes, Task
  <2>3. RestTypes'
    BY <1>1 DEF Accept, RestTypes, cleaner, seen
  <2> QED
    BY <2>1, <2>2, <2>3
<1>2. ASSUME NEW m \in Pages, Refuse(m)
      PROVE  (RowTypes /\ StepTypes /\ RestTypes /\ Task)'
  <2>1. RowTypes'
    BY <1>2 DEF Refuse, RowTypes, rows
  <2>2. StepTypes' /\ Task'
    BY <1>2 DEF Refuse, Excuse, StepTypes, Task, rows
  <2>3. faults' \in 0..MaxFaults /\ texts' \in [Pages -> Nat]
    BY <1>2 DEF Refuse, Excuse, RestTypes
  <2>4. RestTypes'
    BY <1>2, <2>3 DEF Refuse, RestTypes, cleaner
  <2> QED
    BY <2>1, <2>2, <2>4
<1>3. ASSUME NEW p \in Pages, Claim(p)
      PROVE  (RowTypes /\ StepTypes /\ RestTypes /\ Task)'
  <2>1. RowTypes'
    BY <1>3 DEF Claim, RowTypes
  <2>2. StepTypes' /\ Task'
    BY <1>3 DEF Claim, StepTypes, Task, RowTypes
  <2>3. RestTypes'
    BY <1>3 DEF Claim, RestTypes, cleaner, seen
  <2> QED
    BY <2>1, <2>2, <2>3
<1>4. CASE Settle
  <2>1. RowTypes'
    BY <1>4 DEF Settle, RowTypes
  <2>2. StepTypes' /\ Task'
    BY <1>4 DEF Settle, StepTypes, Task
  <2>3. RestTypes'
    BY <1>4 DEF Settle, RestTypes, cleaner, seen
  <2> QED
    BY <2>1, <2>2, <2>3
<1>5. CASE Generate
  <2>1. RowTypes'
    BY <1>5 DEF Generate, RowTypes, rows, Task
  <2>2. StepTypes' /\ Task'
    BY <1>5 DEF Generate, StepTypes, Task, RowTypes, rows
  <2>3. RestTypes'
    BY <1>5 DEF Generate, RestTypes, cleaner, seen
  <2> QED
    BY <2>1, <2>2, <2>3
<1>6. CASE Place
  <2>1. RowTypes'
    BY <1>6 DEF Place, RowTypes, rows, Task
  <2>2. StepTypes' /\ Task'
    BY <1>6 DEF Place, StepTypes, Task, rows
  <2>3. RestTypes'
    BY <1>6 DEF Place, RestTypes, cleaner, seen
  <2> QED
    BY <2>1, <2>2, <2>3
<1>7. CASE Publish
  <2>1. RowTypes'
    BY <1>7 DEF Publish, RowTypes, Task
  <2>2. StepTypes' /\ Task'
    BY <1>7 DEF Publish, AfterPage, StepTypes, Task
  <2>3. RestTypes'
    BY <1>7 DEF Publish, RestTypes, cleaner, seen
  <2> QED
    BY <2>1, <2>2, <2>3
<1>8. CASE Announce
  <2>1. RowTypes'
    BY <1>8 DEF Announce, RowTypes, Task
  <2>2. StepTypes' /\ Task'
    BY <1>8 DEF Announce, AfterPage, StepTypes, Task
  <2>3. RestTypes'
    BY <1>8 DEF Announce, RestTypes, cleaner, seen
  <2> QED
    BY <2>1, <2>2, <2>3
<1>9. CASE Fail
  <2>1. RowTypes'
    BY <1>9 DEF Fail, RowTypes
  <2>2. StepTypes' /\ Task'
    BY <1>9 DEF Fail, AfterPage, StepTypes, Task
  <2>3. faults' \in 0..MaxFaults
    BY <1>9 DEF Fail, RestTypes
  <2>4. RestTypes'
    BY <1>9, <2>3 DEF Fail, RestTypes, cleaner, seen
  <2> QED
    BY <2>1, <2>2, <2>4
<1>10. CASE Apologise
  <2>1. RowTypes'
    BY <1>10 DEF Apologise, RowTypes, Task
  <2>2. StepTypes' /\ Task'
    BY <1>10 DEF Apologise, AfterPage, StepTypes, Task
  <2>3. RestTypes'
    BY <1>10 DEF Apologise, RestTypes, cleaner, seen
  <2> QED
    BY <2>1, <2>2, <2>3
<1>11. CASE End
  <2>1. RowTypes'
    BY <1>11 DEF End, RowTypes, rows
  <2>2. StepTypes' /\ Task'
    BY <1>11 DEF End, StepTypes, Task
  <2>3. RestTypes'
    BY <1>11 DEF End, RestTypes, cleaner, seen
  <2> QED
    BY <2>1, <2>2, <2>3
<1>12. CASE List \/ (\E p \in Pages : Wipe(p)) \/ RemoveOrphans
  <2>1. RowTypes'
    BY <1>12 DEF List, Wipe, RemoveOrphans, RowTypes, rows, task
  <2>2. StepTypes' /\ Task'
    BY <1>12 DEF List, Wipe, RemoveOrphans, StepTypes, Task, rows, task
  <2>3. RestTypes'
    BY <1>12 DEF List, GoOn, Wipe, RemoveOrphans, RestTypes, Known, seen
  <2> QED
    BY <2>1, <2>2, <2>3
<1>13. CASE MarkExpired
  <2>1. RowTypes'
    BY <1>13 DEF MarkExpired, RowTypes, task
  <2>2. StepTypes' /\ Task'
    BY <1>13 DEF MarkExpired, StepTypes, Task, task, RowTypes, RestTypes
  <2>3. RestTypes'
    BY <1>13 DEF MarkExpired, GoOn, Known, RestTypes, seen
  <2> QED
    BY <2>1, <2>2, <2>3
<1>14. CASE (\E p \in Pages : Remove(p)) \/ AdminDies
  <2>1. RowTypes'
    BY <1>14 DEF Remove, AdminDies, RowTypes, rows, task
  <2>2. StepTypes' /\ Task'
    BY <1>14 DEF Remove, AdminDies, StepTypes, Task, rows, task
  <2>3. crashes' \in 0..MaxCrashes
    BY <1>14 DEF Remove, AdminDies, RestTypes
  <2>4. RestTypes'
    BY <1>14, <2>3 DEF Remove, AdminDies, RestTypes, cleaner, seen
  <2> QED
    BY <2>1, <2>2, <2>4
<1>15. CASE MarkDeleted
  <2>1. RowTypes'
    <3>1. status' = [status EXCEPT ![removing] = "deleted"]
          /\ lease' = [lease EXCEPT ![removing] = NoLease]
      BY <1>15 DEF MarkDeleted
    <3>2. status' \in [Pages -> Statuses]
      BY <3>1 DEF RowTypes
    <3>3. NoLease \in NoLease..Lease
      OBVIOUS
    <3>4. lease' \in [Pages -> NoLease..Lease]
      BY <3>1, <3>3 DEF RowTypes
    <3> QED
      BY <1>15, <3>2, <3>4 DEF MarkDeleted, RowTypes, task
  <2>2. StepTypes' /\ Task'
    BY <1>15 DEF MarkDeleted, StepTypes, Task, task, RowTypes, RestTypes
  <2>3. RestTypes'
    BY <1>15 DEF MarkDeleted, RestTypes, cleaner, seen
  <2> QED
    BY <2>1, <2>2, <2>3
<1>16. CASE Crash \/ Restart
  <2>1. RowTypes'
    BY <1>16 DEF Crash, Restart, RowTypes, rows, task
  <2>2. StepTypes' /\ Task'
    BY <1>16 DEF Crash, Restart, StepTypes, Task, rows, task
  <2>3. crashes' \in 0..MaxCrashes
    BY <1>16 DEF Crash, Restart, RestTypes
  <2>4. RestTypes'
    BY <1>16, <2>3 DEF Crash, Restart, RestTypes, cleaner, seen
  <2> QED
    BY <2>1, <2>2, <2>4
<1>17. CASE Tick
  <2>1. RowTypes'
    BY <1>17 DEF Tick, RowTypes
  <2>2. spent' \in 0..MaxBuild
    BY <1>17 DEF Tick, StepTypes
  <2>3. StepTypes' /\ Task'
    BY <1>17, <2>2 DEF Tick, StepTypes, Task
  <2>4. RestTypes'
    BY <1>17 DEF Tick, RestTypes, cleaner, seen
  <2> QED
    BY <2>1, <2>3, <2>4
<1>18. CASE AnnounceFails
  <2>1. RowTypes'
    BY <1>18 DEF AnnounceFails, RowTypes, rows
  <2>2. StepTypes' /\ Task'
    BY <1>18 DEF AnnounceFails, AfterPage, StepTypes, Task, rows
  <2>3. faults' \in 0..MaxFaults
    BY <1>18 DEF AnnounceFails, RestTypes
  <2>4. left' \in [Pages -> {"no", "waiting", "lost"}]
    BY <1>18 DEF AnnounceFails, RestTypes
  <2>5. RestTypes'
    BY <1>18, <2>3, <2>4 DEF AnnounceFails, RestTypes, cleaner
  <2> QED
    BY <2>1, <2>2, <2>5
<1>19. CASE GiveUp
  <2>1. RowTypes'
    BY <1>19 DEF GiveUp, RowTypes, rows
  <2>2. msg \in Pages
    BY <1>19 DEF GiveUp, Task
  <2>3. StepTypes' /\ Task'
    BY <1>19, <2>2 DEF GiveUp, Excuse, StepTypes, Task, rows
  <2>4. faults' \in 0..MaxFaults /\ texts' \in [Pages -> Nat]
    BY <1>19 DEF GiveUp, Excuse, RestTypes
  <2>5. left' \in [Pages -> {"no", "waiting", "lost"}]
    BY <1>19 DEF GiveUp, RestTypes
  <2>6. RestTypes'
    BY <1>19, <2>4, <2>5 DEF GiveUp, RestTypes, cleaner
  <2> QED
    BY <2>1, <2>3, <2>6
<1>20. CASE UNCHANGED vars
  BY <1>20 DEF vars, RowTypes, StepTypes, RestTypes, Task
<1> QED
  BY <1>1, <1>2, <1>3, <1>4, <1>5, <1>6, <1>7, <1>8, <1>9, <1>10, <1>11, <1>12,
     <1>13, <1>14, <1>15, <1>16, <1>17, <1>18, <1>19, <1>20
  DEF Next, TaskStep, SweepStep, AdminStep

(* The types of the tables and of the processes' variables. *)
THEOREM TypeCorrect == Spec => []TypeOK
BY InitTypes, StepKeepsTypes, PTL DEF Spec
-----------------------------------------------------------------------------
(* Behind OneNotice: a notice is what the row links to.  A row gets its hash
   by being published and its apology by having failed, and neither comes
   after the other.  *)
Told == \A p \in Pages :
  /\ notices[p] = IF told[p] = "no" THEN 0 ELSE 1
  /\ status[p] \in {"none", "pending", "processing"} => told[p] = "no" /\ sha[p] = 0
  /\ status[p] = "failed" => told[p] # "link" /\ sha[p] = 0
  /\ status[p] = "published" => told[p] # "apology" /\ sha[p] # 0
  /\ told[p] = "link" => sha[p] # 0
  /\ told[p] = "apology" => sha[p] = 0

(* Behind OneBuilding: requests are accepted in their order, and once a later
   page has been claimed, an earlier one that is not done with has expired and
   has no lease.  *)
Order == \A p, q \in Pages : p < q =>
  /\ status[q] # "none" => p \in handled
  /\ status[q] = "processing" /\ status[p] \in {"pending", "processing"} =>
       ttl[p] = 0 /\ lease[p] <= 0

(* What the cleanup and the admin process work on has a row, and the cleanup
   takes the pages to expire from its list.  *)
Seen == /\ \A p \in Pages : p \in listed \cup {swept, removing} => status[p] # "none"
        /\ swept # NoPage => sweep = "expire" /\ swept \in listed

(* A failure text without a page is sent after an error or a refusal only. *)
TextsOK == \A p \in Pages : texts[p] <= faults

LEMMA TextsStep == TypeOK /\ TextsOK /\ [Next]_vars => TextsOK'
<1> SUFFICES ASSUME TypeOK, TextsOK, [Next]_vars, NEW p \in Pages PROVE texts'[p] <= faults'
  BY DEF TextsOK
<1>0. texts \in [Pages -> Nat] /\ faults \in Nat /\ texts[p] <= faults
  BY DEF TypeOK, TextsOK
<1>1. CASE GiveUp \/ \E m \in Pages : Refuse(m)
  BY <1>0, <1>1 DEF GiveUp, Refuse, Excuse
<1>2. CASE ~(GiveUp \/ \E m \in Pages : Refuse(m))
  <2>1. texts' = texts /\ faults' \in Nat /\ faults <= faults'
    <3>1. CASE TaskStep
      BY <1>0, <1>2, <3>1 DEF TaskStep, Accept, Claim, Settle, Generate, Place, Publish,
         Announce, AnnounceFails, Fail, Apologise, End, seen
    <3>2. CASE SweepStep \/ AdminStep \/ Crash \/ Restart \/ Tick \/ UNCHANGED vars
      BY <1>0, <3>2 DEF SweepStep, List, Wipe, MarkExpired, RemoveOrphans, AdminStep, Remove,
         MarkDeleted, AdminDies, Crash, Restart, Tick, seen, vars
    <3> QED
      BY <3>1, <3>2 DEF Next
  <2> QED
    BY <1>0, <2>1
<1> QED
  BY <1>1, <1>2

LEMMA ToldInit == Init => Told /\ TextsOK /\ Order /\ Seen
BY DEF Init, Told, TextsOK, Order, Seen, NoPage, Pages

LEMMA RowsStay ==
  ASSUME [Next]_vars, NEW p \in Pages, status'[p] = "none", TypeOK
  PROVE  status[p] = "none"
<1>0. status \in [Pages -> Statuses]
  BY DEF TypeOK
<1>1. ASSUME NEW m \in Pages, Accept(m) \/ Refuse(m) \/ Claim(m) PROVE status[p] = "none"
  BY <1>0, <1>1 DEF Accept, Refuse, Claim, rows
<1>2. CASE Settle \/ Generate \/ Place \/ Announce \/ Apologise \/ End \/ List
           \/ (\E n \in Pages : Wipe(n)) \/ RemoveOrphans
           \/ (\E n \in Pages : Remove(n)) \/ AdminDies \/ AnnounceFails \/ GiveUp
           \/ Crash \/ Restart \/ Tick \/ UNCHANGED vars
  <2>1. status' = status
    BY <1>2 DEF Settle, Generate, Place, Announce, Apologise, End, List, Wipe,
       RemoveOrphans, Remove, AdminDies, AnnounceFails, GiveUp, Crash, Restart, Tick, rows, vars
  <2> QED
    BY <2>1
<1>3. CASE Publish \/ Fail \/ MarkExpired \/ MarkDeleted
  BY <1>0, <1>3 DEF Publish, Fail, MarkExpired, MarkDeleted
<1> QED
  BY <1>1, <1>2, <1>3 DEF Next, TaskStep, SweepStep, AdminStep

LEMMA SeenStep == TypeOK /\ Seen /\ [Next]_vars => Seen'
<1> SUFFICES ASSUME TypeOK, Seen, [Next]_vars
             PROVE  /\ \A p \in Pages : p \in listed' \cup {swept', removing'} => status[p] # "none"
                    /\ swept' # NoPage => sweep' = "expire" /\ swept' \in listed'
  BY RowsStay DEF Seen
<1> USE DEF Seen
<1>1. CASE TaskStep
  BY <1>1 DEF TaskStep, Accept, Refuse, Claim, Settle, Generate, Place, Publish,
     Announce, AnnounceFails, Fail, Apologise, GiveUp, End, cleaner
<1>2. CASE SweepStep
  BY <1>2 DEF SweepStep, List, GoOn, Wipe, MarkExpired, RemoveOrphans, Known, NoPage, Pages
<1>3. CASE AdminStep
  BY <1>3 DEF AdminStep, Remove, MarkDeleted, AdminDies, cleaner, NoPage, Pages
<1>4. CASE Crash \/ Restart \/ Tick \/ UNCHANGED vars
  BY <1>4 DEF Crash, Restart, Tick, cleaner, vars, NoPage, Pages
<1> QED
  BY <1>1, <1>2, <1>3, <1>4 DEF Next

LEMMA ToldStep == TypeOK /\ Task /\ Told /\ [Next]_vars => Told'
<1> SUFFICES ASSUME TypeOK, Task, Told, [Next]_vars PROVE Told'
  OBVIOUS
<1>0. RowTypes /\ RestTypes
  BY TypeParts
<1> USE <1>0 DEF Told, RowTypes, RestTypes
<1>1. ASSUME NEW m \in Pages, Accept(m) \/ Refuse(m) \/ Claim(m) PROVE Told'
  BY <1>1 DEF Accept, Refuse, Claim, Candidates, Claimable, rows
<1>2. CASE Settle \/ Generate \/ Place \/ End \/ List \/ (\E p \in Pages : Wipe(p))
           \/ RemoveOrphans \/ (\E p \in Pages : Remove(p)) \/ AdminDies
           \/ AnnounceFails \/ GiveUp \/ Crash \/ Restart \/ Tick \/ UNCHANGED vars
  <2>1. UNCHANGED <<status, told, notices, sha>>
    BY <1>2 DEF Settle, Generate, Place, End, List, Wipe, RemoveOrphans, Remove,
       AdminDies, AnnounceFails, GiveUp, Crash, Restart, Tick, rows, vars
  <2> QED
    BY <2>1
<1>3. CASE Publish
  BY <1>3 DEF Publish, Owns, Task
<1>4. CASE Announce
  BY <1>4 DEF Announce, Announcing, Task
<1>5. CASE Fail
  BY <1>5 DEF Fail, Owns, Task, Building
<1>6. CASE Apologise
  BY <1>6 DEF Apologise, Task
<1>7. CASE MarkExpired \/ MarkDeleted
  BY <1>7 DEF MarkExpired, MarkDeleted
<1> QED
  BY <1>1, <1>2, <1>3, <1>4, <1>5, <1>6, <1>7 DEF Next, TaskStep, SweepStep, AdminStep

LEMMA OrderStep == TypeOK /\ Task /\ Seen /\ Order /\ [Next]_vars => Order'
<1> SUFFICES ASSUME TypeOK, Task, Seen, Order, [Next]_vars,
                    NEW p \in Pages, NEW q \in Pages, p < q
             PROVE  /\ status'[q] # "none" => p \in handled'
                    /\ status'[q] = "processing" /\ status'[p] \in {"pending", "processing"} =>
                         ttl'[p] = 0 /\ lease'[p] <= 0
  BY DEF Order
<1>0. RowTypes /\ RestTypes
  BY TypeParts
<1>h. /\ status[q] # "none" => p \in handled
      /\ status[q] = "processing" /\ status[p] \in {"pending", "processing"} =>
           ttl[p] = 0 /\ lease[p] <= 0
  BY DEF Order
<1> USE <1>0, <1>h DEF RowTypes, RestTypes
<1>1. ASSUME NEW m \in Pages, Accept(m) \/ Refuse(m)
      PROVE  /\ status'[q] # "none" => p \in handled'
             /\ status'[q] = "processing" /\ status'[p] \in {"pending", "processing"} =>
                  ttl'[p] = 0 /\ lease'[p] <= 0
  <2>1. CASE Accept(m)
    <3>1. /\ \A n \in Pages : status'[n] # status[n] => n = m /\ status'[n] = "pending"
          /\ m \notin handled /\ \A n \in 1..(m - 1) : n \in handled
          /\ handled' = handled /\ lease' = lease /\ (ttl' = ttl \/ status[m] = "none")
      BY <2>1 DEF Accept
    <3>2. ttl'[p] = ttl[p] \/ p = m
      BY <2>1 DEF Accept
    <3>3. p \in 1..(q - 1)
      BY PreviewAssumption DEF Pages
    <3> QED
      BY <3>1, <3>2, <3>3
  <2>2. CASE Refuse(m)
    BY <2>2 DEF Refuse, Excuse, rows
  <2> QED
    BY <1>1, <2>1, <2>2
<1>2. ASSUME NEW m \in Pages, Claim(m)
      PROVE  /\ status'[q] # "none" => p \in handled'
             /\ status'[q] = "processing" /\ status'[p] \in {"pending", "processing"} =>
                  ttl'[p] = 0 /\ lease'[p] <= 0
  <2>1. Claimable(m) /\ \A n \in 1..(m - 1) : ~Blocks(n)
    BY <1>2 DEF Claim, Candidates
  <2>2. \A n \in Pages : n < m => n \in 1..(m - 1)
    BY PreviewAssumption DEF Pages
  <2>3. \A n \in Pages : n < m => ~Claimable(n)
    <3> SUFFICES ASSUME NEW n \in Pages, n < m, Claimable(n) PROVE FALSE
      OBVIOUS
    <3>1. \A k \in 1..(n - 1) : ~Blocks(k)
      BY <2>1 DEF Pages
    <3> QED
      BY <1>2, <3>1 DEF Claim, Candidates, Pages
  <2>4. /\ status' = [status EXCEPT ![m] = "processing"]
        /\ lease' = [lease EXCEPT ![m] = Lease]
        /\ UNCHANGED <<ttl, handled>>
    BY <1>2 DEF Claim
  <2>5. CASE q = m
    <3>1. ~Blocks(p) /\ ~Claimable(p)
      BY <2>1, <2>2, <2>3, <2>5
    <3> QED
      BY <2>1, <2>4, <2>5, <3>1 DEF Blocks, Claimable
  <2>6. CASE q # m
    BY <2>1, <2>4, <2>6 DEF Claimable
  <2> QED
    BY <2>5, <2>6
<1>3. CASE Settle \/ Generate \/ Place \/ Announce \/ Apologise \/ End \/ List
           \/ (\E n \in Pages : Wipe(n))
           \/ RemoveOrphans \/ (\E n \in Pages : Remove(n)) \/ AdminDies
           \/ AnnounceFails \/ GiveUp \/ Crash \/ Restart \/ UNCHANGED vars
  <2>1. UNCHANGED <<status, ttl>> /\ handled \subseteq handled'
        /\ (lease'[p] = lease[p] \/ status[p] \notin {"pending", "processing"})
    BY <1>3 DEF Settle, Generate, Place, Announce, AnnounceFails, Apologise, GiveUp, Excuse,
       End, List, Wipe, RemoveOrphans, Remove, AdminDies, Crash, Restart, rows, task, vars
  <2> QED
    BY <2>1
<1>4. CASE Publish \/ Fail \/ MarkExpired \/ MarkDeleted
  <2>1. UNCHANGED <<ttl, handled>>
    BY <1>4 DEF Publish, Fail, MarkExpired, MarkDeleted, task
  <2>2. /\ status'[p] = status[p] \/ status'[p] \in {"published", "failed"} \cup Ended
        /\ status'[q] = status[q] \/ (status[q] # "none" /\ status'[q] # "processing")
    <3>1. CASE Publish \/ Fail
      BY <3>1 DEF Publish, Fail, Owns
    <3>2. CASE MarkExpired
      BY <3>2 DEF MarkExpired, Ended, Seen
    <3>3. CASE MarkDeleted
      BY <3>3 DEF MarkDeleted, Ended, Seen
    <3> QED
      BY <1>4, <3>1, <3>2, <3>3
  <2>3. lease'[p] = lease[p] \/ lease'[p] = NoLease
    BY <1>4 DEF Publish, Fail, MarkExpired, MarkDeleted
  <2> QED
    BY <2>1, <2>2, <2>3 DEF NoLease, Ended
<1>5. CASE Tick
  BY <1>5, PreviewAssumption DEF Tick, NoLease
<1> QED
  BY <1>1, <1>2, <1>3, <1>4, <1>5 DEF Next, TaskStep, SweepStep, AdminStep

(* One notice at most is linked to each page, and the one that fits what became
   of it; whatever more is said about the request is the failure text of a handler
   that met an error or was refused.  *)
THEOREM ToldOnce == Spec => []OneNotice
<1>1. TypeOK /\ Told /\ TextsOK => OneNotice
  BY DEF TypeOK, Told, TextsOK, OneNotice
<1> QED
  BY <1>1, ToldInit, ToldStep, TextsStep, InitTypes, StepKeepsTypes, PTL DEF Spec

(* Whatever expires, crashes or is removed, no two pages are under construction
   with a lease.  *)
THEOREM BuiltInTurn == Spec => []OneBuilding
<1>1. TypeOK /\ Order => OneBuilding
  <2> SUFFICES ASSUME TypeOK, Order, NEW p \in Pages, NEW q \in Pages,
                      status[p] = "processing", lease[p] > 0,
                      status[q] = "processing", lease[q] > 0, p < q
               PROVE  FALSE
    BY DEF OneBuilding, Pages
  <2> QED
    BY DEF Order, TypeOK, NoLease
<1> QED
  BY <1>1, ToldInit, SeenStep, OrderStep, InitTypes, StepKeepsTypes, PTL DEF Spec

-----------------------------------------------------------------------------
(* Behind PublishedIsServed: from the renaming of its directory on, a page that
   nobody removes is not taken for an orphan, since the list of the known ids
   was made when its row was there.  *)
Served ==
  /\ \A p \in Pages : status[p] = "published" =>
       /\ sha[p] # 0
       /\ p \notin doomed => file[p] = sha[p]
       /\ sweep = "orphans" => p \in listed
  /\ pc = "publish" =>
       /\ page \notin doomed => file[page] = builds[page]
       /\ sweep = "orphans" => page \in listed

LEMMA ServedStep ==
  ASSUME ~SlowSweep
  PROVE  TypeOK /\ Task /\ Seen /\ Served /\ [Next]_vars => Served'
<1> SUFFICES ASSUME TypeOK, Task, Seen, Served, [Next]_vars PROVE Served'
  OBVIOUS
<1>0. RowTypes /\ RestTypes
  BY TypeParts
<1> USE <1>0 DEF Served, RowTypes, RestTypes
<1>1. ASSUME NEW m \in Pages, Accept(m) \/ Refuse(m) \/ Claim(m) PROVE Served'
  <2>1. \A p \in Pages : status'[p] = "published" => status[p] = "published"
    BY <1>1 DEF Accept, Refuse, Claim, rows
  <2>2. UNCHANGED <<sha, file, doomed, sweep, listed>> /\ pc' # "publish"
    BY <1>1 DEF Accept, Refuse, Claim, rows, cleaner, seen
  <2> QED
    BY <2>1, <2>2
<1>2. CASE Settle \/ Announce \/ AnnounceFails \/ GiveUp \/ Fail \/ Apologise \/ End \/ AdminDies \/ Restart \/ Tick
           \/ MarkDeleted \/ UNCHANGED vars
  <2>1. \A p \in Pages : status'[p] = "published" => status[p] = "published"
    BY <1>2 DEF Settle, Announce, AnnounceFails, GiveUp, Fail, Apologise, End, AdminDies,
       Restart, Tick, MarkDeleted, rows, vars
  <2>2. UNCHANGED <<sha, file, doomed, sweep, listed>>
        /\ (pc' # "publish" \/ UNCHANGED <<pc, page, builds>>)
    BY <1>2 DEF Settle, Announce, AnnounceFails, GiveUp, Fail, Apologise, End, AdminDies,
       Restart, Tick, MarkDeleted, rows, task, cleaner, seen, vars, AfterPage
  <2> QED
    BY <2>1, <2>2
<1>3. CASE Generate
  BY <1>3 DEF Generate, Task, Building, Working, Ended, rows, cleaner, seen
<1>4. CASE Place
  BY <1>4 DEF Place, Task, Building, Working, Ended, rows, cleaner, seen
<1>5. CASE Publish
  BY <1>5 DEF Publish, Task, Building, Working, AfterPage, cleaner, seen
<1>6. CASE List
  BY <1>6 DEF List, GoOn, Known, rows, task, seen, Task, Building, Working, Ended
<1>7. ASSUME NEW p \in Pages, Wipe(p) \/ Remove(p) PROVE Served'
  BY <1>7 DEF Wipe, Remove, rows, task, cleaner, Task, Building, Working
<1>8. CASE MarkExpired
  BY <1>8 DEF MarkExpired, GoOn, Known, task, seen, Seen, Task, Building, Working, Ended
<1>9. CASE RemoveOrphans
  BY <1>9 DEF RemoveOrphans, rows, task, seen, Task, Building, Working
<1>10. CASE Crash
  BY <1>10 DEF Crash, rows, seen
<1> QED
  BY <1>1, <1>2, <1>3, <1>4, <1>5, <1>6, <1>7, <1>8, <1>9, <1>10
  DEF Next, TaskStep, SweepStep, AdminStep

(* A page that nobody has begun to remove is served as it was published, as
   long as a sweep of the orphans is faster than building a page.  *)
THEOREM ServedAsPublished ==
  ASSUME ~SlowSweep
  PROVE  Spec => []PublishedIsServed
<1>1. Init => Served
  BY DEF Init, Served
<1>2. Served => PublishedIsServed
  BY DEF Served, PublishedIsServed
<1> QED
  BY <1>1, <1>2, ServedStep, ToldInit, SeenStep, InitTypes, StepKeepsTypes, PTL DEF Spec
=============================================================================
