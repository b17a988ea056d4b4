---------------------- MODULE ConversationContext_proofs ----------------------
(***************************************************************************)
(* Proofs about ConversationContext, for any number of messages and users, *)
(* and, at the end, about Schedules.                                       *)
(*                                                                         *)
(* The invariants of ConversationContext speak of all turns and branches,  *)
(* the deleted ones included: a #clear takes branches away and changes     *)
(* none of them.                                                           *)
(***************************************************************************)
EXTENDS ConversationContext, Schedules, FiniteSetTheorems, WellFoundedInduction, TLAPS

Rows == 1..Len(turns)
Branches == 1..Len(branches)

TurnRow == [branch : Nat, parent : Nat, user : Users \cup {Bot},
            how : {"new", "quoted", "continued", "answer"}]
BranchRow == [owner : Users, from : Nat, head : Nat]

Shape == /\ author \in [Msgs -> Users]
         /\ polled \in 0..NMsgs
         /\ turns \in Seq(TurnRow)
         /\ branches \in Seq(BranchRow)
         /\ live \subseteq Branches
         /\ active \in [Users -> {None} \cup live]
         /\ route \in [Msgs -> {None} \cup Rows]
         /\ done \subseteq Msgs
         /\ clears \in 0..MaxClears

(* What the tables refer to is there, and the head of a branch lies on it. *)
Links == /\ \A t \in Rows : /\ turns[t].branch \in Branches
                            /\ turns[t].parent \in {None} \cup Rows
                            /\ turns[t].user = Bot <=> turns[t].how = "answer"
         /\ \A b \in Branches : /\ branches[b].from \in {None} \cup Branches
                                /\ branches[b].head \in Rows
                                /\ turns[branches[b].head].branch = b
         /\ \A m \in Msgs : route[m] # None => /\ turns[route[m]].branch \in live
                                               /\ turns[route[m]].how # "answer"

-----------------------------------------------------------------------------
(* What saveMessageRoute does to the tables, for a message that begins a
   branch and for one that goes to the head of its branch.  *)

SaveArgs(b, parent, how) ==
  /\ b \in {None} \cup live /\ parent \in {None} \cup Turns
  /\ parent # None => turns[parent].branch = b
  /\ parent = None => b = None
  /\ how \in {"new", "quoted", "continued"}

SavedTurn(here, m, parent, how) ==
  /\ turns' \in Seq(TurnRow)
  /\ Len(turns') = Len(turns) + 1
  /\ \A t \in Rows : turns'[t] = turns[t]
  /\ turns'[Len(turns) + 1] = [branch |-> here, parent |-> parent, user |-> author[m], how |-> how]

Forked(m, b) ==
  /\ branches' \in Seq(BranchRow)
  /\ Len(branches') = Len(branches) + 1
  /\ \A c \in Branches : branches'[c] = branches[c]
  /\ branches'[Len(branches) + 1] = [owner |-> author[m], from |-> b, head |-> Len(turns) + 1]

Continued(b) ==
  /\ b \in Branches
  /\ branches' \in Seq(BranchRow)
  /\ Len(branches') = Len(branches)
  /\ \A c \in Branches \ {b} : branches'[c] = branches[c]
  /\ branches'[b] = [branches[b] EXCEPT !.head = Len(turns) + 1]

LEMMA SaveEffect ==
  ASSUME Shape, Links, NEW m \in Msgs, NEW b, NEW parent, NEW how,
         SaveArgs(b, parent, how), Save(m, b, parent, how)
  PROVE  \/ SavedTurn(Len(branches) + 1, m, parent, how) /\ Forked(m, b) /\ Forks(b, parent)
            /\ live' = live \cup {Len(branches) + 1}
            /\ active' = [active EXCEPT ![author[m]] = Len(branches) + 1]
         \/ SavedTurn(b, m, parent, how) /\ Continued(b) /\ parent = branches[b].head
            /\ live' = live \cup {b} /\ b \in live
            /\ active' = [active EXCEPT ![author[m]] = b]
<1> USE DEF Shape
<1> PICK n \in Nat : n = Len(turns)
  OBVIOUS
<1> PICK k \in Nat : k = Len(branches)
  OBVIOUS
<1>1. /\ b \in Nat /\ parent \in Nat /\ author[m] \in Users
      /\ how \in {"new", "quoted", "continued", "answer"}
  BY DEF SaveArgs, None, Turns, Branches
<1>2. ASSUME NEW here \in Nat,
             turns' = Append(turns, [branch |-> here, parent |-> parent, user |-> author[m], how |-> how])
      PROVE  SavedTurn(here, m, parent, how)
  <2> PICK row : row = [branch |-> here, parent |-> parent, user |-> author[m], how |-> how]
    OBVIOUS
  <2>1. row \in TurnRow
    BY <1>1 DEF TurnRow
  <2> QED
    BY <1>2, <2>1 DEF SavedTurn, Rows
<1>3. CASE Forks(b, parent)
  <2>1. /\ turns' = Append(turns, [branch |-> k + 1, parent |-> parent, user |-> author[m], how |-> how])
        /\ branches' = Append(branches, [owner |-> author[m], from |-> b, head |-> n + 1])
        /\ live' = live \cup {k + 1} /\ active' = [active EXCEPT ![author[m]] = k + 1]
    BY <1>3 DEF Save
  <2>2. [owner |-> author[m], from |-> b, head |-> n + 1] \in BranchRow
    BY <1>1 DEF BranchRow
  <2>3. Forked(m, b)
    BY <2>1, <2>2 DEF Forked, Branches
  <2>4. k + 1 \in Nat
    OBVIOUS
  <2>5. SavedTurn(k + 1, m, parent, how)
    BY <2>1, <2>4, <1>2
  <2> QED
    BY <1>3, <2>1, <2>3, <2>5
<1>4. CASE ~Forks(b, parent)
  <2>1. /\ turns' = Append(turns, [branch |-> b, parent |-> parent, user |-> author[m], how |-> how])
        /\ branches' = [branches EXCEPT ![b].head = n + 1]
        /\ live' = live \cup {b} /\ active' = [active EXCEPT ![author[m]] = b]
    BY <1>4 DEF Save
  <2>2. parent = branches[b].head /\ b \in live /\ b \in Branches
    BY <1>4 DEF Forks, SaveArgs
  <2> PICK row : row = branches[b]
    OBVIOUS
  <2>3. row \in BranchRow
    BY <2>2 DEF Branches
  <2>4. [row EXCEPT !.head = n + 1] \in BranchRow
    <3>1. /\ row = [owner |-> row.owner, from |-> row.from, head |-> row.head]
          /\ row.owner \in Users /\ row.from \in Nat
      BY <2>3 DEF BranchRow
    <3>2. [row EXCEPT !.head = n + 1] = [owner |-> row.owner, from |-> row.from, head |-> n + 1]
      BY <3>1
    <3> QED
      BY <3>1, <3>2 DEF BranchRow
  <2>5. branches' = [branches EXCEPT ![b] = [branches[b] EXCEPT !.head = n + 1]]
    BY <2>1
  <2>6. Continued(b)
    BY <2>2, <2>4, <2>5 DEF Continued, Branches
  <2> QED
    BY <1>1, <1>2, <2>1, <2>2, <2>6
<1> QED
  BY <1>3, <1>4

(* The three routings save a message with arguments of this kind. *)
LEMMA Routings ==
  ASSUME Shape, Links, NEW m \in Msgs,
         RouteAlone(m) \/ RouteQuotation(m) \/ RouteContinuation(m)
  PROVE  \E b, parent, how :
           /\ SaveArgs(b, parent, how) /\ Save(m, b, parent, how) /\ Unrouted(m)
           /\ how = "quoted" => parent \in Turns
           /\ how = "continued" => /\ b \in live /\ parent = branches[b].head
                                   /\ LastSpeaker(parent) = author[m]
<1>1. CASE RouteAlone(m)
  BY <1>1 DEF RouteAlone, SaveArgs
<1>2. CASE RouteQuotation(m)
  <2>1. PICK t \in Turns : Save(m, turns[t].branch, t, "quoted")
    BY <1>2 DEF RouteQuotation
  <2>2. t # None /\ turns[t].branch \in live
    BY DEF Turns, None
  <2>3. SaveArgs(turns[t].branch, t, "quoted")
    BY <2>2 DEF SaveArgs
  <2> QED
    BY <1>2, <2>1, <2>3 DEF RouteQuotation
<1>3. CASE RouteContinuation(m)
  <2> PICK b : b = active[author[m]]
    OBVIOUS
  <2>1. b \in live /\ b \in Branches
    BY <1>3 DEF RouteContinuation, Continues, Shape
  <2>2. branches[b].head \in Turns /\ branches[b].head # None /\ turns[branches[b].head].branch = b
    BY <2>1 DEF Links, Turns, Rows, None
  <2>3. SaveArgs(b, branches[b].head, "continued")
    BY <2>1, <2>2 DEF SaveArgs
  <2>4. /\ Save(m, b, branches[b].head, "continued") /\ Unrouted(m)
        /\ LastSpeaker(branches[b].head) = author[m]
    BY <1>3 DEF RouteContinuation, Continues
  <2> QED
    BY <2>1, <2>3, <2>4
<1> QED
  BY <1>1, <1>2, <1>3

(* What appendAssistantTurn does to the tables. *)
AnswerTables(m) ==
  LET n == Len(turns)
      q == route[m]
      b == turns[q].branch
  IN  /\ q \in Rows /\ b \in Branches /\ b \in live /\ turns[q].how # "answer"
      /\ turns' \in Seq(TurnRow) /\ Len(turns') = n + 1
      /\ \A t \in Rows :
           /\ turns'[t].branch = turns[t].branch
           /\ turns'[t].user = turns[t].user
           /\ turns'[t].how = turns[t].how
           /\ turns'[t].parent = IF Moves(t, q) THEN n + 1 ELSE turns[t].parent
      /\ turns'[n + 1] = [branch |-> b, parent |-> q, user |-> Bot, how |-> "answer"]
      /\ branches' \in Seq(BranchRow) /\ Len(branches') = Len(branches)
      /\ \A c \in Branches :
           /\ branches'[c].from = branches[c].from
           /\ branches'[c].head = IF c = b /\ branches[b].head = q THEN n + 1 ELSE branches[c].head

LEMMA AnswerEffect ==
  ASSUME Shape, Links, NEW m \in Msgs, Answer(m)
  PROVE  AnswerTables(m)
<1> USE DEF Shape
<1> PICK n \in Nat : n = Len(turns)
  OBVIOUS
<1> PICK q : q = route[m]
  OBVIOUS
<1>1. q \in Rows /\ turns[q].how # "answer"
  BY DEF Answer, AtTurn, Links
<1> PICK b : b = turns[q].branch
  OBVIOUS
<1>2. b \in live /\ b \in Branches /\ b \in Nat
  BY <1>1 DEF Links, Branches, Answer, AtTurn
<1> PICK moved : moved = [t \in 1..n |-> IF Moves(t, q) THEN [turns[t] EXCEPT !.parent = n + 1]
                                         ELSE turns[t]]
  OBVIOUS
<1>3. /\ turns' = Append(moved, [branch |-> b, parent |-> q, user |-> Bot, how |-> "answer"])
      /\ branches' = [branches EXCEPT ![b].head = NewHead(b, q, n + 1)]
  BY DEF Answer
<1>4. ASSUME NEW t \in 1..n
      PROVE  /\ moved[t] \in TurnRow
             /\ moved[t].branch = turns[t].branch
             /\ moved[t].user = turns[t].user
             /\ moved[t].how = turns[t].how
             /\ moved[t].parent = IF Moves(t, q) THEN n + 1 ELSE turns[t].parent
  <2> PICK row : row = turns[t]
    OBVIOUS
  <2>1. row \in TurnRow
    OBVIOUS
  <2>2. /\ row = [branch |-> row.branch, parent |-> row.parent, user |-> row.user, how |-> row.how]
        /\ row.branch \in Nat /\ row.parent \in Nat /\ row.user \in Users \cup {Bot}
        /\ row.how \in {"new", "quoted", "continued", "answer"}
    BY <2>1 DEF TurnRow
  <2>3. [row EXCEPT !.parent = n + 1]
           = [branch |-> row.branch, parent |-> n + 1, user |-> row.user, how |-> row.how]
    BY <2>2
  <2>4. moved[t] = [branch |-> row.branch, parent |-> IF Moves(t, q) THEN n + 1 ELSE row.parent,
                    user |-> row.user, how |-> row.how]
    BY <2>2, <2>3
  <2> QED
    BY <2>2, <2>4 DEF TurnRow
<1>5. moved \in Seq(TurnRow) /\ Len(moved) = n
  BY <1>4
<1> PICK new : new = [branch |-> b, parent |-> q, user |-> Bot, how |-> "answer"]
  OBVIOUS
<1>6. new \in TurnRow
  BY <1>1, <1>2 DEF TurnRow, Rows
<1>7. /\ turns' \in Seq(TurnRow) /\ Len(turns') = n + 1 /\ turns'[n + 1] = new
      /\ \A t \in Rows : turns'[t] = moved[t]
  BY <1>3, <1>5, <1>6 DEF Rows
<1> PICK old : old = branches[b]
  OBVIOUS
<1> PICK top : top = NewHead(b, q, n + 1)
  OBVIOUS
<1>8. old \in BranchRow
  BY <1>2 DEF Branches
<1>9. /\ old = [owner |-> old.owner, from |-> old.from, head |-> old.head]
      /\ old.owner \in Users /\ old.from \in Nat /\ old.head \in Nat
  BY <1>8 DEF BranchRow
<1>10. top = (IF old.head = q THEN n + 1 ELSE old.head) /\ top \in Nat
  BY <1>9 DEF NewHead
<1> PICK row : row = [owner |-> old.owner, from |-> old.from, head |-> top]
  OBVIOUS
<1>11. [old EXCEPT !.head = top] = row
  <2>1. [old EXCEPT !.head = top] = [owner |-> old.owner, from |-> old.from, head |-> top]
    BY ONLY <1>9
  <2> QED
    BY <2>1
<1>12. row \in BranchRow
  BY <1>9, <1>10 DEF BranchRow
<1>13. branches' = [branches EXCEPT ![b] = row]
  BY <1>3, <1>11
<1>14. /\ branches' \in Seq(BranchRow) /\ Len(branches') = Len(branches)
       /\ \A c \in Branches \ {b} : branches'[c] = branches[c]
       /\ branches'[b] = row
  BY <1>2, <1>12, <1>13 DEF Branches
<1>15. \A c \in Branches :
         /\ branches'[c].from = branches[c].from
         /\ branches'[c].head = IF c = b /\ branches[b].head = q THEN n + 1 ELSE branches[c].head
  BY <1>10, <1>14
<1>16. \A t \in Rows :
         /\ turns'[t].branch = turns[t].branch
         /\ turns'[t].user = turns[t].user
         /\ turns'[t].how = turns[t].how
         /\ turns'[t].parent = IF Moves(t, q) THEN n + 1 ELSE turns[t].parent
  BY <1>4, <1>7 DEF Rows
<1> QED
  BY <1>1, <1>2, <1>7, <1>14, <1>15, <1>16 DEF AnswerTables
-----------------------------------------------------------------------------
(* Types *)

LEMMA InitShape == ContextInit => Shape /\ Links
<1> SUFFICES ASSUME ContextInit PROVE Shape /\ Links
  OBVIOUS
<1>1. Len(turns) = 0 /\ Len(branches) = 0 /\ Rows = {} /\ Branches = {}
  BY DEF ContextInit, Rows, Branches
<1>2. turns \in Seq(TurnRow) /\ branches \in Seq(BranchRow)
  BY DEF ContextInit
<1>3. Shape
  BY <1>1, <1>2, ContextAssumption DEF ContextInit, Shape, None
<1> QED
  BY <1>1, <1>3 DEF ContextInit, Links, None

LEMMA SaveKeepsShape ==
  ASSUME Shape, Links, NEW m \in Msgs, NEW b, NEW parent, NEW how,
         SaveArgs(b, parent, how), Save(m, b, parent, how), Unrouted(m)
  PROVE  Shape' /\ Links'
<1> PICK n \in Nat : n = Len(turns)
  BY DEF Shape
<1> PICK k \in Nat : k = Len(branches)
  BY DEF Shape
<1> USE DEF None
<1>0. /\ author[m] \in Users /\ author[m] # Bot /\ polled' \in 0..NMsgs
      /\ author' = author /\ done' = done /\ clears' = clears
      /\ route' = [route EXCEPT ![m] = n + 1]
  BY ContextAssumption DEF Shape, Save, Msgs
<1>1. PICK here :
        /\ SavedTurn(here, m, parent, how)
        /\ live' = live \cup {here}
        /\ active' = [active EXCEPT ![author[m]] = here]
        /\ \/ here = k + 1 /\ Forked(m, b)
           \/ here = b /\ Continued(b) /\ b \in live
  BY SaveEffect
<1>2. /\ Len(turns') = n + 1 /\ Rows' = Rows \cup {n + 1} /\ n + 1 \notin Rows
      /\ turns' \in Seq(TurnRow) /\ branches' \in Seq(BranchRow)
  BY <1>1 DEF SavedTurn, Rows, Forked, Continued
<1>3. here \in Branches' /\ Branches \subseteq Branches'
  BY <1>1 DEF Forked, Continued, Branches
<1>4. Shape'
  <2>1. live' \subseteq Branches'
    BY <1>1, <1>3 DEF Shape
  <2>2. active' \in [Users -> {None} \cup live']
    BY <1>0, <1>1 DEF Shape
  <2>3. route' \in [Msgs -> {None} \cup Rows']
    BY <1>0, <1>2 DEF Shape
  <2> QED
    BY <1>0, <1>2, <2>1, <2>2, <2>3 DEF Shape
<1>5. ASSUME NEW t \in Rows'
      PROVE  /\ turns'[t].branch \in Branches'
             /\ turns'[t].parent \in {None} \cup Rows'
             /\ turns'[t].user = Bot <=> turns'[t].how = "answer"
  <2>1. CASE t \in Rows
    BY <1>1, <1>2, <1>3, <2>1 DEF Links, SavedTurn
  <2>2. CASE t = n + 1
    BY <1>0, <1>1, <1>2, <1>3, <2>2 DEF SavedTurn, SaveArgs, Turns, Rows
  <2> QED
    BY <1>2, <2>1, <2>2
<1>6. ASSUME NEW c \in Branches'
      PROVE  /\ branches'[c].from \in {None} \cup Branches'
             /\ branches'[c].head \in Rows'
             /\ turns'[branches'[c].head].branch = c
  <2>1. CASE c \in Branches /\ ~(here = b /\ c = b)
    <3>1. branches'[c] = branches[c]
      BY <1>1, <2>1 DEF Forked, Continued, Branches
    <3>2. /\ branches[c].from \in {None} \cup Branches
          /\ branches[c].head \in Rows /\ turns[branches[c].head].branch = c
      BY <2>1 DEF Links
    <3>3. turns'[branches[c].head] = turns[branches[c].head]
      BY <1>1, <3>2 DEF SavedTurn
    <3> QED
      BY ONLY <1>2, <1>3, <3>1, <3>2, <3>3
  <2>2. CASE here = k + 1 /\ c = k + 1 /\ Forked(m, b)
    <3>1. branches'[c] = [owner |-> author[m], from |-> b, head |-> n + 1]
      BY <2>2 DEF Forked
    <3>2. b \in {None} \cup Branches
      BY DEF SaveArgs, Shape
    <3>3. turns'[n + 1].branch = here
      BY <1>1 DEF SavedTurn
    <3>4. branches'[c].from = b /\ branches'[c].head = n + 1
      BY <3>1
    <3>5. n + 1 \in Rows' /\ b \in {None} \cup Branches' /\ here = c
      BY <1>2, <1>3, <2>2, <3>2
    <3> QED
      BY <3>3, <3>4, <3>5
  <2>3. CASE here = b /\ c = b /\ Continued(b)
    <3>1. branches[b] \in BranchRow
      BY <2>3 DEF Shape, Continued, Branches
    <3>2. branches'[b].from = branches[b].from /\ branches'[b].head = n + 1
      BY <2>3, <3>1 DEF Continued, BranchRow
    <3> QED
      BY <1>1, <1>2, <1>3, <2>3, <3>2 DEF SavedTurn, Continued, Links
  <2> QED
    BY <1>1, <2>1, <2>2, <2>3 DEF Branches, Forked, Continued
<1>7. ASSUME NEW i \in Msgs, route'[i] # None
      PROVE  turns'[route'[i]].branch \in live' /\ turns'[route'[i]].how # "answer"
  <2>1. CASE i = m
    BY <1>0, <1>1, <2>1 DEF Shape, SavedTurn, SaveArgs
  <2>2. CASE i # m
    BY <1>0, <1>1, <1>7, <2>2 DEF Shape, SavedTurn, Links
  <2> QED
    BY <2>1, <2>2
<1> QED
  BY <1>4, <1>5, <1>6, <1>7 DEF Links

LEMMA AnswerKeepsShape ==
  ASSUME Shape, Links, NEW m \in Msgs, Answer(m)
  PROVE  Shape' /\ Links'
<1> PICK n \in Nat : n = Len(turns)
  BY DEF Shape
<1> USE DEF None
<1> PICK q : q = route[m]
  OBVIOUS
<1> PICK b : b = turns[q].branch
  OBVIOUS
<1>0. /\ UNCHANGED <<author, polled, live, active, route, clears>> /\ done' = done \cup {m}
  BY DEF Answer
<1>1. AnswerTables(m)
  BY AnswerEffect
<1>2. /\ Rows' = Rows \cup {n + 1} /\ n + 1 \notin Rows /\ Branches' = Branches
      /\ q \in Rows /\ b \in Branches
      /\ turns'[n + 1] = [branch |-> b, parent |-> q, user |-> Bot, how |-> "answer"]
  BY <1>1 DEF AnswerTables, Rows, Branches
<1>3. \A t \in Rows :
         /\ turns'[t].branch = turns[t].branch
         /\ turns'[t].user = turns[t].user
         /\ turns'[t].how = turns[t].how
         /\ turns'[t].parent \in {n + 1, turns[t].parent}
  BY <1>1 DEF AnswerTables
<1>4. \A c \in Branches :
         /\ branches'[c].from = branches[c].from
         /\ branches'[c].head = branches[c].head \/ (c = b /\ branches'[c].head = n + 1)
  BY <1>1 DEF AnswerTables
<1>5. Shape'
  BY <1>0, <1>1, <1>2 DEF Shape, AnswerTables
<1>6. ASSUME NEW t \in Rows'
      PROVE  /\ turns'[t].branch \in Branches'
             /\ turns'[t].parent \in {None} \cup Rows'
             /\ turns'[t].user = Bot <=> turns'[t].how = "answer"
  <2>1. CASE t \in Rows
    BY <1>2, <1>3, <2>1 DEF Links
  <2>2. CASE t = n + 1
    BY <1>2, <2>2
  <2> QED
    BY <1>2, <2>1, <2>2
<1>7. ASSUME NEW c \in Branches'
      PROVE  /\ branches'[c].from \in {None} \cup Branches'
             /\ branches'[c].head \in Rows'
             /\ turns'[branches'[c].head].branch = c
  BY <1>2, <1>3, <1>4 DEF Links
<1>8. ASSUME NEW i \in Msgs, route'[i] # None
      PROVE  turns'[route'[i]].branch \in live' /\ turns'[route'[i]].how # "answer"
  BY <1>0, <1>3, <1>8 DEF Links, Shape
<1> QED
  BY <1>5, <1>6, <1>7, <1>8 DEF Links

LEMMA DeleteKeepsShape ==
  ASSUME Shape, Links, clears < MaxClears, NEW gone, Delete(gone),
         active' \in [Users -> {None} \cup (live \ gone)]
  PROVE  Shape' /\ Links'
<1> USE DEF None
<1>1. /\ UNCHANGED <<author, polled, turns, branches, done>>
      /\ live' = live \ gone
      /\ \A m \in Msgs : route'[m] = IF route[m] # None /\ turns[route[m]].branch \in gone
                                       THEN None ELSE route[m]
      /\ route' \in [Msgs -> {None} \cup Rows]
  BY DEF Delete, Shape
<1>2. clears' \in 0..MaxClears
  <2>1. clears' = clears + 1 /\ clears \in 0..MaxClears
    BY DEF Delete, Shape
  <2> QED
    BY <2>1, ContextAssumption
<1>3. Shape'
  BY <1>1, <1>2 DEF Shape, Rows, Branches
<1> QED
  BY <1>1, <1>3 DEF Links, Rows, Branches

(* The parts of a step: a message is saved, an answer is, or branches go. *)
LEMMA StepKeepsShape == Shape /\ Links /\ [ContextNext]_contextVars => (Shape /\ Links)'
<1> SUFFICES ASSUME Shape, Links, [ContextNext]_contextVars PROVE Shape' /\ Links'
  OBVIOUS
<1>1. ASSUME NEW m \in Msgs, RouteAlone(m) \/ RouteQuotation(m) \/ RouteContinuation(m)
      PROVE  Shape' /\ Links'
  BY <1>1, Routings, SaveKeepsShape
<1>2. ASSUME NEW m \in Msgs, Answer(m) PROVE Shape' /\ Links'
  BY <1>2, AnswerKeepsShape
<1>3. ASSUME NEW m \in Msgs, Unanswered(m) PROVE Shape' /\ Links'
  BY <1>3 DEF Unanswered, tree, Shape, Links, Rows, Branches
<1>4. ASSUME NEW u \in Users, ClearUser(u) PROVE Shape' /\ Links'
  <2>1. active' \in [Users -> {None} \cup (live \ Deletable(u))]
    BY <1>4 DEF ClearUser, Shape
  <2> QED
    BY <1>4, <2>1, DeleteKeepsShape DEF ClearUser
<1>5. CASE ClearGroup
  <2>1. active' \in [Users -> {None} \cup (live \ live)]
    BY <1>5 DEF ClearGroup
  <2> QED
    BY <1>5, <2>1, DeleteKeepsShape DEF ClearGroup
<1>6. CASE UNCHANGED contextVars
  BY <1>6 DEF contextVars, Shape, Links, Rows, Branches
<1> QED
  BY <1>1, <1>2, <1>3, <1>4, <1>5, <1>6 DEF ContextNext

LEMMA SeqOf ==
  ASSUME NEW R, NEW S, NEW s \in Seq(R), \A i \in 1..Len(s) : s[i] \in S
  PROVE  s \in Seq(S)
OBVIOUS

LEMMA ShapeIsTyped == Shape /\ Links => ContextTypeOK
<1> SUFFICES ASSUME Shape, Links PROVE ContextTypeOK
  OBVIOUS
<1> PICK n \in Nat : n = Len(turns)
  BY DEF Shape
<1> PICK k \in Nat : k = Len(branches)
  BY DEF Shape
<1>1. ASSUME NEW t \in 1..n
      PROVE  turns[t] \in [branch : 1..k, parent : 0..n, user : Users \cup {Bot},
                           how : {"new", "quoted", "continued", "answer"}]
  <2>1. turns[t] \in TurnRow /\ turns[t].branch \in 1..k /\ turns[t].parent \in 0..n
    BY DEF Shape, Links, Rows, Branches, None
  <2> QED
    BY <2>1 DEF TurnRow
<1>2. ASSUME NEW b \in 1..k
      PROVE  branches[b] \in [owner : Users, from : 0..k, head : 1..n]
  <2>1. branches[b] \in BranchRow /\ branches[b].from \in 0..k /\ branches[b].head \in 1..n
    BY DEF Shape, Links, Rows, Branches, None
  <2> QED
    BY <2>1 DEF BranchRow
<1>3. turns \in Seq([branch : 1..k, parent : 0..n, user : Users \cup {Bot},
                     how : {"new", "quoted", "continued", "answer"}])
  BY <1>1, SeqOf DEF Shape
<1>4. branches \in Seq([owner : Users, from : 0..k, head : 1..n])
  BY <1>2, SeqOf DEF Shape
<1>5. route \in [Msgs -> {None} \cup Turns]
  BY DEF Shape, Links, Turns, Rows
<1> QED
  BY <1>3, <1>4, <1>5 DEF ContextTypeOK, Shape, Branches

(* The types, with every reference between the tables. *)
THEOREM TypeCorrect == ContextSpec => []ContextTypeOK
BY InitShape, StepKeepsShape, ShapeIsTyped, PTL DEF ContextSpec
-----------------------------------------------------------------------------
(* Paths.  Path is a recursive function of bounded depth; that there is such a
   function, and what its values are, is proved by induction over sets.  *)

LEMMA LeastNumber ==
  ASSUME NEW S \in SUBSET Nat, S # {}
  PROVE  \E m \in S : \A n \in S : m <= n
<1>1. PICK m \in S : \A n \in S : <<n, m>> \notin OpToRel(<, Nat)
  BY WFMin, NatLessThanWellFounded
<1>2. \A n \in S : ~(n < m)
  BY <1>1 DEF OpToRel
<1> QED
  BY <1>2

LEMMA SetInduction ==
  ASSUME NEW S, 0 \in S, \A n \in Nat : n \in S => n + 1 \in S
  PROVE  \A n \in Nat : n \in S
<1> SUFFICES ASSUME NEW k \in Nat \ S PROVE FALSE
  OBVIOUS
<1>1. PICK m \in Nat \ S : \A n \in Nat \ S : m <= n
  BY LeastNumber
<1>2. m # 0 /\ m - 1 \in Nat
  BY <1>1
<1>3. m - 1 \in S
  BY <1>1, <1>2
<1> QED
  BY <1>1, <1>2, <1>3

Iterate(f, x, g, N) == f[0] = x /\ \A n \in 1..N : f[n] = g[f[n - 1]]

LEMMA Iterates ==
  ASSUME NEW S, NEW x \in S, NEW g \in [S -> S], NEW N \in Nat
  PROVE  \E f \in [0..N -> S] : Iterate(f, x, g, N)
<1> DEFINE Good(k) == \E f \in [0..k -> S] : f[0] = x /\ \A n \in 1..k : f[n] = g[f[n - 1]]
           K == {k \in Nat : Good(k)}
<1>1. 0 \in K
  <2> PICK f : f = [n \in 0..0 |-> x]
    OBVIOUS
  <2>1. f \in [0..0 -> S] /\ f[0] = x /\ \A n \in 1..0 : f[n] = g[f[n - 1]]
    OBVIOUS
  <2> QED
    BY <2>1
<1>2. ASSUME NEW k \in Nat, k \in K PROVE k + 1 \in K
  <2>1. PICK f \in [0..k -> S] : f[0] = x /\ \A n \in 1..k : f[n] = g[f[n - 1]]
    BY <1>2
  <2> PICK h : h = [n \in 0..(k + 1) |-> IF n = k + 1 THEN g[f[k]] ELSE f[n]]
    OBVIOUS
  <2>2. h \in [0..(k + 1) -> S]
    <3>1. g[f[k]] \in S
      OBVIOUS
    <3> QED
      BY <3>1
  <2>3. h[0] = x
    BY <2>1
  <2>4. \A n \in 1..(k + 1) : h[n] = g[h[n - 1]]
    BY <2>1
  <2> QED
    BY <2>2, <2>3, <2>4
<1> HIDE DEF Good
<1>3. \A k \in Nat : k \in K
  <2> HIDE DEF K
  <2> QED
    BY <1>1, <1>2, SetInduction
<1>4. Good(N)
  BY <1>3
<1> QED
  BY <1>4 DEF Good, Iterate

Onward(s) == IF s = None THEN None ELSE Before(s)

PathOf(t, f) ==
  /\ f \in [0..Len(turns) -> {None} \cup Turns]
  /\ f[0] = t
  /\ \A n \in 1..Len(turns) : f[n] = Onward(f[n - 1])

PathsAreSuch == Len(turns) \in Nat => \A t \in Turns : PathOf(t, Path(t))

LEMMA Paths == PathsAreSuch
<1> SUFFICES ASSUME Len(turns) \in Nat, NEW t \in Turns PROVE PathOf(t, Path(t))
  BY DEF PathsAreSuch
<1> PICK N \in Nat : N = Len(turns)
  OBVIOUS
<1> PICK S : S = {None} \cup Turns
  OBVIOUS
<1>1. PICK g : g = [s \in S |-> Onward(s)]
  OBVIOUS
<1>2. g \in [S -> S] /\ t \in S
  BY <1>1 DEF Onward, Before
<1>3. PICK f \in [0..N -> S] : Iterate(f, t, g, N)
  BY <1>2, Iterates
<1>4. \A n \in 1..N : f[n] = Onward(f[n - 1])
  <2> SUFFICES ASSUME NEW n \in 1..N PROVE f[n] = Onward(f[n - 1])
    OBVIOUS
  <2>1. f[n - 1] \in S
    BY <1>3
  <2> QED
    BY <1>1, <1>3, <2>1 DEF Iterate
<1> DEFINE IsPath(h) == h = [n \in 0..N |-> IF n = 0 THEN t
                                          ELSE IF h[n - 1] = None THEN None ELSE Before(h[n - 1])]
<1>5. IsPath(f)
  BY <1>3, <1>4 DEF Onward, Iterate
<1>6. Path(t) = CHOOSE h : IsPath(h)
  BY DEF Path
<1>7. IsPath(Path(t))
  <2> HIDE DEF IsPath
  <2> QED
    BY <1>5, <1>6, Zenon
<1> HIDE DEF IsPath
<1>8. PICK h : h = Path(t) /\ IsPath(h)
  BY <1>7
<1> USE DEF IsPath
<1>9. /\ h[0] = t /\ \A n \in 1..N : h[n] = Onward(h[n - 1])
  BY <1>8 DEF Onward
<1>10. \A n \in 0..N : h[n] \in S
  <2> DEFINE K == {n \in Nat : n <= N => h[n] \in S}
  <2>1. 0 \in K
    BY <1>9
  <2>2. \A n \in Nat : n \in K => n + 1 \in K
    <3> SUFFICES ASSUME NEW n \in Nat, n \in K, n + 1 <= N PROVE h[n + 1] \in S
      OBVIOUS
    <3>1. h[n + 1] = Onward(h[n])
      BY <1>9
    <3> QED
      BY <3>1 DEF Onward, Before
  <2>3. \A n \in Nat : n \in K
    <3> HIDE DEF K
    <3> QED
      BY <2>1, <2>2, SetInduction
  <2> QED
    BY <2>3
<1> QED
  BY <1>8, <1>9, <1>10 DEF PathOf

(* A path that does not come to an end within its depth comes back to a turn. *)
LEMMA PathTurnsBack ==
  ASSUME Len(turns) \in Nat, NEW t, NEW f, PathOf(t, f), f[Len(turns)] # None
  PROVE  \E n \in 0..(Len(turns) - 1) : f[n] = f[Len(turns)]
<1> PICK N \in Nat : N = Len(turns)
  OBVIOUS
<1>1. /\ f \in [0..N -> {None} \cup Turns] /\ f[N] # None
      /\ \A n \in 1..N : f[n] = Onward(f[n - 1])
  BY DEF PathOf
<1>2. \A n \in 0..N : f[n] # None
  <2> SUFFICES ASSUME NEW n \in 0..N, f[n] = None PROVE FALSE
    OBVIOUS
  <2> DEFINE K == {d \in Nat : n + d <= N => f[n + d] = None}
  <2>1. 0 \in K
    OBVIOUS
  <2>2. \A d \in Nat : d \in K => d + 1 \in K
    <3> SUFFICES ASSUME NEW d \in Nat, d \in K, n + (d + 1) <= N PROVE f[n + (d + 1)] = None
      OBVIOUS
    <3>1. f[n + d] = None /\ f[n + (d + 1)] = Onward(f[(n + (d + 1)) - 1])
      BY <1>1
    <3>2. (n + (d + 1)) - 1 = n + d
      OBVIOUS
    <3> QED
      BY <3>1, <3>2 DEF Onward
  <2>3. \A d \in Nat : d \in K
    <3> HIDE DEF K
    <3> QED
      BY <2>1, <2>2, SetInduction
  <2>4. PICK d \in Nat : n + d = N
    <3>1. N - n \in Nat /\ n + (N - n) = N
      OBVIOUS
    <3> QED
      BY <3>1
  <2>5. f[n + d] = None
    BY <2>3, <2>4
  <2> QED
    BY <1>1, <2>4, <2>5
<1>3. PICK i \in 0..N, j \in 0..N : i < j /\ f[i] = f[j]
  <2>1. f \in [0..N -> 1..N]
    BY <1>1, <1>2 DEF Turns
  <2>2. /\ IsFiniteSet(0..N) /\ Cardinality(0..N) = N + 1
        /\ IsFiniteSet(1..N) /\ Cardinality(1..N) = N
    <3>1. 0 \in Int /\ 1 \in Int /\ N \in Int
      OBVIOUS
    <3>2. \A a, b \in Int : IsFiniteSet(a..b) /\ Cardinality(a..b) = IF a > b THEN 0 ELSE b - a + 1
      BY FS_Interval
    <3>3. /\ IsFiniteSet(0..N) /\ Cardinality(0..N) = IF 0 > N THEN 0 ELSE N - 0 + 1
          /\ IsFiniteSet(1..N) /\ Cardinality(1..N) = IF 1 > N THEN 0 ELSE N - 1 + 1
      BY <3>1, <3>2
    <3> QED
      BY <3>3
  <2>3. \E x, y \in 0..N : x # y /\ f[x] = f[y]
    <3>1. Cardinality(1..N) < Cardinality(0..N)
      BY <2>2
    <3> QED
      BY <2>1, <2>2, <3>1, FS_PigeonHole
  <2> QED
    BY <2>3
<1>4. \E k \in 0..(N - 1) : f[k] = f[N]
  <2> DEFINE K == {d \in Nat : j + d <= N => f[i + d] = f[j + d]}
  <2>1. 0 \in K
    BY <1>3
  <2>2. \A d \in Nat : d \in K => d + 1 \in K
    <3> SUFFICES ASSUME NEW d \in Nat, d \in K, j + (d + 1) <= N
                 PROVE  f[i + (d + 1)] = f[j + (d + 1)]
      OBVIOUS
    <3>1. f[i + d] = f[j + d]
      OBVIOUS
    <3>2. i + (d + 1) \in 1..N /\ j + (d + 1) \in 1..N
      BY <1>3
    <3>3. f[i + (d + 1)] = Onward(f[(i + (d + 1)) - 1]) /\ f[j + (d + 1)] = Onward(f[(j + (d + 1)) - 1])
      BY <1>1, <3>2
    <3>4. (i + (d + 1)) - 1 = i + d /\ (j + (d + 1)) - 1 = j + d
      OBVIOUS
    <3> QED
      BY <3>1, <3>3, <3>4
  <2>3. \A d \in Nat : d \in K
    <3> HIDE DEF K
    <3> QED
      BY <2>1, <2>2, SetInduction
  <2>4. PICK d \in Nat : j + d = N
    <3>1. N - j \in Nat /\ j + (N - j) = N
      OBVIOUS
    <3> QED
      BY <3>1
  <2>5. f[i + d] = f[j + d]
    BY <2>3, <2>4
  <2>6. i + d \in 0..(N - 1)
    BY <1>3, <2>4
  <2> QED
    BY <2>4, <2>5, <2>6
<1> QED
  BY <1>4

(* The causal turns of t are what can be reached from t by going to the turn
   before, as far as the turns have not been deleted.  *)
LEMMA CausalClosed ==
  ASSUME Len(turns) \in Nat, NEW t \in Turns
  PROVE  /\ t \in CausalTurns(t) /\ CausalTurns(t) \subseteq Turns
         /\ \A s \in CausalTurns(t) : Before(s) # None => Before(s) \in CausalTurns(t)
<1> PICK N \in Nat : N = Len(turns)
  OBVIOUS
<1>1. PICK f : f = Path(t) /\ PathOf(t, f)
  BY Paths DEF PathsAreSuch
<1>2. /\ f \in [0..N -> {None} \cup Turns] /\ f[0] = t
      /\ \A n \in 1..N : f[n] = Onward(f[n - 1])
  BY <1>1 DEF PathOf
<1>3. CausalTurns(t) = {f[n] : n \in 0..N} \ {None}
  BY <1>1, <1>2 DEF CausalTurns
<1>4. t \in CausalTurns(t) /\ CausalTurns(t) \subseteq Turns
  <2>1. 0 \in 0..N /\ t # None
    BY DEF Turns, None
  <2>2. t \in CausalTurns(t)
    BY <1>2, <1>3, <2>1
  <2>3. \A n \in 0..N : f[n] \in {None} \cup Turns
    BY <1>2
  <2> QED
    BY <1>3, <2>2, <2>3
<1>5. ASSUME NEW s \in CausalTurns(t), Before(s) # None PROVE Before(s) \in CausalTurns(t)
  <2>1. PICK n \in 0..N : s = f[n]
    BY <1>3
  <2>2. s # None
    BY <1>3
  <2>3. PICK k \in 0..(N - 1) : s = f[k]
    <3>1. CASE n < N
      BY <2>1, <3>1
    <3>2. CASE n = N
      <4>1. f[Len(turns)] # None
        BY <2>1, <2>2, <3>2
      <4> QED
        BY <1>1, <2>1, <3>2, <4>1, PathTurnsBack
    <3> QED
      BY <3>1, <3>2
  <2>4. k + 1 \in 1..N /\ (k + 1) - 1 = k
    OBVIOUS
  <2>5. f[k + 1] = Before(s)
    BY <1>2, <2>2, <2>3, <2>4 DEF Onward
  <2> QED
    BY <1>3, <1>5, <2>4, <2>5
<1> QED
  BY <1>4, <1>5

(* The author of a turn spoke last there; behind an answer it is the author of
   the question.  *)
LEMMA SpeakerFound ==
  ASSUME Len(turns) \in Nat, NEW t \in Turns
  PROVE  /\ turns[t].user # Bot => LastSpeaker(t) = turns[t].user
         /\ turns[t].user = Bot /\ turns[t].parent \in Turns /\ turns[turns[t].parent].user # Bot
              => LastSpeaker(t) = turns[turns[t].parent].user
<1> PICK N \in Nat : N = Len(turns)
  OBVIOUS
<1>1. PICK f : f = Path(t) /\ PathOf(t, f)
  BY Paths DEF PathsAreSuch
<1>2. /\ f \in [0..N -> {None} \cup Turns] /\ f[0] = t
      /\ \A n \in 1..N : f[n] = Onward(f[n - 1])
  BY <1>1 DEF PathOf
<1>3. PICK spoken : spoken = {n \in 0..N : f[n] # None /\ turns[f[n]].user # Bot}
  OBVIOUS
<1>4. DOMAIN f = 0..N
  BY <1>2
<1> PICK first : first = CHOOSE n \in spoken : \A k \in spoken : n <= k
  OBVIOUS
<1>5. LastSpeaker(t) = IF spoken = {} THEN Bot ELSE turns[f[first]].user
  BY <1>1, <1>3, <1>4 DEF LastSpeaker
<1>6. t # None /\ t \in 1..N
  BY DEF Turns, None
<1>7. ASSUME NEW n \in spoken, \A k \in spoken : n <= k
      PROVE  LastSpeaker(t) = turns[f[n]].user
  <2>1. first \in spoken /\ \A k \in spoken : first <= k
    BY <1>7
  <2>2. first = n
    <3>1. first \in 0..N /\ n \in 0..N
      BY ONLY <1>3, <1>7, <2>1
    <3>2. first <= n /\ n <= first
      BY <1>7, <2>1
    <3> QED
      BY <3>1, <3>2
  <2> QED
    BY <1>5, <2>2
<1>8. CASE turns[t].user # Bot
  <2>1. 0 \in spoken /\ \A k \in spoken : 0 <= k
    BY <1>2, <1>3, <1>6, <1>8
  <2> QED
    BY <1>2, <1>7, <1>8, <2>1
<1>9. CASE turns[t].user = Bot /\ turns[t].parent \in Turns /\ turns[turns[t].parent].user # Bot
  <2>1. 1 \in 1..N /\ 1 - 1 = 0
    BY <1>6
  <2>2. f[1] = turns[t].parent
    BY <1>2, <1>6, <1>9, <2>1 DEF Onward, Before
  <2>3. f[1] # None
    BY <1>9, <2>2 DEF Turns, None
  <2>4. 1 \in spoken /\ \A k \in spoken : 1 <= k
    BY <1>2, <1>3, <1>9, <2>1, <2>2, <2>3
  <2> QED
    BY <1>7, <1>9, <2>2, <2>4
<1> QED
  BY <1>8, <1>9
-----------------------------------------------------------------------------
(* The order of the turns *)

(* Who spoke last on the way to t: its author or, behind an answer, the author
   of the question.  *)
Speaker(t) == IF turns[t].user # Bot THEN turns[t].user ELSE turns[turns[t].parent].user

Quotes == \A t \in Rows : turns[t].how = "quoted" => turns[t].parent < t

Questions == \A t \in Rows : turns[t].how = "answer" =>
  /\ turns[t].parent \in Rows /\ turns[turns[t].parent].branch = turns[t].branch
  /\ turns[turns[t].parent].how # "answer"
  /\ turns[t].parent # branches[turns[t].branch].head

Continuations == \A t \in Rows : turns[t].how = "continued" =>
  /\ turns[t].parent \in Rows /\ turns[turns[t].parent].branch = turns[t].branch
  /\ Speaker(turns[t].parent) = turns[t].user

Spliced == \A a, t \in Rows :
  turns[a].how = "answer" /\ turns[t].how = "continued" /\ turns[t].branch = turns[a].branch
    => turns[t].parent # turns[a].parent

InPlace == Quotes /\ Questions /\ Continuations /\ Spliced

LEMMA LiveSpeaker ==
  ASSUME Shape, Links, Questions, NEW t \in Turns
  PROVE  LastSpeaker(t) = Speaker(t)
<1>1. Len(turns) \in Nat
  BY DEF Shape
<1>2. CASE turns[t].user # Bot
  BY <1>1, <1>2, SpeakerFound DEF Speaker
<1>3. CASE turns[t].user = Bot
  <2>1. t \in Rows /\ turns[t].how = "answer"
    BY <1>3 DEF Turns, Rows, Links
  <2>2. turns[t].parent \in Turns /\ turns[turns[t].parent].user # Bot
    BY <2>1 DEF Questions, Turns, Rows, Links
  <2> QED
    BY <1>1, <1>3, <2>2, SpeakerFound DEF Speaker
<1> QED
  BY <1>2, <1>3

LEMMA SaveKeepsPlace ==
  ASSUME Shape, Links, InPlace, NEW m \in Msgs, NEW b, NEW parent, NEW how,
         SaveArgs(b, parent, how), Save(m, b, parent, how),
         how = "quoted" => parent \in Turns,
         how = "continued" => /\ b \in live /\ parent = branches[b].head
                              /\ LastSpeaker(parent) = author[m]
  PROVE  InPlace'
<1> PICK n \in Nat : n = Len(turns)
  BY DEF Shape
<1>1. PICK here :
        /\ SavedTurn(here, m, parent, how)
        /\ \/ here = Len(branches) + 1 /\ Forked(m, b) /\ Forks(b, parent)
           \/ here = b /\ Continued(b)
  BY SaveEffect
<1>2. /\ Rows = 1..n /\ Rows' = Rows \cup {n + 1} /\ n + 1 \notin Rows
      /\ \A t \in Rows : turns'[t] = turns[t]
      /\ turns'[n + 1].branch = here /\ turns'[n + 1].parent = parent
      /\ turns'[n + 1].user = author[m] /\ turns'[n + 1].how = how
      /\ how # "answer"
  BY <1>1 DEF SavedTurn, Rows, SaveArgs
<1>3. \A c \in Branches : branches'[c].head \in {branches[c].head, n + 1}
  <2>1. \A c \in Branches : branches[c] \in BranchRow
    BY DEF Shape, Branches
  <2> QED
    BY <1>1, <2>1 DEF Forked, Continued, BranchRow
<1>4. \A t \in Rows : turns[t].branch \in Branches
  BY DEF Links
<1>5. Quotes'
  BY <1>2 DEF InPlace, Quotes, Turns
<1>6. Questions'
  BY <1>2, <1>3, <1>4 DEF InPlace, Questions
<1>7. \A t \in Rows : Speaker(t)' = Speaker(t)
  BY <1>2 DEF Speaker, InPlace, Questions, Links
<1>8. how = "continued" =>
        /\ here = b /\ parent \in Rows /\ turns[parent].branch = b
        /\ parent = branches[b].head /\ Speaker(parent) = author[m]
  <2> SUFFICES ASSUME how = "continued"
               PROVE  /\ here = b /\ parent \in Rows /\ turns[parent].branch = b
                      /\ parent = branches[b].head /\ Speaker(parent) = author[m]
    OBVIOUS
  <2>0. b \in live /\ parent = branches[b].head
    OBVIOUS
  <2>1. b \in live /\ b # None /\ b \in Branches /\ parent = branches[b].head
    BY <2>0 DEF Shape, Branches, None
  <2>2. here = b
    BY <1>1, <2>1 DEF Forks
  <2>3. parent \in Rows /\ turns[parent].branch = b /\ parent \in Turns
    BY <2>1 DEF Links, Turns, Rows
  <2> QED
    BY <2>1, <2>2, <2>3, LiveSpeaker DEF InPlace
<1>9. Continuations'
  BY <1>2, <1>7, <1>8 DEF InPlace, Continuations
<1>10. Spliced'
  BY <1>2, <1>8 DEF InPlace, Questions, Spliced
<1> QED
  BY <1>5, <1>6, <1>9, <1>10 DEF InPlace

LEMMA AnswerKeepsPlace ==
  ASSUME Shape, Links, InPlace, NEW m \in Msgs, Answer(m)
  PROVE  InPlace'
<1> PICK n \in Nat : n = Len(turns)
  BY DEF Shape
<1> PICK q : q = route[m]
  OBVIOUS
<1> PICK b : b = turns[q].branch
  OBVIOUS
<1>1. AnswerTables(m)
  BY AnswerEffect
<1>2. /\ Rows = 1..n /\ Rows' = Rows \cup {n + 1} /\ n + 1 \notin Rows
      /\ q \in Rows /\ b \in Branches /\ turns[q].how # "answer" /\ turns[q].user # Bot
      /\ turns'[n + 1].branch = b /\ turns'[n + 1].parent = q
      /\ turns'[n + 1].user = Bot /\ turns'[n + 1].how = "answer"
  BY <1>1 DEF AnswerTables, Rows, Links
<1>3. ASSUME NEW t \in Rows
      PROVE  /\ turns'[t].branch = turns[t].branch
             /\ turns'[t].user = turns[t].user
             /\ turns'[t].how = turns[t].how
             /\ Moves(t, q) => turns'[t].parent = n + 1
             /\ ~Moves(t, q) => turns'[t].parent = turns[t].parent
             /\ turns[t].branch \in Branches
  BY <1>1 DEF AnswerTables, Links
<1>4. \A c \in Branches : \/ branches'[c].head = n + 1
                          \/ branches'[c].head = branches[c].head /\ (c = b => branches[c].head # q)
  BY <1>1 DEF AnswerTables
<1>5. \A t \in Rows : Moves(t, q) <=> turns[t].parent = q /\ turns[t].branch = b
                                      /\ turns[t].how = "continued"
  BY DEF Moves
<1>6. Quotes'
  BY <1>2, <1>3, <1>5 DEF InPlace, Quotes
<1>7. Questions'
  <2>1. ASSUME NEW t \in Rows, turns[t].how = "answer"
        PROVE  /\ turns'[t].parent = turns[t].parent /\ turns[t].parent \in Rows
               /\ turns[turns[t].parent].branch = turns[t].branch
               /\ turns[turns[t].parent].how # "answer"
               /\ turns[t].parent # branches'[turns[t].branch].head
    BY <1>2, <1>3, <1>4, <1>5, <2>1 DEF InPlace, Questions
  <2>2. q # branches'[b].head
    BY <1>2, <1>4
  <2> QED
    BY <1>2, <1>3, <2>1, <2>2 DEF Questions
<1>8. \A t \in Rows : Speaker(t)' = Speaker(t)
  BY <1>2, <1>3, <1>5 DEF Speaker, InPlace, Questions, Links
<1>9. Speaker(n + 1)' = Speaker(q)
  BY <1>2, <1>3 DEF Speaker
<1>10. Continuations'
  BY <1>2, <1>3, <1>5, <1>8, <1>9 DEF InPlace, Continuations
<1>11. Spliced'
  BY <1>2, <1>3, <1>5 DEF InPlace, Questions, Spliced
<1> QED
  BY <1>6, <1>7, <1>10, <1>11 DEF InPlace

LEMMA PlaceStep == Shape /\ Links /\ InPlace /\ [ContextNext]_contextVars => InPlace'
<1> SUFFICES ASSUME Shape, Links, InPlace, [ContextNext]_contextVars PROVE InPlace'
  OBVIOUS
<1>1. ASSUME NEW m \in Msgs, RouteAlone(m) \/ RouteQuotation(m) \/ RouteContinuation(m)
      PROVE  InPlace'
  BY <1>1, Routings, SaveKeepsPlace
<1>2. ASSUME NEW m \in Msgs, Answer(m) PROVE InPlace'
  BY <1>2, AnswerKeepsPlace
<1>3. CASE UNCHANGED <<turns, branches>>
  BY <1>3 DEF InPlace, Quotes, Questions, Continuations, Spliced, Speaker, Rows
<1>4. ASSUME NEW m \in Msgs, Unanswered(m) PROVE UNCHANGED <<turns, branches>>
  BY <1>4 DEF Unanswered, tree
<1>5. CASE (\E u \in Users : ClearUser(u)) \/ ClearGroup \/ UNCHANGED contextVars
  BY <1>3, <1>5 DEF ClearUser, ClearGroup, Delete, contextVars
<1> QED
  BY <1>1, <1>2, <1>3, <1>4, <1>5 DEF ContextNext

LEMMA InitPlace == ContextInit => InPlace
<1> SUFFICES ASSUME ContextInit PROVE InPlace
  OBVIOUS
<1>1. Rows = {}
  BY DEF ContextInit, Rows
<1> QED
  BY <1>1 DEF InPlace, Quotes, Questions, Continuations, Spliced

(* A late answer is in the history of the continuations of its question, and
   not between a quotation and the quoted message.  *)
THEOREM AnswersInPlace == ContextSpec => []AnswerInPlace
<1>1. Shape /\ Links /\ InPlace => AnswerInPlace
  <2> SUFFICES ASSUME Shape, Links, InPlace, NEW a \in Answers, NEW t \in Turns
               PROVE  /\ turns[t].how = "continued" /\ turns[t].branch = turns[a].branch
                           => turns[t].parent # turns[a].parent
                      /\ turns[t].how = "quoted" /\ turns[t].parent = a => a < t
    BY DEF AnswerInPlace
  <2>1. a \in Rows /\ t \in Rows /\ turns[a].how = "answer"
    BY DEF Answers, Turns, Rows, Links
  <2> QED
    BY <2>1 DEF InPlace, Quotes, Spliced
<1> QED
  BY <1>1, InitShape, StepKeepsShape, InitPlace, PlaceStep, PTL DEF ContextSpec

(* A continuation follows words of its own author. *)
THEOREM OwnWordsContinued == ContextSpec => []OwnContinuation
<1>1. Shape /\ Links /\ InPlace => OwnContinuation
  <2> SUFFICES ASSUME Shape, Links, InPlace, NEW t \in Turns, turns[t].how = "continued"
               PROVE  Before(t) # None /\ LastSpeaker(Before(t)) = turns[t].user
    BY DEF OwnContinuation
  <2>1. /\ turns[t].parent \in Turns /\ turns[t].parent # None
        /\ Speaker(turns[t].parent) = turns[t].user
    BY DEF InPlace, Continuations, Turns, Rows, None
  <2> QED
    BY <2>1, LiveSpeaker DEF Before, InPlace
<1> QED
  BY <1>1, InitShape, StepKeepsShape, InitPlace, PlaceStep, PTL DEF ContextSpec
-----------------------------------------------------------------------------
(* What a branch keeps.  A set that holds the head of a branch, and with a turn
   of the branch the turn before it on the same branch, holds every message of
   the branch.  *)

ClosedOn(S, b) == \A s \in S :
  /\ turns[s].branch = b
  /\ turns[s].parent \in Rows /\ turns[turns[s].parent].branch = b
  => turns[s].parent \in S

Whole == \A b \in Branches : \A S \in SUBSET Rows :
  branches[b].head \in S /\ ClosedOn(S, b)
    => \A t \in Rows : turns[t].branch = b /\ turns[t].user # Bot => t \in S

LEMMA SaveKeepsWhole ==
  ASSUME Shape, Links, Whole, NEW m \in Msgs, NEW b, NEW parent, NEW how,
         SaveArgs(b, parent, how), Save(m, b, parent, how)
  PROVE  Whole'
<1> PICK n \in Nat : n = Len(turns)
  BY DEF Shape
<1> PICK k \in Nat : k = Len(branches)
  BY DEF Shape
<1>1. PICK here :
        /\ SavedTurn(here, m, parent, how)
        /\ \/ here = k + 1 /\ Forked(m, b)
           \/ here = b /\ Continued(b) /\ parent = branches[b].head
  BY SaveEffect
<1>2. /\ Rows = 1..n /\ Rows' = Rows \cup {n + 1} /\ n + 1 \notin Rows
      /\ \A t \in Rows : turns'[t] = turns[t]
      /\ turns'[n + 1].branch = here /\ turns'[n + 1].parent = parent
  BY <1>1 DEF SavedTurn, Rows
<1>3. k + 1 \notin Branches /\ Branches = 1..k
  BY DEF Branches
<1>4. here = b => /\ b \in Branches /\ parent = branches[b].head
                  /\ branches'[b].head = n + 1 /\ Branches' = Branches
                  /\ \A c \in Branches \ {b} : branches'[c] = branches[c]
  <2> SUFFICES ASSUME here = b
               PROVE  /\ b \in Branches /\ parent = branches[b].head
                      /\ branches'[b].head = n + 1 /\ Branches' = Branches
                      /\ \A c \in Branches \ {b} : branches'[c] = branches[c]
    OBVIOUS
  <2>1. here = k + 1 => FALSE
    BY <1>3 DEF SaveArgs, Shape, None
  <2>2. Continued(b) /\ parent = branches[b].head
    BY <1>1, <2>1
  <2>3. branches[b] \in BranchRow
    BY <2>2 DEF Continued, Shape, Branches
  <2> QED
    BY <2>2, <2>3 DEF Continued, Branches, BranchRow
<1>5. here # b => /\ here = k + 1 /\ Branches' = Branches \cup {here}
                  /\ branches'[here].head = n + 1
                  /\ \A c \in Branches : branches'[c] = branches[c]
  BY <1>1 DEF Forked, Branches
<1> SUFFICES ASSUME NEW c \in Branches', NEW S \in SUBSET Rows',
                    branches'[c].head \in S, ClosedOn(S, c)',
                    NEW t \in Rows', turns'[t].branch = c, turns'[t].user # Bot
             PROVE  t \in S
  BY DEF Whole
<1> PICK T : T = S \ {n + 1}
  OBVIOUS
<1>6. T \in SUBSET Rows
  BY <1>2
<1>7. ClosedOn(T, c)
  BY <1>2, <1>6 DEF ClosedOn
<1>8. CASE c = here
  <2>1. n + 1 \in S
    BY <1>4, <1>5, <1>8
  <2>2. CASE here = b
    <3>1. branches[b].head \in T
      BY <1>2, <1>4, <1>8, <2>1, <2>2 DEF Links, ClosedOn
    <3>2. t \in Rows => t \in T
      BY <1>2, <1>4, <1>6, <1>7, <1>8, <2>2, <3>1 DEF Whole
    <3> QED
      BY <1>2, <2>1, <3>2
  <2>3. CASE here # b
    <3>1. t \notin Rows
      BY <1>2, <1>3, <1>5, <1>8, <2>3 DEF Links
    <3> QED
      BY <1>2, <2>1, <3>1
  <2> QED
    BY <2>2, <2>3
<1>9. CASE c # here
  <2>1. c \in Branches /\ branches'[c] = branches[c]
    BY <1>4, <1>5, <1>9
  <2>2. branches[c].head \in T /\ t \in Rows
    BY <1>2, <1>9, <2>1 DEF Links
  <2> QED
    BY <1>2, <1>6, <1>7, <2>1, <2>2 DEF Whole
<1> QED
  BY <1>8, <1>9

LEMMA AnswerKeepsWhole ==
  ASSUME Shape, Links, Whole, NEW m \in Msgs, Answer(m)
  PROVE  Whole'
<1> PICK n \in Nat : n = Len(turns)
  BY DEF Shape
<1> PICK q : q = route[m]
  OBVIOUS
<1> PICK b : b = turns[q].branch
  OBVIOUS
<1>1. AnswerTables(m)
  BY AnswerEffect
<1>2. /\ Rows = 1..n /\ Rows' = Rows \cup {n + 1} /\ n + 1 \notin Rows /\ Branches' = Branches
      /\ q \in Rows /\ b \in Branches
      /\ turns'[n + 1].branch = b /\ turns'[n + 1].parent = q /\ turns'[n + 1].user = Bot
  BY <1>1 DEF AnswerTables, Rows, Branches
<1>3. ASSUME NEW t \in Rows
      PROVE  /\ turns'[t].branch = turns[t].branch
             /\ turns'[t].user = turns[t].user
             /\ \/ turns'[t].parent = turns[t].parent
                \/ /\ turns'[t].parent = n + 1 /\ turns[t].parent = q
                   /\ turns[t].branch = b
  BY <1>1 DEF AnswerTables, Moves
<1>4. \A c \in Branches : \/ branches'[c].head = branches[c].head
                          \/ branches'[c].head = n + 1 /\ c = b /\ branches[b].head = q
  BY <1>1 DEF AnswerTables
<1> SUFFICES ASSUME NEW c \in Branches', NEW S \in SUBSET Rows',
                    branches'[c].head \in S, ClosedOn(S, c)',
                    NEW t \in Rows', turns'[t].branch = c, turns'[t].user # Bot
             PROVE  t \in S
  BY DEF Whole
<1>c. c \in Branches
  BY <1>2
<1> PICK T : T = S \ {n + 1}
  OBVIOUS
<1>5. T \in SUBSET Rows
  BY <1>2
<1>6. n + 1 \in S /\ c = b => q \in T
  BY <1>2, <1>3 DEF ClosedOn
<1>7. ClosedOn(T, c)
  <2> SUFFICES ASSUME NEW s \in T, turns[s].branch = c,
                      turns[s].parent \in Rows, turns[turns[s].parent].branch = c
               PROVE  turns[s].parent \in T
    BY DEF ClosedOn
  <2>1. s \in Rows /\ s \in S /\ turns'[s].branch = c
    BY <1>3, <1>5
  <2>2. CASE turns'[s].parent = turns[s].parent
    BY <1>2, <1>3, <2>1, <2>2 DEF ClosedOn
  <2>3. CASE turns'[s].parent = n + 1 /\ turns[s].parent = q /\ turns[s].branch = b
    BY <1>2, <1>6, <2>1, <2>3 DEF ClosedOn
  <2> QED
    BY <1>3, <2>1, <2>2, <2>3
<1>8. branches[c].head \in T
  BY <1>c, <1>2, <1>4, <1>6 DEF Links
<1>9. t \in Rows
  BY <1>2
<1> QED
  BY <1>c, <1>3, <1>5, <1>7, <1>8, <1>9 DEF Whole

LEMMA WholeStep == Shape /\ Links /\ Whole /\ [ContextNext]_contextVars => Whole'
<1> SUFFICES ASSUME Shape, Links, Whole, [ContextNext]_contextVars PROVE Whole'
  OBVIOUS
<1>1. ASSUME NEW m \in Msgs, RouteAlone(m) \/ RouteQuotation(m) \/ RouteContinuation(m)
      PROVE  Whole'
  BY <1>1, Routings, SaveKeepsWhole
<1>2. ASSUME NEW m \in Msgs, Answer(m) PROVE Whole'
  BY <1>2, AnswerKeepsWhole
<1>3. CASE UNCHANGED <<turns, branches>>
  BY <1>3 DEF Whole, ClosedOn, Rows, Branches
<1>4. ASSUME NEW m \in Msgs, Unanswered(m) PROVE UNCHANGED <<turns, branches>>
  BY <1>4 DEF Unanswered, tree
<1>5. CASE (\E u \in Users : ClearUser(u)) \/ ClearGroup \/ UNCHANGED contextVars
  BY <1>3, <1>5 DEF ClearUser, ClearGroup, Delete, contextVars
<1> QED
  BY <1>1, <1>2, <1>3, <1>4, <1>5 DEF ContextNext

(* Nothing that was said on a branch is missing on the path to its head. *)
THEOREM BranchForgetsNothing == ContextSpec => []NothingForgotten
<1>1. ContextInit => Whole
  <2> SUFFICES ASSUME ContextInit PROVE Branches = {}
    BY DEF Whole
  <2> QED
    BY DEF ContextInit, Branches
<1>2. Shape /\ Links /\ Whole => NothingForgotten
  <2> SUFFICES ASSUME Shape, Links, Whole, NEW b \in live, NEW t \in Said(b)
               PROVE  t \in CausalTurns(branches[b].head)
    BY DEF NothingForgotten
  <2> PICK h : h = branches[b].head
    OBVIOUS
  <2>1. Len(turns) \in Nat /\ b \in Branches /\ h \in Turns
    BY DEF Shape, Links, Turns, Rows
  <2> PICK S : S = CausalTurns(h)
    OBVIOUS
  <2>2. /\ h \in S /\ S \subseteq Turns
        /\ \A s \in S : Before(s) # None => Before(s) \in S
    BY <2>1, CausalClosed
  <2>3. S \in SUBSET Rows
    BY <2>2 DEF Turns, Rows
  <2>4. ClosedOn(S, b)
    BY <2>2 DEF ClosedOn, Before, Turns, Rows, None
  <2>5. t \in Rows /\ turns[t].branch = b /\ turns[t].user # Bot
    BY DEF Said, Turns, Rows
  <2> QED
    BY <2>1, <2>2, <2>3, <2>4, <2>5 DEF Whole
<1> QED
  BY <1>1, <1>2, WholeStep, InitShape, StepKeepsShape, PTL DEF ContextSpec
-----------------------------------------------------------------------------
(* #clear *)

(* A path is determined by where it begins and by the turns before the turns on
   it.  *)
LEMMA OnePath ==
  ASSUME Len(turns) \in Nat, NEW t, NEW f, NEW g,
         PathOf(t, f), g \in [0..Len(turns) -> Nat], g[0] = t,
         \A n \in 1..Len(turns) : f[n - 1] = g[n - 1] => f[n] = g[n]
  PROVE  f = g
<1> PICK N \in Nat : N = Len(turns)
  OBVIOUS
<1>1. f \in [0..N -> {None} \cup Turns] /\ f[0] = t
  BY DEF PathOf
<1> DEFINE K == {n \in Nat : n <= N => f[n] = g[n]}
<1>2. 0 \in K
  BY <1>1
<1>3. \A n \in Nat : n \in K => n + 1 \in K
  <2> SUFFICES ASSUME NEW n \in Nat, n \in K, n + 1 <= N PROVE f[n + 1] = g[n + 1]
    OBVIOUS
  <2>1. n + 1 \in 1..N /\ (n + 1) - 1 = n /\ f[n] = g[n]
    OBVIOUS
  <2> QED
    BY <2>1
<1>4. \A n \in Nat : n \in K
  <2> HIDE DEF K
  <2> QED
    BY <1>2, <1>3, SetInduction
<1> QED
  BY <1>1, <1>4

(* What a user may clear hangs together: nothing that stays hangs on it. *)
LEMMA DeletableClosed ==
  ASSUME NEW u
  PROVE  Deletable(u) \subseteq Owned(u) /\ \A b \in Deletable(u) : Children(b) \subseteq Deletable(u)
BY DEF Deletable

LEMMA ClearSpares ==
  ASSUME Shape, Links, NEW u \in Users, ClearUser(u),
         NEW t \in Turns, turns[t].user \in Users \ {u}
  PROVE  t \in Turns' /\ History(t)' = History(t)
<1> PICK N \in Nat : N = Len(turns)
  BY DEF Shape
<1> PICK gone : gone = Deletable(u)
  OBVIOUS
<1>1. /\ UNCHANGED turns /\ live' = live \ gone
      /\ gone \subseteq Owned(u) /\ \A b \in gone : Children(b) \subseteq gone
  BY DeletableClosed DEF ClearUser, Delete
<1>2. Turns' = {s \in Turns : turns[s].branch \notin gone}
  BY <1>1 DEF Turns
<1>3. t \in Turns'
  <2>1. turns[t].user # Bot
    BY ContextAssumption
  <2>2. turns[t].branch \notin gone
    BY <1>1, <2>1 DEF Owned, Said
  <2> QED
    BY <1>2, <2>2
<1>4. \A s \in Turns' : Before(s) # None => Before(s) \in Turns'
  <2> SUFFICES ASSUME NEW s \in Turns', Before(s) # None, Before(s) \notin Turns' PROVE FALSE
    OBVIOUS
  <2>1. /\ s \in Turns /\ turns[s].branch \notin gone
        /\ turns[s].parent \in Turns /\ turns[turns[s].parent].branch \in gone
    BY <1>2 DEF Before
  <2>2. turns[s].branch \in Children(turns[turns[s].parent].branch)
    BY <2>1 DEF Children
  <2> QED
    BY <1>1, <2>1, <2>2
<1>5. \A s \in Turns' : Before(s)' = Before(s)
  BY <1>1, <1>2, <1>4 DEF Before
<1>6. PICK f : f = Path(t) /\ PathOf(t, f)
  BY Paths DEF PathsAreSuch
<1>7. PICK g : g = Path(t)' /\ PathOf(t, g)'
  <2>1. Len(turns)' \in Nat
    BY <1>1
  <2>2. PathsAreSuch'
    BY Paths, PTL
  <2> QED
    BY <1>3, <2>1, <2>2 DEF PathsAreSuch
<1>8. f = g
  <2>1. /\ g \in [0..N -> {None} \cup Turns'] /\ g[0] = t
        /\ \A n \in 1..N : g[n] = Onward(g[n - 1])'
    BY <1>1, <1>7 DEF PathOf
  <2>2. g \in [0..N -> Nat]
    BY <2>1, <1>2 DEF Turns, None
  <2>3. \A n \in 1..N : f[n] = Onward(f[n - 1])
    BY <1>6 DEF PathOf
  <2>4. ASSUME NEW n \in 1..N, f[n - 1] = g[n - 1] PROVE f[n] = g[n]
    <3>1. g[n - 1] \in {None} \cup Turns'
      BY <2>1
    <3> QED
      BY <1>5, <2>1, <2>3, <2>4, <3>1 DEF Onward
  <2> QED
    BY <1>6, <2>1, <2>2, <2>4, OnePath
<1>9. CausalTurns(t)' = CausalTurns(t)
  BY <1>6, <1>7, <1>8 DEF CausalTurns
<1> QED
  BY <1>3, <1>9 DEF History

(* Whatever a user clears, the other users' messages keep their histories. *)
THEOREM ClearsSpareOthers == ContextSpec => ClearSparesOthers
<1>1. Shape /\ Links /\ [ContextNext]_contextVars =>
        [\A u \in Users : ClearUser(u) =>
           \A t \in Turns : turns[t].user \in Users \ {u} =>
             t \in Turns' /\ History(t)' = History(t)]_contextVars
  BY ClearSpares
<1> QED
  BY <1>1, InitShape, StepKeepsShape, PTL DEF ContextSpec, ClearSparesOthers
-----------------------------------------------------------------------------
(***************************************************************************)
(* Schedules: OncePerDay and RemindedOnce for every set of reminders and   *)
(* every value of the bounds.  The module shares no state with the one     *)
(* above.                                                                  *)
(*                                                                         *)
(* Both count the messages sent since the last record of one and compare   *)
(* them with the disturbances that can separate a message from its record. *)
(* The invariants say when a disturbance is already in progress: a daily   *)
(* message under way for a day that is not marked, a reminder whose record *)
(* will find no row, an edit that an admin has read and will save.         *)
(***************************************************************************)

(* The part of TypeOK that the counting rests on; an open draft is an edit. *)
Types == /\ today \in BOOLEAN
         /\ items \subseteq Daily \cup Reminders
         /\ sending \in items \cup {Nobody}
         /\ lastSent \in [Daily -> BOOLEAN]
         /\ count \in [Daily -> Nat]
         /\ state \in [Reminders -> {"on", "off", "gone"}]
         /\ lease \in [Reminders -> Int]
         /\ unmarked \in [Reminders -> Nat]
         /\ unrecorded \in [Daily \cup Reminders -> Nat]
         /\ draft = [task |-> draft.task, next |-> draft.next]
         /\ crashes \in Nat /\ edits \in Nat
         /\ draft.task # Nobody => edits > 0

(* What one daily message has used up of its allowance. *)
DayOK(d) == /\ count[d] <= 1 + crashes + unrecorded[d]
            /\ ~lastSent[d] /\ sending # d => count[d] <= crashes + unrecorded[d]
            /\ ~today => count[d] = 0 /\ ~lastSent[d]
            /\ d \in items /\ today /\ sending # d => ~lastSent[d]

DailyOK == \A d \in Daily : DayOK(d)

(* The record of a claimed reminder will not find its row. *)
Lost(r) == IF r \in items /\ (state[r] = "gone" \/ (r \in mine /\ lease[r] = NoLease))
           THEN 1 ELSE 0

(* An admin has read the reminder and will save it. *)
Open(r) == IF draft.task = r THEN 1 ELSE 0

UnderWay(r) == IF sending = r THEN 1 ELSE 0

TaskOK(r) ==
  unmarked[r] + Lost(r) + Open(r) <= crashes + edits + unrecorded[r] + UnderWay(r)

TasksOK == \A r \in Reminders : TaskOK(r)

IInv == Types /\ DailyOK /\ TasksOK

LEMMA Names == /\ "report" \in Daily /\ "countdown" \in Daily
               /\ Nobody \notin Daily /\ Nobody \notin Reminders
               /\ \A r \in Reminders : r \notin Daily
  BY ScheduleAssumption DEF ScheduleAssumption, Daily, Nobody

LEMMA InitOK == Init => IInv
  <1> SUFFICES ASSUME Init PROVE IInv
    OBVIOUS
  <1>1. Types
    BY DEF Init, Types, NoDraft, NoLease
  <1>2. DailyOK
    BY Names DEF Init, DailyOK, DayOK
  <1>3. ASSUME NEW r \in Reminders PROVE TaskOK(r)
    BY Names DEF Init, TaskOK, Lost, Open, UnderWay, NoDraft
  <1> QED
    BY <1>1, <1>2, <1>3 DEF IInv, TasksOK

-----------------------------------------------------------------------------
(* The counted part of the state is as it was. *)
Same == /\ today' = today /\ items' = items /\ sending' = sending
        /\ lastSent' = lastSent /\ count' = count /\ state' = state
        /\ lease' = lease /\ mine' = mine /\ unmarked' = unmarked /\ draft' = draft
        /\ unrecorded' = unrecorded /\ crashes' = crashes /\ edits' = edits

LEMMA SameOK == IInv /\ Same => IInv'
  BY DEF IInv, Types, DailyOK, DayOK, TasksOK, TaskOK, Lost, Open, UnderWay, Same

LEMMA FrameSteps ==
  ASSUME Poll \/ EndTick \/ Restart \/ UNCHANGED vars PROVE Same
  BY DEF Poll, EndTick, Restart, vars, Same, bounds, table, sent

(* A job begins: nothing is under way, and what it will send is wanted. *)
LEMMA RunDailyOK ==
  ASSUME IInv, NEW d \in Daily, RunDaily(d) PROVE IInv'
  <1>1. /\ items = {} /\ sending = Nobody /\ sending' = sending /\ today' = TRUE
        /\ items' \subseteq {d} /\ (d \in items' => ~lastSent[d])
        /\ lastSent' = lastSent /\ count' = count /\ state' = state /\ lease' = lease
        /\ mine' = mine /\ unmarked' = unmarked /\ draft' = draft
        /\ unrecorded' = unrecorded /\ crashes' = crashes /\ edits' = edits
    BY DEF RunDaily, Started, Wanted, IInv, Types, bounds, sent
  <1>2. Types'
    BY <1>1 DEF IInv, Types
  <1>3. ASSUME NEW e \in Daily PROVE DayOK(e)'
    BY <1>1, Names DEF IInv, Types, DailyOK, DayOK
  <1>4. ASSUME NEW r \in Reminders PROVE TaskOK(r)'
    BY <1>1, Names DEF IInv, Types, TasksOK, TaskOK, Lost, Open, UnderWay
  <1> QED
    BY <1>2, <1>3, <1>4 DEF IInv, DailyOK, TasksOK

LEMMA RunRemindersOK ==
  ASSUME IInv, RunReminders PROVE IInv'
  <1>1. /\ items = {} /\ sending = Nobody /\ sending' = sending /\ today' = TRUE
        /\ items' \subseteq {r \in Reminders : state[r] = "on"}
        /\ lastSent' = lastSent /\ count' = count /\ state' = state
        /\ lease' = [r \in Reminders |-> IF r \in items' THEN Lease ELSE lease[r]]
        /\ unmarked' = unmarked /\ draft' = draft
        /\ unrecorded' = unrecorded /\ crashes' = crashes /\ edits' = edits
    BY DEF RunReminders, Started, Claimable, IInv, Types, bounds, sent
  <1>2. Types'
    BY <1>1, ScheduleAssumption DEF ScheduleAssumption, IInv, Types
  <1>3. ASSUME NEW e \in Daily PROVE DayOK(e)'
    BY <1>1, Names DEF IInv, Types, DailyOK, DayOK
  <1>4. ASSUME NEW r \in Reminders PROVE TaskOK(r)'
    <2>1. Lost(r) = 0
      BY <1>1 DEF Lost
    <2>2. Lost(r)' = 0
      BY <1>1, ScheduleAssumption DEF ScheduleAssumption, Lost, NoLease
    <2> QED
      BY <1>1, <2>1, <2>2 DEF IInv, Types, TasksOK, TaskOK, Open, UnderWay
  <1> QED
    BY <1>2, <1>3, <1>4 DEF IInv, DailyOK, TasksOK

-----------------------------------------------------------------------------
LEMMA SendOK ==
  ASSUME IInv, NEW i \in Daily \cup Reminders, Send(i) PROVE IInv'
  <1>1. /\ i \in items /\ sending = Nobody /\ sending' = i
        /\ count' = [d \in Daily |-> IF d = i /\ today THEN count[d] + 1 ELSE count[d]]
        /\ unmarked' = [r \in Reminders |-> IF r = i THEN unmarked[r] + 1 ELSE unmarked[r]]
        /\ today' = today /\ items' = items /\ lastSent' = lastSent /\ state' = state
        /\ lease' = lease /\ mine' = mine /\ draft' = draft
        /\ unrecorded' = unrecorded /\ crashes' = crashes /\ edits' = edits
    BY DEF Send, table, bounds
  <1>2. Types'
    BY <1>1 DEF IInv, Types
  <1>3. ASSUME NEW e \in Daily PROVE DayOK(e)'
    BY <1>1, Names DEF IInv, Types, DailyOK, DayOK
  <1>4. ASSUME NEW r \in Reminders PROVE TaskOK(r)'
    <2>1. Lost(r)' = Lost(r) /\ Open(r)' = Open(r)
      BY <1>1 DEF Lost, Open
    <2>2. Lost(r) \in Nat /\ Open(r) \in Nat
      BY DEF Lost, Open
    <2> QED
      BY <1>1, <2>1, <2>2, Names DEF IInv, Types, TasksOK, TaskOK, UnderWay
  <1> QED
    BY <1>2, <1>3, <1>4 DEF IInv, DailyOK, TasksOK

LEMMA SendFailsOK ==
  ASSUME IInv, NEW i \in Daily \cup Reminders, SendFails(i) PROVE IInv'
  <1>1. /\ sending = Nobody /\ sending' = sending /\ items' \subseteq items
        /\ today' = today /\ lastSent' = lastSent /\ count' = count /\ state' = state
        /\ lease' = lease /\ mine' = mine /\ unmarked' = unmarked /\ draft' = draft
        /\ unrecorded' = unrecorded /\ crashes' = crashes /\ edits' = edits
    BY DEF SendFails, table, sent
  <1>2. Types'
    BY <1>1 DEF IInv, Types
  <1>3. ASSUME NEW e \in Daily PROVE DayOK(e)'
    BY <1>1, Names DEF IInv, Types, DailyOK, DayOK
  <1>4. ASSUME NEW r \in Reminders PROVE TaskOK(r)'
    BY <1>1, Names DEF IInv, Types, TasksOK, TaskOK, Lost, Open, UnderWay
  <1> QED
    BY <1>2, <1>3, <1>4 DEF IInv, DailyOK, TasksOK

(* The missing record is counted in the place of the message under way. *)
LEMMA RecordFailsOK ==
  ASSUME IInv, NEW i \in Daily \cup Reminders, RecordFails(i) PROVE IInv'
  <1>1. /\ sending = i /\ sending' = Nobody /\ items' = items \ {i}
        /\ unrecorded' = IF i \in Daily /\ ~today THEN unrecorded
                         ELSE [unrecorded EXCEPT ![i] = unrecorded[i] + 1]
        /\ today' = today /\ lastSent' = lastSent /\ count' = count /\ state' = state
        /\ lease' = lease /\ mine' = mine /\ unmarked' = unmarked /\ draft' = draft
        /\ crashes' = crashes /\ edits' = edits
    BY DEF RecordFails, table
  <1>2. Types'
    BY <1>1 DEF IInv, Types
  <1>3. ASSUME NEW e \in Daily PROVE DayOK(e)'
    BY <1>1, Names DEF IInv, Types, DailyOK, DayOK
  <1>4. ASSUME NEW r \in Reminders PROVE TaskOK(r)'
    <2>1. Open(r)' = Open(r) /\ Lost(r)' <= Lost(r) /\ Lost(r)' \in 0..1 /\ Lost(r) \in 0..1
      BY <1>1 DEF Open, Lost
    <2>2. /\ UnderWay(r)' = 0
          /\ unrecorded'[r] = unrecorded[r] + UnderWay(r)
      BY <1>1, Names DEF UnderWay, IInv, Types
    <2>3. Open(r) \in 0..1 /\ UnderWay(r) \in 0..1 /\ unrecorded[r] \in Nat
      BY DEF Open, UnderWay, IInv, Types
    <2> QED
      BY <1>1, <2>1, <2>2, <2>3 DEF IInv, Types, TasksOK, TaskOK
  <1> QED
    BY <1>2, <1>3, <1>4 DEF IInv, DailyOK, TasksOK

(* The day of the message is marked, unless it has passed. *)
LEMMA MarkDailyOK ==
  ASSUME IInv, NEW d \in Daily, MarkDaily(d) PROVE IInv'
  <1>1. /\ sending = d /\ sending' = Nobody /\ items' = items \ {d}
        /\ lastSent' = [lastSent EXCEPT ![d] = @ \/ today]
        /\ today' = today /\ count' = count /\ state' = state
        /\ lease' = lease /\ mine' = mine /\ unmarked' = unmarked /\ draft' = draft
        /\ unrecorded' = unrecorded /\ crashes' = crashes /\ edits' = edits
    BY DEF MarkDaily, table, bounds, sent
  <1>2. Types'
    BY <1>1 DEF IInv, Types
  <1>3. ASSUME NEW e \in Daily PROVE DayOK(e)'
    BY <1>1, Names DEF IInv, Types, DailyOK, DayOK
  <1>4. ASSUME NEW r \in Reminders PROVE TaskOK(r)'
    BY <1>1, Names DEF IInv, Types, TasksOK, TaskOK, Lost, Open, UnderWay
  <1> QED
    BY <1>2, <1>3, <1>4 DEF IInv, DailyOK, TasksOK

(* The row is found and the count starts again, or it was known to be lost. *)
LEMMA MarkReminderOK ==
  ASSUME IInv, NEW q \in Reminders, NEW n, Recorded(q, n) PROVE IInv'
  <1>1. /\ sending = q /\ sending' = Nobody /\ items' = items \ {q}
        /\ mine' \subseteq mine
        /\ \A r \in Reminders : r # q => (r \in mine' <=> r \in mine)
        /\ \/ /\ Matches(q)
              /\ lease' = [lease EXCEPT ![q] = NoLease]
              /\ unmarked' = [unmarked EXCEPT ![q] = 0]
              /\ unrecorded' = [unrecorded EXCEPT ![q] = 0]
           \/ ~Matches(q) /\ UNCHANGED <<lease, unmarked, unrecorded>>
        /\ today' = today /\ lastSent' = lastSent /\ count' = count
        /\ state' = state /\ draft' = draft
        /\ crashes' = crashes /\ edits' = edits
    BY DEF Recorded
  <1>2. Types'
    BY <1>1 DEF IInv, Types, NoLease
  <1>3. ASSUME NEW e \in Daily PROVE DayOK(e)'
    BY <1>1, Names DEF IInv, Types, DailyOK, DayOK
  <1>4. TaskOK(q)'
    <2>1. /\ Lost(q)' = 0 /\ Open(q)' = Open(q) /\ UnderWay(q)' = 0
          /\ UnderWay(q) = 1 /\ Open(q) \in 0..1
      BY <1>1, Names DEF Lost, Open, UnderWay
    <2>2. unmarked[q] + Lost(q) + Open(q) <= crashes + edits + unrecorded[q] + 1
      BY <2>1 DEF IInv, TasksOK, TaskOK
    <2>3. CASE Matches(q)
      <3>1. unmarked'[q] = 0 /\ unrecorded'[q] = 0
        BY <1>1, <2>3 DEF IInv, Types
      <3>2. Open(q) <= crashes + edits
        BY <1>1, Names, ScheduleAssumption DEF IInv, Types, Open
      <3> QED
        BY <1>1, <2>1, <3>1, <3>2 DEF IInv, Types, TaskOK
    <2>4. CASE ~Matches(q)
      <3>1. Lost(q) = 1
        BY <1>1, <2>4, Names DEF IInv, Types, Lost, Matches
      <3> QED
        BY <1>1, <2>1, <2>2, <2>4, <3>1 DEF IInv, Types, TaskOK
    <2> QED
      BY <2>3, <2>4
  <1>5. ASSUME NEW r \in Reminders, r # q PROVE TaskOK(r)'
    BY <1>1, <1>5, Names DEF IInv, Types, TasksOK, TaskOK, Lost, Open, UnderWay
  <1> QED
    BY <1>2, <1>3, <1>4, <1>5 DEF IInv, DailyOK, TasksOK

-----------------------------------------------------------------------------
(* An edit may take the row away from the reminder under way: it is counted. *)
LEMMA WorkerEditOK ==
  ASSUME IInv, NEW q \in Reminders, WorkerEdit(q) PROVE IInv'
  <1>1. /\ edits' = edits + 1 /\ mine' = mine \ {q}
        /\ \/ lease' = [lease EXCEPT ![q] = NoLease]
           \/ lease' = lease
        /\ \E s \in {"on", "off", "gone"} : state' = [state EXCEPT ![q] = s]
        /\ today' = today /\ items' = items /\ sending' = sending
        /\ lastSent' = lastSent /\ count' = count /\ unmarked' = unmarked
        /\ draft' = draft /\ unrecorded' = unrecorded /\ crashes' = crashes
    <2>1. state = [state EXCEPT ![q] = state[q]] /\ state[q] \in {"on", "off", "gone"}
      BY DEF IInv, Types
    <2> QED
      BY <2>1 DEF WorkerEdit, sent
  <1>2. Types'
    BY <1>1 DEF IInv, Types, NoLease
  <1>3. ASSUME NEW e \in Daily PROVE DayOK(e)'
    BY <1>1 DEF IInv, DailyOK, DayOK
  <1>4. ASSUME NEW r \in Reminders PROVE TaskOK(r)'
    <2>1. Open(r)' = Open(r) /\ UnderWay(r)' = UnderWay(r)
      BY <1>1 DEF Open, UnderWay
    <2>2. r # q => Lost(r)' = Lost(r)
      BY <1>1 DEF IInv, Types, Lost
    <2>3. Lost(r) \in 0..1 /\ Lost(r)' \in 0..1 /\ Open(r) \in 0..1 /\ UnderWay(r) \in 0..1
      BY DEF Lost, Open, UnderWay
    <2> QED
      BY <1>1, <2>1, <2>2, <2>3 DEF IInv, Types, TasksOK, TaskOK
  <1> QED
    BY <1>2, <1>3, <1>4 DEF IInv, DailyOK, TasksOK

LEMMA AdminReadOK ==
  ASSUME IInv, NEW q \in Reminders, AdminRead(q) PROVE IInv'
  <1>1. /\ draft = NoDraft /\ edits' = edits + 1
        /\ draft' = [task |-> q, next |-> next[q]]
        /\ today' = today /\ items' = items /\ sending' = sending /\ lastSent' = lastSent
        /\ count' = count /\ state' = state /\ lease' = lease /\ mine' = mine
        /\ unmarked' = unmarked /\ unrecorded' = unrecorded /\ crashes' = crashes
    BY DEF AdminRead, worker, table, sent
  <1>2. Types'
    BY <1>1 DEF IInv, Types
  <1>3. ASSUME NEW e \in Daily PROVE DayOK(e)'
    BY <1>1 DEF IInv, DailyOK, DayOK
  <1>4. ASSUME NEW r \in Reminders PROVE TaskOK(r)'
    <2>1. Lost(r)' = Lost(r) /\ UnderWay(r)' = UnderWay(r)
      BY <1>1 DEF Lost, UnderWay
    <2>2. Open(r) = 0 /\ Open(r)' \in 0..1
      BY <1>1, Names DEF Open, NoDraft
    <2>3. Lost(r) \in 0..1 /\ UnderWay(r) \in 0..1
      BY DEF Lost, UnderWay
    <2> QED
      BY <1>1, <2>1, <2>2, <2>3 DEF IInv, Types, TasksOK, TaskOK
  <1> QED
    BY <1>2, <1>3, <1>4 DEF IInv, DailyOK, TasksOK

(* What the save may take away was counted as open. *)
LEMMA AdminSaveOK ==
  ASSUME IInv, AdminSave PROVE IInv'
  <1> PICK q : q = draft.task
    OBVIOUS
  <1>1. /\ draft' = NoDraft
        /\ \/ lease' = [lease EXCEPT ![q] = NoLease]
           \/ lease' = lease
        /\ \E s \in {"on", "off", "gone"} : state' = [state EXCEPT ![q] = s]
        /\ today' = today /\ items' = items /\ sending' = sending /\ mine' = mine
        /\ lastSent' = lastSent /\ count' = count /\ unmarked' = unmarked
        /\ unrecorded' = unrecorded /\ crashes' = crashes /\ edits' = edits
    BY DEF AdminSave, worker, bounds, sent
  <1>2. Types'
    <2>1. state' \in [Reminders -> {"on", "off", "gone"}]
      BY <1>1 DEF IInv, Types
    <2>2. lease' \in [Reminders -> Int]
      BY <1>1 DEF IInv, Types, NoLease
    <2>3. draft' = [task |-> draft'.task, next |-> draft'.next] /\ draft'.task = Nobody
      BY <1>1 DEF NoDraft
    <2> QED
      BY <1>1, <2>1, <2>2, <2>3 DEF IInv, Types
  <1>3. ASSUME NEW e \in Daily PROVE DayOK(e)'
    BY <1>1 DEF IInv, DailyOK, DayOK
  <1>4. ASSUME NEW r \in Reminders PROVE TaskOK(r)'
    <2>1. Open(r)' = 0 /\ UnderWay(r)' = UnderWay(r)
      BY <1>1, Names DEF Open, UnderWay, NoDraft
    <2>2. IF r = q THEN Open(r) = 1 ELSE Lost(r)' = Lost(r) /\ Open(r) = 0
      BY <1>1 DEF IInv, Types, Lost, Open
    <2>3. Lost(r) \in 0..1 /\ Lost(r)' \in 0..1 /\ UnderWay(r) \in 0..1
      BY DEF Lost, UnderWay
    <2> QED
      BY <1>1, <2>1, <2>2, <2>3 DEF IInv, Types, TasksOK, TaskOK
  <1> QED
    BY <1>2, <1>3, <1>4 DEF IInv, DailyOK, TasksOK

(* A crash takes the place of the message under way. *)
LEMMA CrashOK ==
  ASSUME IInv, Crash PROVE IInv'
  <1>1. /\ crashes' = crashes + 1 /\ items' = {} /\ sending' = Nobody
        /\ today' = today /\ lastSent' = lastSent /\ count' = count /\ state' = state
        /\ lease' = lease /\ unmarked' = unmarked /\ draft' = draft /\ edits' = edits
        /\ unrecorded' = unrecorded
    BY DEF Crash, table, sent
  <1>2. Types'
    BY <1>1 DEF IInv, Types
  <1>3. ASSUME NEW e \in Daily PROVE DayOK(e)'
    BY <1>1 DEF IInv, Types, DailyOK, DayOK
  <1>4. ASSUME NEW r \in Reminders PROVE TaskOK(r)'
    <2>1. Open(r)' = Open(r) /\ Lost(r)' = 0 /\ UnderWay(r)' = 0
      BY <1>1, Names DEF Open, UnderWay, Lost
    <2>2. Lost(r) \in 0..1 /\ Open(r) \in 0..1 /\ UnderWay(r) \in 0..1
      BY DEF Lost, Open, UnderWay
    <2> QED
      BY <1>1, <2>1, <2>2 DEF IInv, Types, TasksOK, TaskOK
  <1> QED
    BY <1>2, <1>3, <1>4 DEF IInv, DailyOK, TasksOK

(* At midnight every count starts again and the job under way is of a past day. *)
LEMMA TickOK ==
  ASSUME IInv, Tick PROVE IInv'
  <1>1. /\ today' = (today /\ clock' # 0)
        /\ lastSent' = [d \in Daily |-> lastSent[d] /\ clock' # 0]
        /\ count' = [d \in Daily |-> IF clock' = 0 THEN 0 ELSE count[d]]
        /\ lease' = [r \in Reminders |-> IF lease[r] >= 0 THEN lease[r] - 1 ELSE lease[r]]
        /\ draft' = [draft EXCEPT !.next = Sooner(@)]
        /\ unrecorded' = [i \in Daily \cup Reminders |->
                            IF i \in Daily /\ clock' = 0 THEN 0 ELSE unrecorded[i]]
        /\ items' = items /\ sending' = sending /\ state' = state /\ mine' = mine
        /\ unmarked' = unmarked /\ crashes' = crashes /\ edits' = edits
    BY DEF Tick, SentThatDay
  <1>2. draft'.task = draft.task /\ draft' = [task |-> draft'.task, next |-> draft'.next]
    BY <1>1 DEF IInv, Types
  <1>3. Types'
    BY <1>1, <1>2 DEF IInv, Types
  <1>4. ASSUME NEW e \in Daily PROVE DayOK(e)'
    BY <1>1 DEF IInv, Types, DailyOK, DayOK
  <1>5. ASSUME NEW r \in Reminders PROVE TaskOK(r)'
    <2>1. Open(r)' = Open(r) /\ Lost(r)' = Lost(r) /\ UnderWay(r)' = UnderWay(r)
      BY <1>1, <1>2 DEF IInv, Types, Open, UnderWay, Lost, NoLease
    <2> QED
      BY <1>1, <2>1, Names DEF IInv, TasksOK, TaskOK
  <1> QED
    BY <1>3, <1>4, <1>5 DEF IInv, DailyOK, TasksOK

-----------------------------------------------------------------------------
LEMMA NextOK == IInv /\ [Next]_vars => IInv'
  <1> SUFFICES ASSUME IInv, [Next]_vars PROVE IInv'
    OBVIOUS
  <1>1. CASE Poll \/ EndTick \/ Restart \/ UNCHANGED vars
    BY <1>1, FrameSteps, SameOK
  <1>2. CASE \E d \in Daily : RunDaily(d) \/ MarkDaily(d)
    BY <1>2, RunDailyOK, MarkDailyOK
  <1>3. CASE RunReminders
    BY <1>3, RunRemindersOK
  <1>4. CASE \E i \in Daily \cup Reminders : Send(i) \/ SendFails(i) \/ RecordFails(i)
    BY <1>4, SendOK, SendFailsOK, RecordFailsOK
  <1>5. CASE \E r \in Reminders : MarkReminder(r) \/ CorrectionFails(r)
    BY <1>5, MarkReminderOK DEF MarkReminder, CorrectionFails
  <1>6. CASE \E r \in Reminders : WorkerEdit(r) \/ AdminRead(r)
    BY <1>6, WorkerEditOK, AdminReadOK
  <1>7. CASE AdminSave
    BY <1>7, AdminSaveOK
  <1>8. CASE Crash
    BY <1>8, CrashOK
  <1>9. CASE Tick
    BY <1>9, TickOK
  <1> QED
    BY <1>1, <1>2, <1>3, <1>4, <1>5, <1>6, <1>7, <1>8, <1>9 DEF Next, SchedulerStep

LEMMA Inductive == Spec => []IInv
  <1>1. Init => IInv
    BY InitOK
  <1>2. IInv /\ [Next]_vars => IInv'
    BY NextOK
  <1> QED
    BY <1>1, <1>2, PTL DEF Spec

(* The daily report and the holiday countdown are sent once a day, and once
   more for each crash of the worker and each error that keeps the day from being
   recorded at most, however slow the jobs are. *)
THEOREM DailySafe == Spec => []OncePerDay
  <1>1. IInv => OncePerDay
    BY DEF IInv, DailyOK, DayOK, OncePerDay
  <1> QED
    BY <1>1, Inductive, PTL

(* Between two records of a reminder it is sent once, and once more for each
   crash, edit or failed record at most: leases that run out repeat nothing by
   themselves. *)
THEOREM RemindSafe == Spec => []RemindedOnce
  <1>1. ASSUME IInv, NEW r \in Reminders
        PROVE  unmarked[r] <= 1 + crashes + edits + unrecorded[r]
    <2>1. Lost(r) \in 0..1 /\ Open(r) \in 0..1 /\ UnderWay(r) \in 0..1
      BY DEF Lost, Open, UnderWay
    <2> QED
      BY <1>1, <2>1 DEF IInv, Types, TasksOK, TaskOK
  <1>2. IInv => RemindedOnce
    BY <1>1 DEF RemindedOnce
  <1> QED
    BY <1>2, Inductive, PTL
-----------------------------------------------------------------------------
(* The next time of a reminder.  A day is long enough to meet every hour. *)

LEMMA Remainder ==
  ASSUME NEW D \in Nat \ {0}, NEW q \in Int, NEW r \in 0..(D - 1)
  PROVE  (D * q + r) % D = r
OBVIOUS

LEMMA EveryHourComes ==
  ASSUME NEW D \in Nat \ {0}, NEW c \in Int, NEW w \in 0..(D - 1)
  PROVE  \E j \in 0..(D - 1) : (c + j) % D = w
<1> PICK q \in Int, r \in 0..(D - 1) : q = c \div D /\ r = c % D
  OBVIOUS
<1>1. c = D * q + r
  OBVIOUS
<1>2. CASE r <= w
  <2>1. c + (w - r) = D * q + w /\ w - r \in 0..(D - 1)
    BY <1>1, <1>2
  <2> QED
    BY <2>1, Remainder
<1>3. CASE w < r
  <2>1. D * (q + 1) = D * q + D
    OBVIOUS
  <2>2. c + (w - r + D) = D * (q + 1) + w /\ w - r + D \in 0..(D - 1)
    BY <1>1, <1>3, <2>1
  <2>3. (D * (q + 1) + w) % D = w
    BY Remainder, q + 1 \in Int
  <2> QED
    BY <2>2, <2>3
<1> QED
  BY <1>2, <1>3

(* What adjustToWorkHours returns is the first time that lies in the hours. *)
LEMMA Adjusted ==
  ASSUME NEW n \in Nat, clock \in Nat
  PROVE  /\ AdjustToWorkHours(n) \in n..(n + Day)
         /\ (clock + AdjustToWorkHours(n)) % Day \in WorkHours
<1> PICK S : S = {k \in Nat : n <= k /\ (clock + k) % Day \in WorkHours}
  OBVIOUS
<1>1. PICK h \in S : h <= n + Day
  <2> PICK w \in WorkHours : TRUE
    BY ScheduleAssumption DEF ScheduleAssumption
  <2>1. Day \in Nat \ {0} /\ w \in 0..(Day - 1) /\ clock + n \in Int
    BY ScheduleAssumption DEF ScheduleAssumption
  <2>2. PICK j \in 0..(Day - 1) : ((clock + n) + j) % Day = w
    BY <2>1, EveryHourComes
  <2>3. (clock + n) + j = clock + (n + j) /\ n + j \in Nat /\ n <= n + j /\ n + j <= n + Day
    BY <2>1
  <2>4. (clock + (n + j)) % Day \in WorkHours
    BY <2>2, <2>3
  <2> QED
    BY <2>3, <2>4
<1>2. PICK m \in S : \A k \in S : m <= k
  BY <1>1, LeastNumber
<1>3. /\ m \in n..(n + Day) /\ (clock + m) % Day \in WorkHours
      /\ \A j \in n..(m - 1) : (clock + j) % Day \notin WorkHours
  <2>1. Day \in Nat
    BY ScheduleAssumption DEF ScheduleAssumption
  <2>2. m \in n..(n + Day)
    <3>1. m \in Nat /\ n <= m /\ h \in Nat /\ m <= h
      BY <1>1, <1>2
    <3> QED
      BY <1>1, <2>1, <3>1
  <2>3. \A j \in n..(m - 1) : j \in Nat /\ n <= j /\ j < m
    BY <2>1, <2>2
  <2> QED
    BY <1>2, <2>2, <2>3
<1> QED
  BY ONLY <1>3 DEF AdjustToWorkHours

(* Hence the next time of a reminder is a time in the work hours. *)
LEMMA NextRunInWorkHours ==
  ASSUME clock \in Nat, lag \in Nat, NEW r \in Reminders, next[r] \in Nat
  PROVE  NextRun(r) \in Nat /\ (clock + NextRun(r)) % Day \in WorkHours
<1> PICK plain : plain = IF next[r] > 0 THEN next[r] + Interval
                         ELSE IF Interval > lag THEN Interval - lag ELSE 0
  OBVIOUS
<1>1. plain \in Nat /\ Day \in Nat
  BY ScheduleAssumption DEF ScheduleAssumption
<1>2. NextRun(r) = AdjustToWorkHours(plain)
  BY DEF NextRun, IntervalRun
<1> QED
  BY <1>1, <1>2, Adjusted

-----------------------------------------------------------------------------
(* Types: the tables, and what the worker keeps in memory. *)
TableTypes == /\ state \in [Reminders -> {"on", "off", "gone"}]
              /\ next \in [Reminders -> Nat]
              /\ lease \in [Reminders -> NoLease..Lease]
              /\ draft \in [task : Reminders \cup {Nobody}, next : Nat]
              /\ lastSent \in [Daily -> BOOLEAN]

JobTypes == /\ clock \in 0..(Day - 1) /\ lag \in Nat
            /\ items \subseteq Daily \cup Reminders
            /\ sending \in items \cup {Nobody}
            /\ mine \subseteq Reminders
            /\ up \in BOOLEAN /\ ticking \in BOOLEAN /\ fresh \in BOOLEAN /\ today \in BOOLEAN
            /\ due \subseteq Jobs /\ todo \subseteq Jobs

CountTypes == /\ count \in [Daily -> Nat]
              /\ unmarked \in [Reminders -> Nat]
              /\ unrecorded \in [Daily \cup Reminders -> Nat]
              /\ slow \in 0..MaxSlow /\ crashes \in 0..MaxCrashes
              /\ faults \in 0..MaxFaults /\ edits \in 0..MaxEdits

Typed == TableTypes /\ JobTypes /\ CountTypes

LEMMA TypedParts == TypeOK <=> Typed
BY DEF TypeOK, Typed, TableTypes, JobTypes, CountTypes

LEMMA Leases == /\ NoLease \in NoLease..Lease /\ Lease \in NoLease..Lease
                /\ \A n \in NoLease..Lease : n >= 0 => n - 1 \in NoLease..Lease
BY ScheduleAssumption DEF ScheduleAssumption, NoLease

LEMMA InitTyped == Init => Typed
<1> SUFFICES ASSUME Init PROVE Typed
  OBVIOUS
<1> USE ScheduleAssumption DEF ScheduleAssumption
<1>1. JobTypes
  <2>1. clock \in 0..(Day - 1) /\ lag \in Nat
    BY DEF Init
  <2> QED
    BY <2>1 DEF Init, JobTypes
<1>2. TableTypes
  BY Leases DEF Init, TableTypes, NoDraft
<1>3. CountTypes
  <2>1. slow \in 0..MaxSlow /\ crashes \in 0..MaxCrashes /\ faults \in 0..MaxFaults /\ edits \in 0..MaxEdits
    BY DEF Init
  <2> QED
    BY <2>1 DEF Init, CountTypes
<1> QED
  BY <1>1, <1>2, <1>3 DEF Typed

LEMMA JobsTyped ==
  ASSUME Typed, Poll \/ EndTick \/ Restart \/ RunReminders \/ (\E d \in Daily : RunDaily(d))
  PROVE  Typed'
<1>1. TableTypes'
  <2>1. CASE RunReminders
    BY <2>1, Leases DEF RunReminders, Started, Typed, TableTypes, bounds
  <2>2. CASE ~RunReminders
    BY <2>2 DEF Poll, EndTick, Restart, RunDaily, Started, Typed, TableTypes, table, bounds
  <2> QED
    BY <2>1, <2>2
<1>2. JobTypes'
  <2>1. CASE RunReminders
    <3>1. items' \subseteq Reminders
      BY <2>1 DEF RunReminders, Claimable
    <3> QED
      BY <2>1, <3>1 DEF RunReminders, Started, Typed, JobTypes, bounds
  <2>2. CASE \E d \in Daily : RunDaily(d)
    BY <2>2 DEF RunDaily, Started, Typed, JobTypes, bounds
  <2>3. CASE Poll \/ EndTick \/ Restart
    BY <2>3 DEF Poll, EndTick, Restart, Typed, JobTypes
  <2> QED
    BY <2>1, <2>2, <2>3
<1>3. CountTypes'
  BY DEF Poll, EndTick, Restart, RunReminders, RunDaily, Started, Typed, CountTypes, bounds, sent
<1> QED
  BY <1>1, <1>2, <1>3 DEF Typed

LEMMA MessagesTyped ==
  ASSUME Typed, NEW i \in Daily \cup Reminders,
         Send(i) \/ SendFails(i) \/ RecordFails(i) \/ (i \in Daily /\ MarkDaily(i))
  PROVE  Typed'
<1>1. TableTypes'
  BY DEF Send, SendFails, RecordFails, MarkDaily, Typed, TableTypes, table
<1>2. JobTypes'
  BY DEF Send, SendFails, RecordFails, MarkDaily, Typed, JobTypes
<1>3. CountTypes'
  <2>1. faults' \in 0..MaxFaults
    BY ScheduleAssumption DEF ScheduleAssumption, Send, SendFails, RecordFails, MarkDaily, Typed, CountTypes, bounds, sent
  <2> QED
    BY <2>1 DEF Send, SendFails, RecordFails, MarkDaily, Typed, CountTypes, bounds, sent
<1> QED
  BY <1>1, <1>2, <1>3 DEF Typed

LEMMA RecordTyped ==
  ASSUME Typed, NEW r \in Reminders, MarkReminder(r) \/ CorrectionFails(r) PROVE Typed'
<1>1. PICK n \in Nat : Recorded(r, n)
  <2>1. NextRun(r) \in Nat
    BY NextRunInWorkHours, ScheduleAssumption DEF ScheduleAssumption, Typed, TableTypes, JobTypes
  <2>2. IntervalRun(r) \in Nat
    BY ScheduleAssumption DEF ScheduleAssumption, Typed, TableTypes, JobTypes, IntervalRun
  <2> QED
    BY <2>1, <2>2 DEF MarkReminder, CorrectionFails
<1>2. faults' \in 0..MaxFaults
  BY ScheduleAssumption DEF ScheduleAssumption, MarkReminder, CorrectionFails, Typed, CountTypes
<1>3. TableTypes'
  <2>1. next' \in [Reminders -> Nat]
    BY <1>1 DEF Recorded, Typed, TableTypes
  <2>2. lease' \in [Reminders -> NoLease..Lease]
    BY <1>1, Leases DEF Recorded, Typed, TableTypes
  <2> QED
    BY <1>1, <2>1, <2>2 DEF Recorded, Typed, TableTypes
<1>4. JobTypes'
  BY <1>1 DEF Recorded, Typed, JobTypes
<1>5. CountTypes'
  BY <1>1, <1>2 DEF Recorded, Typed, CountTypes
<1> QED
  BY <1>3, <1>4, <1>5 DEF Typed

LEMMA EditsTyped ==
  ASSUME Typed, (\E r \in Reminders : WorkerEdit(r) \/ AdminRead(r)) \/ AdminSave
  PROVE  Typed'
<1> USE ScheduleAssumption DEF ScheduleAssumption
<1>1. TableTypes'
  <2>1. CASE AdminSave
    <3>1. draft.next \in Nat /\ draft' = NoDraft /\ NoDraft \in [task : Reminders \cup {Nobody}, next : Nat]
      BY <2>1 DEF AdminSave, Typed, TableTypes, NoDraft
    <3>2. state' \in [Reminders -> {"on", "off", "gone"}] /\ next' \in [Reminders -> Nat]
      BY <2>1, <3>1 DEF AdminSave, Typed, TableTypes
    <3>3. lease' \in [Reminders -> NoLease..Lease]
      BY <2>1, Leases DEF AdminSave, Typed, TableTypes
    <3> QED
      BY <2>1, <3>1, <3>2, <3>3 DEF AdminSave, Typed, TableTypes
  <2>2. ASSUME NEW r \in Reminders, WorkerEdit(r) PROVE TableTypes'
    <3>1. state' \in [Reminders -> {"on", "off", "gone"}] /\ next' \in [Reminders -> Nat]
      BY <2>2 DEF WorkerEdit, Typed, TableTypes
    <3>2. lease' \in [Reminders -> NoLease..Lease]
      BY <2>2, Leases DEF WorkerEdit, Typed, TableTypes
    <3> QED
      BY <2>2, <3>1, <3>2 DEF WorkerEdit, Typed, TableTypes
  <2>3. ASSUME NEW r \in Reminders, AdminRead(r) PROVE TableTypes'
    BY <2>3 DEF AdminRead, Typed, TableTypes, table
  <2> QED
    BY <2>1, <2>2, <2>3
<1>2. JobTypes'
  BY DEF WorkerEdit, AdminRead, AdminSave, Typed, JobTypes, worker
<1>3. CountTypes'
  <2>1. edits' \in 0..MaxEdits
    BY DEF WorkerEdit, AdminRead, AdminSave, Typed, CountTypes, bounds, sent
  <2> QED
    BY <2>1 DEF WorkerEdit, AdminRead, AdminSave, Typed, CountTypes, bounds, sent
<1> QED
  BY <1>1, <1>2, <1>3 DEF Typed

LEMMA TimeTyped == ASSUME Typed, Crash \/ Tick PROVE Typed'
<1> USE ScheduleAssumption DEF ScheduleAssumption
<1>1. CASE Crash
  <2>1. crashes' \in 0..MaxCrashes
    BY <1>1 DEF Crash, Typed, CountTypes
  <2> QED
    BY <1>1, <2>1 DEF Crash, Typed, TableTypes, JobTypes, CountTypes, table, sent
<1>2. CASE Tick
  <2>1. clock' \in 0..(Day - 1)
    BY <1>2 DEF Tick, Typed, JobTypes
  <2>2. JobTypes'
    <3>1. lag' \in Nat /\ due' \subseteq Jobs /\ today' \in BOOLEAN
      BY <1>2 DEF Tick, Typed, JobTypes
    <3> QED
      BY <1>2, <2>1, <3>1 DEF Tick, Typed, JobTypes
  <2>3. draft' \in [task : Reminders \cup {Nobody}, next : Nat]
    <3>1. Sooner(draft.next) \in Nat
      BY DEF Typed, TableTypes, Sooner
    <3> QED
      BY <1>2, <3>1 DEF Tick, Typed, TableTypes
  <2>4. lease' \in [Reminders -> NoLease..Lease]
    BY <1>2, Leases DEF Tick, Typed, TableTypes
  <2>5. TableTypes'
    BY <1>2, <2>3, <2>4 DEF Tick, Typed, TableTypes, Sooner, SentThatDay
  <2>6. slow' \in 0..MaxSlow
    BY <1>2 DEF Tick, Typed, CountTypes
  <2>7. CountTypes'
    BY <1>2, <2>6 DEF Tick, Typed, CountTypes
  <2> QED
    BY <2>2, <2>5, <2>7 DEF Typed
<1> QED
  BY <1>1, <1>2

LEMMA TypedStep == Typed /\ [Next]_vars => Typed'
<1> SUFFICES ASSUME Typed, [Next]_vars PROVE Typed'
  OBVIOUS
<1>1. CASE UNCHANGED vars
  BY <1>1 DEF vars, Typed, TableTypes, JobTypes, CountTypes
<1>2. CASE Next
  BY <1>2, JobsTyped, MessagesTyped, RecordTyped, EditsTyped, TimeTyped DEF Next, SchedulerStep
<1> QED
  BY <1>1, <1>2

(* The types of the rows, of the scheduler and of an edit in progress; leases
   and times of day stay in their ranges.  *)
THEOREM ScheduleTypes == Spec => []TypeOK
BY InitTyped, TypedStep, TypedParts, PTL DEF Spec

(* Whenever markSent of a reminder finds its row and both of its updates get
   through, the time it writes lies in the work hours (adjustToWorkHours after
   calculateIntervalNextRunAt).  *)
THEOREM RemindersInWorkHours ==
  Spec => [][\A r \in Reminders : MarkReminder(r) /\ Matches(r) =>
               (clock + next'[r]) % Day \in WorkHours]_vars
<1>1. Typed /\ [Next]_vars =>
        [\A r \in Reminders : MarkReminder(r) /\ Matches(r) =>
           (clock + next'[r]) % Day \in WorkHours]_vars
  <2> SUFFICES ASSUME Typed, NEW r \in Reminders, MarkReminder(r), Matches(r)
               PROVE  (clock + next'[r]) % Day \in WorkHours
    OBVIOUS
  <2>1. (clock + NextRun(r)) % Day \in WorkHours
    BY NextRunInWorkHours, ScheduleAssumption
    DEF ScheduleAssumption, Typed, TableTypes, JobTypes
  <2>2. next'[r] = NextRun(r)
    BY DEF MarkReminder, Recorded, Typed, TableTypes
  <2> QED
    BY <2>1, <2>2
<1> QED
  BY <1>1, InitTyped, TypedStep, PTL DEF Spec
=============================================================================
