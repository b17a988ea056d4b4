------------------------ MODULE ConversationContext -------------------------
(***************************************************************************)
(* The short-term memory of one group: conversation-context-repository.ts  *)
(* keeps a forest of turns cut into branches, conversation-context-        *)
(* router.ts decides where a message goes in it.  The worker routes a      *)
(* message when it polls it, long before the messages ahead of it are      *)
(* answered; an answer is hung behind its question when it is ready, and   *)
(* #clear takes branches away at any time.                                 *)
(*                                                                         *)
(* A topic is the tree of the branches that grew out of one message, and   *)
(* needs no variable.  Texts and clocks are left out: whether a message    *)
(* looks like a continuation, and whether a quoted message is too old, is  *)
(* open at every routing.                                                  *)
(***************************************************************************)
EXTENDS Naturals, Sequences, FiniteSets

CONSTANTS
  NMsgs,       \* messages that the worker decides to answer
  Users,       \* members of the group
  Bot,         \* the author of answers
  MaxClears    \* bound on #clear commands

ASSUME ContextAssumption ==
  NMsgs \in Nat /\ MaxClears \in Nat /\ Bot \notin Users

Msgs == 1..NMsgs
None == 0

VARIABLES
  author,     \* who wrote a message
  polled,     \* the messages polled so far are 1..polled
  turns,      \* conversation_turns, by id
  branches,   \* conversation_branches, by order of creation
  live,       \* the branches that have not been deleted, with all their turns
  active,     \* conversation_user_active_routes: branch of a user
  route,      \* conversation_message_routes: turn of a message
  done,       \* completed messages
  clears

tree == <<turns, branches, live>>
contextVars == <<author, polled, turns, branches, live, active, route, done, clears>>

ContextInit ==
  /\ author \in [Msgs -> Users]
  /\ polled = 0
  /\ turns = <<>> /\ branches = <<>> /\ live = {}
  /\ active = [u \in Users |-> None]
  /\ route = [m \in Msgs |-> None]
  /\ done = {}
  /\ clears = 0

-----------------------------------------------------------------------------
(* The forest *)

Turns == {t \in 1..Len(turns) : turns[t].branch \in live}
Said(b) == {t \in Turns : turns[t].branch = b /\ turns[t].user # Bot}
Answers == {t \in Turns : turns[t].user = Bot}

\* the turn before, if it is still there: the join of getCausalTurns
Before(t) == IF turns[t].parent \in Turns THEN turns[t].parent ELSE None

\* t, the turn before it, and so on: the chain of which getCausalTurns reads at most
\* 256 turns and keeps the last 32, or 24000 characters.  These limits are left out.
Path(t) ==
  LET path[n \in 0..Len(turns)] ==
        IF n = 0 THEN t ELSE IF path[n - 1] = None THEN None ELSE Before(path[n - 1])
  IN  path

CausalTurns(t) == LET path == Path(t) IN {path[n] : n \in DOMAIN path} \ {None}
History(t) == CausalTurns(t) \ {t}

\* who spoke last on the way to t
LastSpeaker(t) ==
  LET path == Path(t)
      spoken == {n \in DOMAIN path : path[n] # None /\ turns[path[n]].user # Bot}
      last == CHOOSE n \in spoken : \A k \in spoken : n <= k
  IN  IF spoken = {} THEN Bot ELSE turns[path[last]].user

-----------------------------------------------------------------------------
(* Routing *)

\* a message is routed once, unless a clear has removed its route
Unrouted(m) == /\ m \notin done /\ route[m] = None /\ m <= polled + 1

(* saveMessageRoute: a quotation that is not the head of its branch begins a
   new branch, so does a message without a branch. *)
Forks(b, parent) == b = None \/ parent # branches[b].head

Save(m, b, parent, how) ==
  LET u == author[m]
      t == Len(turns) + 1
      here == IF Forks(b, parent) THEN Len(branches) + 1 ELSE b
  IN  /\ turns' = Append(turns, [branch |-> here, parent |-> parent, user |-> u, how |-> how])
      /\ branches' = IF Forks(b, parent)
                       THEN Append(branches, [owner |-> u, from |-> b, head |-> t])
                       ELSE [branches EXCEPT ![b].head = t]
      /\ live' = live \cup {here}
      /\ active' = [active EXCEPT ![u] = here]
      /\ route' = [route EXCEPT ![m] = t]
      /\ polled' = IF m > polled THEN m ELSE polled
      /\ UNCHANGED <<author, done, clears>>

RouteAlone(m) == Unrouted(m) /\ Save(m, None, None, "new")

\* getMessageContext may know any turn: a message from its routing on, an answer
\* when QQ has told its id
RouteQuotation(m) ==
  /\ Unrouted(m)
  /\ \E t \in Turns : Save(m, turns[t].branch, t, "quoted")

(* Mutant: a user continues a branch that another user has taken on. *)
ContinuesAny(u) == active[u] # None

Continues(u) == active[u] # None /\ LastSpeaker(branches[active[u]].head) = u

RouteContinuation(m) ==
  LET b == active[author[m]] IN
  /\ Unrouted(m)
  /\ Continues(author[m])
  /\ Save(m, b, branches[b].head, "continued")

-----------------------------------------------------------------------------
(* Answers *)

\* the runner handles the messages of a branch one after the other
AtTurn(m) ==
  /\ m \notin done /\ route[m] # None
  /\ \A k \in Msgs \ done :
       route[k] # None /\ turns[route[k]].branch = turns[route[m]].branch => route[k] >= route[m]

(* Mutant: every message behind the question moves behind the answer. *)
MovesQuoted(t, question) ==
  turns[t].parent = question /\ turns[t].branch = turns[question].branch /\ turns[t].user # Bot

Moves(t, question) ==
  /\ turns[t].parent = question /\ turns[t].branch = turns[question].branch
  /\ turns[t].how = "continued"

(* Mutant: an answer always becomes the head. *)
NewHeadAlways(b, question, answer) == answer

NewHead(b, question, answer) ==
  IF branches[b].head = question THEN answer ELSE branches[b].head

\* appendAssistantTurn
Answer(m) ==
  LET question == route[m]
      b == turns[question].branch
      answer == Len(turns) + 1
      moved == [t \in 1..Len(turns) |->
                  IF Moves(t, question) THEN [turns[t] EXCEPT !.parent = answer] ELSE turns[t]]
  IN  /\ AtTurn(m)
      /\ turns' = Append(moved, [branch |-> b, parent |-> question, user |-> Bot, how |-> "answer"])
      /\ branches' = [branches EXCEPT ![b].head = NewHead(b, question, answer)]
      /\ done' = done \cup {m}
      /\ UNCHANGED <<author, polled, live, active, route, clears>>

\* the handler ends without an answer that is kept
Unanswered(m) ==
  /\ AtTurn(m)
  /\ done' = done \cup {m}
  /\ UNCHANGED <<author, polled, tree, active, route, clears>>

-----------------------------------------------------------------------------
(* #clear *)

Delete(gone) ==
  /\ live' = live \ gone
  /\ route' = [m \in Msgs |-> IF route[m] # None /\ turns[route[m]].branch \in gone
                                THEN None ELSE route[m]]
  /\ clears' = clears + 1
  /\ UNCHANGED <<author, polled, turns, branches, done>>

Owned(u) ==
  {b \in live : /\ branches[b].owner = u
                /\ \A t \in Said(b) : turns[t].user = u
                /\ \A v \in Users \ {u} : active[v] # b}

\* branches that hang on branch b
Children(b) ==
  {c \in live : branches[c].from = b}
    \cup {turns[t].branch : t \in {s \in Turns : turns[s].branch # b /\ turns[s].parent \in Turns
                                                 /\ turns[turns[s].parent].branch = b}}

(* Mutant: one look at the children, while some of them are still to be kept. *)
DeletableOnce(u) == {b \in Owned(u) : Children(b) \subseteq Owned(u)}

\* the loop of clearUser ends with the largest set that nothing kept hangs on
Deletable(u) == UNION {D \in SUBSET Owned(u) : \A b \in D : Children(b) \subseteq D}

ClearUser(u) ==
  /\ clears < MaxClears
  /\ active' = [v \in Users |-> IF v = u \/ active[v] \in Deletable(u) THEN None ELSE active[v]]
  /\ Delete(Deletable(u))

ClearGroup ==
  /\ clears < MaxClears
  /\ active' = [u \in Users |-> None]
  /\ Delete(live)

ContextNext ==
  \/ \E m \in Msgs : \/ RouteAlone(m) \/ RouteQuotation(m) \/ RouteContinuation(m)
                     \/ Answer(m) \/ Unanswered(m)
  \/ \E u \in Users : ClearUser(u)
  \/ ClearGroup

ContextSpec == ContextInit /\ [][ContextNext]_contextVars

-----------------------------------------------------------------------------
(* Properties *)

ContextTypeOK ==
  /\ author \in [Msgs -> Users]
  /\ polled \in 0..NMsgs
  /\ turns \in Seq([branch : 1..Len(branches), parent : 0..Len(turns), user : Users \cup {Bot},
                    how : {"new", "quoted", "continued", "answer"}])
  /\ branches \in Seq([owner : Users, from : 0..Len(branches), head : 1..Len(turns)])
  /\ live \subseteq 1..Len(branches)
  /\ active \in [Users -> {None} \cup live]
  /\ route \in [Msgs -> {None} \cup Turns]
  /\ done \subseteq Msgs
  /\ clears \in 0..MaxClears

(* A branch forgets nothing that was said on it: every message of the branch
   lies on the path that ends at its head, in whatever order the answers come
   (head_turn_id in saveMessageRoute and appendAssistantTurn). *)
NothingForgotten == \A b \in live : Said(b) \subseteq CausalTurns(branches[b].head)

(* An answer that comes late is part of the history of a continuation of its
   question, and never gets between a quotation and the quoted message: the
   splice of appendAssistantTurn. *)
AnswerInPlace ==
  \A a \in Answers, t \in Turns :
    /\ turns[t].how = "continued" /\ turns[t].branch = turns[a].branch
         => turns[t].parent # turns[a].parent
    /\ turns[t].how = "quoted" /\ turns[t].parent = a => a < t

(* A continuation follows words of its own author, whoever has quoted or
   answered on the branch meanwhile (resolveUnquoted). *)
OwnContinuation ==
  \A t \in Turns : turns[t].how = "continued" =>
    Before(t) # None /\ LastSpeaker(Before(t)) = turns[t].user

(* The #clear of one user takes nothing from the history of a message of
   another user (the loop of clearUser). *)
ClearSparesOthers ==
  [][\A u \in Users : ClearUser(u) =>
       \A t \in Turns : turns[t].user \in Users \ {u} =>
         t \in Turns' /\ History(t)' = History(t)]_contextVars
=============================================================================
