--------------------------- MODULE OutboxDelivery ---------------------------
(***************************************************************************)
(* What the outbox promises of a message it must not repeat: once offered  *)
(* to the sender, the message appears in the group at most once, and only  *)
(* a message that appeared is ever confirmed.  Outbox.tla is shown to      *)
(* implement this specification for forward cards and generated images.    *)
(***************************************************************************)
EXTENDS Naturals

CONSTANT Rows

VARIABLES offered,    \* rows the sender may work on
          shown,      \* how often the group has seen each row
          confirmed   \* rows recorded as sent

vars == <<offered, shown, confirmed>>

Init == /\ offered = {}
        /\ shown = [i \in Rows |-> 0]
        /\ confirmed = {}

(* One transaction may make several parts of one reply available.  *)
Offer == /\ offered' \in SUBSET Rows
         /\ offered \subseteq offered'
         /\ UNCHANGED <<shown, confirmed>>

Show(i) == /\ i \in offered
           /\ shown[i] = 0
           /\ shown' = [shown EXCEPT ![i] = 1]
           /\ UNCHANGED <<offered, confirmed>>

Confirm(i) == /\ shown[i] = 1
              /\ confirmed' = confirmed \cup {i}
              /\ UNCHANGED <<offered, shown>>

Next == \/ Offer
        \/ \E i \in Rows : Show(i) \/ Confirm(i)

Spec == Init /\ [][Next]_vars
=============================================================================
