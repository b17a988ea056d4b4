-------------------------- MODULE KeyedConsumption --------------------------
(***************************************************************************)
(* What ConsumerRunner promises its handler, without polls, queues and     *)
(* watermarks: messages of a key are handled in id order, each of them at  *)
(* least once before it is settled, so that no later poll fetches it, and  *)
(* it is settled for good.  Only the cutover settles messages that were    *)
(* not handled.                                                            *)
(* Consumer.tla is shown to implement this specification.                  *)
(***************************************************************************)
EXTENDS Integers

CONSTANTS NMsgs, Keys, NoKey, Unstable

VARIABLES last,     \* messages that have arrived
          key,      \* their keys
          cutover,  \* messages up to here are retired
          settled,  \* messages that no later poll fetches
          handled   \* messages whose handler has called done

vars == <<last, key, cutover, settled, handled>>

Init == /\ last = 0
        /\ key = [m \in 1..NMsgs |-> NoKey]
        /\ cutover = 0
        /\ settled = {}
        /\ handled = {}

Arrive(k) == /\ last < NMsgs
             /\ last' = last + 1
             /\ key' = [key EXCEPT ![last + 1] = k]
             /\ UNCHANGED <<cutover, settled, handled>>

Rekey(m, k) == /\ m \in Unstable
               /\ key' = [key EXCEPT ![m] = k]
               /\ UNCHANGED <<last, cutover, settled, handled>>

(* It is the turn of a message when its predecessors on the key are through. *)
Turn(m) ==
  m \notin Unstable /\ key[m] # NoKey =>
    \A n \in (1..m - 1) \ Unstable : key[n] = key[m] => n \in handled \/ n <= cutover

(* Again, perhaps: after a crash, or when the acknowledgement failed. *)
Handle(m) == /\ Turn(m)
             /\ handled' = handled \cup {m}
             /\ settled' \in {settled, settled \cup {m}}
             /\ UNCHANGED <<last, key, cutover>>

Retire == /\ cutover' = last
          /\ settled' = settled \cup (1..last)
          /\ UNCHANGED <<last, key, handled>>

Next == \/ \E k \in Keys \cup {NoKey} : Arrive(k)
        \/ \E m \in 1..NMsgs, k \in Keys \cup {NoKey} : Rekey(m, k)
        \/ \E m \in 1..last : Handle(m)
        \/ Retire

Spec == Init /\ [][Next]_vars
=============================================================================
