------------------------------ MODULE MCOutbox ------------------------------
(* Small instances of Outbox.  Emitter runs are interchangeable.            *)
EXTENDS Outbox, TLC

RunSymmetry == Permutations(Runs)
=============================================================================
