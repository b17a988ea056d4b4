----------------------------- MODULE MCConsumer -----------------------------
(* Small instances of Consumer.  Keys are interchangeable. *)
EXTENDS Consumer, TLC

KeySymmetry == Permutations(Keys)
=============================================================================
