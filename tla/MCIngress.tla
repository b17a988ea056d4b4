------------------------------ MODULE MCIngress ------------------------------
(* Two messages in a bucket of one, and an action over two connections. *)
EXTENDS Ingress

CONSTANTS m1, m2, c1
=============================================================================
