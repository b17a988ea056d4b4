---------------------------- MODULE MCReplyCalls ----------------------------
(* Two conversations of a group that uses gpt, and two turns without the  *)
(* lock, one of them for a group that uses claude; gpt is the backup.      *)
EXTENDS ReplyCalls, TLC

CONSTANTS t1, t2, t3, t4, g1, gpt, claude

MCGroupOf == [t \in Turns |-> IF t \in {t1, t2} THEN g1 ELSE NoGroup]
MCRoute == [t \in Turns |-> IF t = t3 THEN <<claude, gpt>> ELSE <<gpt>>]
Symmetry == Permutations({t1, t2})
=============================================================================
