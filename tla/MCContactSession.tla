-------------------------- MODULE MCContactSession --------------------------
(* Instances of ContactSession for TLC. *)
EXTENDS ContactSession, TLC

CONSTANTS m1, m2, a1, c1, n1, s1, r1, p1, q1
=============================================================================
