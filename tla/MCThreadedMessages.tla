-------------------------- MODULE MCThreadedMessages --------------------------
(* The runs of ThreadedMessages.                                           *)
EXTENDS ThreadedMessages

CONSTANTS m1, m2, s1, c1
MCScripts == {<<m1, m2, s1>>, <<m1, c1>>}
================================================================================
