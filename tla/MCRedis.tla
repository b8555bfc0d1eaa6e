------------------------------- MODULE MCRedis -------------------------------
(***************************************************************************)
(* Small instances of RedisDriver for TLC.                                 *)
(***************************************************************************)
EXTENDS RedisDriver, TLC

CONSTANTS p1, p2, j1, q1, q2

OneJob == j1 :> [queue |-> q1, priority |-> 0, seq |-> 0]
Q1Q2   == <<q1, q2>>
=============================================================================
