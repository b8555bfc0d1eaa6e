-------------------------------- MODULE MCJobs --------------------------------
(***************************************************************************)
(* Small instances of JobQueue for TLC: two workers, one dispatch each.    *)
(***************************************************************************)
EXTENDS JobQueue, TLC

CONSTANTS w1, w2, s1, s2

OnePerWorker == s1 :> w1 @@ s2 :> w2
=============================================================================
