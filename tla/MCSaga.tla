------------------------------- MODULE MCSaga -------------------------------
(***************************************************************************)
(* Small instances of JobWorkflow for TLC: process p1 has two sessions and *)
(* two calls, p2 one of each.                                              *)
(***************************************************************************)
EXTENDS JobWorkflow, TLC

CONSTANTS p1, p2, s1, s2, s3, c1, c2, c3

TwoAndOne == (p1 :> {s1, s2}) @@ (p2 :> {s3})
CallsOf   == (c1 :> p1) @@ (c2 :> p1) @@ (c3 :> p2)

(* The sessions of p1 are interchangeable, and so are its calls.           *)
Symmetric == Permutations({s1, s2}) \cup Permutations({c1, c2})
=============================================================================
