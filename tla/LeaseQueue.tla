----------------------------- MODULE LeaseQueue -----------------------------
(***************************************************************************)
(* What a queue driver promises of the jobs it is given                    *)
(* (packages/queue/src/drivers/driver.ts), without priorities, delays,     *)
(* attempts or the way a lease ends: a job waits or is leased under one    *)
(* token; only a lease still in force settles it or gives it back; and a   *)
(* job that was settled or discarded never comes back.                     *)
(***************************************************************************)
CONSTANTS Jobs, LeaseTokens

VARIABLES
  accepted,   \* jobs enqueued so far
  waiting,    \* jobs that may be reserved, now or later
  leases,     \* [token, job]: the leases in force
  issued      \* tokens given out so far

lqVars == <<accepted, waiting, leases, issued>>

JobsOf(ls) == {l.job : l \in ls}

LQInit == accepted = {} /\ waiting = {} /\ leases = {} /\ issued = {}

Accept(j) ==
  /\ j \notin accepted
  /\ accepted' = accepted \cup {j}
  /\ waiting' = waiting \cup {j}
  /\ UNCHANGED <<leases, issued>>

(* Leases `back` have expired; one waiting job is leased under a new token. *)
Reserve(back, j, t) ==
  /\ t \notin issued
  /\ waiting' = (waiting \cup JobsOf(back)) \ {j}
  /\ leases' = (leases \ back) \cup {[token |-> t, job |-> j]}
  /\ issued' = issued \cup {t}
  /\ UNCHANGED accepted

Return(back) ==
  /\ waiting' = waiting \cup JobsOf(back)
  /\ leases' = leases \ back
  /\ UNCHANGED <<accepted, issued>>

Settle(l) ==
  /\ leases' = leases \ {l}
  /\ UNCHANGED <<accepted, waiting, issued>>

Discard(js) ==
  /\ waiting' = waiting \ js
  /\ UNCHANGED <<accepted, leases, issued>>

LQNext ==
  \/ \E j \in Jobs : Accept(j)
  \/ \E back \in SUBSET leases :
       \/ Return(back)
       \/ \E j \in waiting \cup JobsOf(back), t \in LeaseTokens : Reserve(back, j, t)
  \/ \E l \in leases : Settle(l)
  \/ \E js \in SUBSET waiting : Discard(js)

LQSpec == LQInit /\ [][LQNext]_lqVars
=============================================================================
