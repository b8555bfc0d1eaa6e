--------------------------- MODULE RateLimitStore ---------------------------
(***************************************************************************)
(* The in-memory sliding-window store the queue's rate limiter uses,       *)
(* packages/store/src/store.ts, class InMemoryRateLimitStore.  The store   *)
(* of one key is the sequence of the timestamps pushed on it.              *)
(***************************************************************************)
EXTENDS Integers, Sequences, FiniteSets

CONSTANT MaxRequestsPerKey   \* timestamps kept per key

ASSUME StoreAssumption == MaxRequestsPerKey \in Nat \ {0}

(* Hits still inside the window [at - windowMs, at]; records nothing.      *)
count(ts, at, windowMs) ==
  Cardinality({i \in DOMAIN ts : ts[i] >= at - windowMs})

(* Drop the LEADING timestamps that are older than the cutoff.             *)
prune(ts, cutoff) ==
  LET kept == {i \in DOMAIN ts : \E j \in 1..i : ts[j] >= cutoff}
      start == Len(ts) - Cardinality(kept)
  IN  SubSeq(ts, start + 1, Len(ts))

(* Record a hit; beyond the cap nothing more is stored.                    *)
hit(ts, at, windowMs) ==
  LET kept == prune(ts, at - windowMs)
  IN  IF Len(kept) < MaxRequestsPerKey THEN Append(kept, at) ELSE kept
=============================================================================
