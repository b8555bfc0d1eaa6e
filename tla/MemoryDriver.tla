---------------------------- MODULE MemoryDriver ----------------------------
(***************************************************************************)
(* The in-process queue driver, packages/queue/src/drivers/memory.ts.      *)
(*                                                                         *)
(* A JobEnvelope is a JavaScript object that the heaps, the lease table    *)
(* and every worker holding a reservation SHARE: its `attempts` field is   *)
(* one cell, whoever increments it.  The facade stamps every envelope it   *)
(* builds with a fresh `seq`, so the seq is the identity of the object and *)
(* `ready`, `delayed` and `reserved` hold seqs.                            *)
(*                                                                         *)
(* The driver runs in one JavaScript thread and never awaits: a call is    *)
(* atomic, and an operator below is one call.  A heap is the set of its    *)
(* members; pop is the minimum of its comparator, which is a total order   *)
(* because seqs are distinct.  (A heap could hold an envelope twice and a  *)
(* set cannot; an envelope is only ever pushed by a caller that has just   *)
(* taken it from the place where it was, so the second copy would need a   *)
(* state that already violates OneHome of QueueSystem.)                    *)
(***************************************************************************)
EXTENDS Integers, FiniteSets

CONSTANTS
  Queues,        \* names of queues
  DedupeKeys,    \* dedupe keys a dispatch may carry
  None           \* JavaScript's undefined / null

ASSUME NoneAssumption == /\ None \notin Int
                         /\ None \notin DedupeKeys
                         /\ None \notin [token: Nat, env: Nat, attempts: Int]

VARIABLES
  now,           \* the injected clock, in abstract milliseconds
  env,           \* seq -> immutable fields of the envelope object
  attempts,      \* seq -> its mutable `attempts` cell
  ready,         \* seqs in the ready heaps (all queues)
  delayed,       \* entries [env, runAt] of the delayed heaps (all queues)
  reserved,      \* lease table: [token, env, leaseExpiresAt]
  dead           \* dead-letter records [token, env, attempts]; the token is
                 \* that of the reservation that was dead-lettered

driverVars == <<ready, delayed, reserved, dead, attempts>>

(* The fields of a JobEnvelope that control depends on; `handled` says     *)
(* whether its type has a registered handler and `timed` whether it        *)
(* carries a per-attempt timeout.                                          *)
Envelope == [id: Nat, queue: Queues, priority: Int, maxAttempts: Nat,
             dedupeKey: DedupeKeys \cup {None}, handled: BOOLEAN,
             timed: BOOLEAN]
DelayedEntry(envs) == [env: envs, runAt: Nat]
LeaseRecord(envs, tokens) == [token: tokens, env: envs, leaseExpiresAt: Nat]
DeadLetterRecord(envs, tokens) == [token: tokens, env: envs, attempts: Int]

(* Reserve order within a queue: descending priority, then ascending seq. *)
compareReady(a, b) ==
  \/ env[a].priority > env[b].priority
  \/ env[a].priority = env[b].priority /\ a < b

----------------------------------------------------------------------------
enqueue(s) ==
  /\ ready' = ready \cup {s}
  /\ UNCHANGED <<delayed, reserved, dead>>

enqueueDelayed(s, runAt) ==
  /\ delayed' = delayed \cup {[env |-> s, runAt |-> runAt]}
  /\ UNCHANGED <<ready, reserved, dead>>

(* Leases whose expiry has passed go back to ready before a new choice.    *)
Expired == {r \in reserved : r.leaseExpiresAt <= now}
(* Mutant: an expired lease is dropped and its job is not pushed back.     *)
reclaimDropping == [ready |-> ready, reserved |-> reserved \ Expired]

reclaimExpiredLeases == [ready    |-> ready \cup {r.env : r \in Expired},
                         reserved |-> reserved \ Expired]

(* s is popped: it is the first of its queue, the first non-empty one.     *)
IsNext(queues, heap, s) ==
  \E i \in DOMAIN queues :
    /\ env[s].queue = queues[i]
    /\ \A u \in heap : \A j \in DOMAIN queues :
         (j < i) => env[u].queue # queues[j]
    /\ \A u \in heap \ {s} :
         env[u].queue = queues[i] => compareReady(s, u)

NothingReady(queues, heap) ==
  \A u \in heap : \A i \in DOMAIN queues : env[u].queue # queues[i]

(* Mutant: the lease is granted without the visibility time.               *)
reserveJobNoLease(queues, visibilityMs, token, s) ==
  LET after == reclaimExpiredLeases
  IN  /\ s \in after.ready
      /\ IsNext(queues, after.ready, s)
      /\ ready' = after.ready \ {s}
      /\ attempts' = [attempts EXCEPT ![s] = @ + 1]
      /\ reserved' = after.reserved \cup
           {[token |-> token, env |-> s, leaseExpiresAt |-> now]}
      /\ UNCHANGED <<delayed, dead>>

reserveJob(queues, visibilityMs, token, s) ==
  LET after == reclaimExpiredLeases
  IN  /\ s \in after.ready
      /\ IsNext(queues, after.ready, s)
      /\ ready' = after.ready \ {s}
      /\ attempts' = [attempts EXCEPT ![s] = @ + 1]
      /\ reserved' = after.reserved \cup
           {[token |-> token, env |-> s, leaseExpiresAt |-> now + visibilityMs]}
      /\ UNCHANGED <<delayed, dead>>

reserveNull(queues) ==
  LET after == reclaimExpiredLeases
  IN  /\ NothingReady(queues, after.ready)
      /\ ready' = after.ready
      /\ reserved' = after.reserved
      /\ UNCHANGED <<delayed, dead, attempts>>

WithoutToken(token) == {r \in reserved : r.token # token}
Holds(token) == \E r \in reserved : r.token = token

ack(token) ==
  /\ reserved' = WithoutToken(token)
  /\ UNCHANGED <<ready, delayed, dead, attempts>>

(* Mutant: nack does not look whether the lease still exists.              *)
nackResurrecting(token, s, runAt) ==
  /\ reserved' = WithoutToken(token)
  /\ delayed' = delayed \cup {[env |-> s, runAt |-> runAt]}
  /\ UNCHANGED <<ready, dead>>

(* A nack whose lease was already reclaimed does not resurrect the job.    *)
(* Every caller under src/ passes a runAt, so the job always goes to the   *)
(* delayed heap.                                                           *)
nack(token, s, runAt) ==
  /\ reserved' = WithoutToken(token)
  /\ delayed' = IF Holds(token)
                THEN delayed \cup {[env |-> s, runAt |-> runAt]}
                ELSE delayed
  /\ UNCHANGED <<ready, dead>>

(* Mutant: due entries are pushed on ready but stay in the delayed heap.   *)
promoteDueCopying ==
  /\ ready' = ready \cup {d.env : d \in {e \in delayed : e.runAt <= now}}
  /\ UNCHANGED <<delayed, reserved, dead, attempts>>

promoteDue ==
  LET due == {d \in delayed : d.runAt <= now}
  IN  /\ delayed' = delayed \ due
      /\ ready' = ready \cup {d.env : d \in due}
      /\ UNCHANGED <<reserved, dead, attempts>>

(* No ownership test: the record is written whoever holds the lease now.   *)
moveToDeadLetter(token, s) ==
  /\ reserved' = WithoutToken(token)
  /\ dead' = dead \cup {[token |-> token, env |-> s, attempts |-> attempts[s]]}
  /\ UNCHANGED <<ready, delayed, attempts>>

DeadOf(id) == {d \in dead : env[d.env].id = id}

(* Records of one id differ only in `attempts`, which nothing reads back:  *)
(* which of them findIndex meets first is left open.                       *)
removeDeadLetter(d) ==
  /\ d \in dead
  /\ dead' = dead \ {d}
  /\ UNCHANGED <<ready, delayed, reserved, attempts>>

flushDeadLetters(qs) ==
  /\ dead' = {d \in dead : env[d.env].queue \notin qs}
  /\ UNCHANGED <<ready, delayed, reserved, attempts>>

(* Removes ready and delayed jobs; leases and dead letters stay.           *)
purge(qs) ==
  /\ ready' = {s \in ready : env[s].queue \notin qs}
  /\ delayed' = {d \in delayed : env[d.env].queue \notin qs}
  /\ UNCHANGED <<reserved, dead, attempts>>
=============================================================================
