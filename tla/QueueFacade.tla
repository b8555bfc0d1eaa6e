----------------------------- MODULE QueueFacade -----------------------------
(***************************************************************************)
(* The queue facade over the memory driver, packages/queue/src/facade.ts:  *)
(* dispatch with its dedupe registry, and the dead-letter API.             *)
(*                                                                         *)
(* With the memory driver a dispatch runs without a break from the dedupe  *)
(* test to the push on a heap, so it is one step.  A dead-letter retry is  *)
(* not: between removeDeadLetter and enqueue it awaits, and the record is  *)
(* then held by nobody but the pending call.                               *)
(***************************************************************************)
EXTENDS MemoryDriver

CONSTANTS
  JobOptions,    \* what a dispatch may ask for: see JobOption
  Admins,        \* concurrent callers of the dead-letter API
  MaxSeq         \* bound: envelopes ever built

JobOption == [queue: Queues, priority: Int, maxAttempts: Nat,
              dedupeKey: DedupeKeys \cup {None}, delay: Nat,
              handled: BOOLEAN, timed: BOOLEAN]

ASSUME FacadeAssumption == JobOptions \subseteq JobOption /\ MaxSeq \in Nat

VARIABLES
  seq,                \* this.seq: the next envelope's sequence number
  activeDedupeKeys,   \* <<queue, key>> -> id of the job occupying it, or None
  admin               \* per caller: [todo, held], the loop of retryAll

facadeVars == <<seq, activeDedupeKeys, admin, env>>

(* Seqs of the envelopes built so far.                                     *)
Envelopes == 0..(seq - 1)

(* Priority given to an envelope rebuilt from a dead letter.               *)
DEFAULT_PRIORITY == 0

buildEnvelope(o) ==
  [id |-> seq, queue |-> o.queue, priority |-> o.priority,
   maxAttempts |-> o.maxAttempts, dedupeKey |-> o.dedupeKey,
   handled |-> o.handled, timed |-> o.timed]

(* The record carries neither priority, nor timeout, nor dedupe key.       *)
rebuildEnvelope(record) ==
  LET e == env[record.env]
  IN  [id |-> e.id, queue |-> e.queue, priority |-> DEFAULT_PRIORITY,
       maxAttempts |-> e.maxAttempts, dedupeKey |-> None,
       handled |-> e.handled, timed |-> FALSE]

(* A new envelope object with no attempt consumed.                         *)
AddEnvelope(e) ==
  /\ seq' = seq + 1
  /\ env' = [s \in 0..seq |-> IF s = seq THEN e ELSE env[s]]
  /\ attempts' = [s \in 0..seq |-> IF s = seq THEN 0 ELSE attempts[s]]

enqueueEnvelope(s, runAt) ==
  IF runAt > now THEN enqueueDelayed(s, runAt) ELSE enqueue(s)

(* A job in the same queue holds the key: no second envelope.              *)
IsDuplicate(o) ==
  o.dedupeKey # None /\ activeDedupeKeys[<<o.queue, o.dedupeKey>>] # None

Dispatch(o) ==
  /\ seq < MaxSeq
  /\ ~IsDuplicate(o)
  /\ AddEnvelope(buildEnvelope(o))
  /\ activeDedupeKeys' =
       IF o.dedupeKey = None THEN activeDedupeKeys
       ELSE [activeDedupeKeys EXCEPT ![<<o.queue, o.dedupeKey>>] = seq]
  /\ enqueueEnvelope(seq, now + o.delay)
  /\ UNCHANGED <<now, admin>>

(* The key is released only while it still names this job.                 *)
releaseDedupeKey(s) ==
  LET k == <<env[s].queue, env[s].dedupeKey>>
  IN  IF env[s].dedupeKey # None /\ activeDedupeKeys[k] = env[s].id
      THEN [activeDedupeKeys EXCEPT ![k] = None]
      ELSE activeDedupeKeys

----------------------------------------------------------------------------
AdminState(envs, tokens) ==
  [todo: SUBSET DeadLetterRecord(envs, tokens),
   held: DeadLetterRecord(envs, tokens) \cup {None}]

Idle == [todo |-> {}, held |-> None]

(* deadLetters.retry(jobId): the record is taken out, then awaited.        *)
DeadLetterRetry(a, d) ==
  /\ admin[a] = Idle
  /\ removeDeadLetter(d)
  /\ admin' = [admin EXCEPT ![a].held = d]
  /\ UNCHANGED <<now, seq, env, activeDedupeKeys>>

(* deadLetters.retryAll(queue?): the list is a snapshot.                   *)
DeadLetterRetryAll(a, qs) ==
  /\ admin[a] = Idle
  /\ \E d \in dead : env[d.env].queue \in qs
  /\ admin' = [admin EXCEPT ![a].todo = {d \in dead : env[d.env].queue \in qs}]
  /\ UNCHANGED <<now, seq, env, activeDedupeKeys, driverVars>>

(* Mutant: a record another caller already removed is re-enqueued too.     *)
RetryAllTakeStale(a, r) ==
  /\ admin[a].held = None
  /\ r \in admin[a].todo
  /\ dead' = dead \ {r}
  /\ admin' = [admin EXCEPT ![a] = [todo |-> @.todo \ {r}, held |-> r]]
  /\ UNCHANGED <<now, seq, env, activeDedupeKeys, ready, delayed, reserved,
                 attempts>>

(* One turn of its loop: remove by id, skip what another caller removed.   *)
(* Records are independent, so the loop's order is left open.              *)
RetryAllTake(a, r) ==
  /\ admin[a].held = None
  /\ r \in admin[a].todo
  /\ \/ \E d \in DeadOf(env[r.env].id) :
          /\ removeDeadLetter(d)
          /\ admin' = [admin EXCEPT ![a] = [todo |-> @.todo \ {r}, held |-> d]]
     \/ /\ DeadOf(env[r.env].id) = {}
        /\ admin' = [admin EXCEPT ![a].todo = @ \ {r}]
        /\ UNCHANGED driverVars
  /\ UNCHANGED <<now, seq, env, activeDedupeKeys>>

(* The awaited removal returned a record: enqueue its rebuilt envelope.    *)
RetryEnqueue(a) ==
  /\ admin[a].held # None
  /\ seq < MaxSeq
  /\ AddEnvelope(rebuildEnvelope(admin[a].held))
  /\ enqueue(seq)
  /\ admin' = [admin EXCEPT ![a].held = None]
  /\ UNCHANGED <<now, activeDedupeKeys>>

DeadLetterFlush(qs) ==
  /\ flushDeadLetters(qs)
  /\ UNCHANGED <<now, seq, env, activeDedupeKeys, admin>>
=============================================================================
