--------------------------- MODULE DistributedLock ---------------------------
(***************************************************************************)
(* The advisory lock of the framework's core                               *)
(* (packages/core/src/microservices/distributed-lock.ts), for one key.     *)
(*                                                                         *)
(* PostgreSQL's advisory locks belong to a session and count: a session    *)
(* that holds one is granted it again, and only that session can give it   *)
(* back.  The lock is asked for, and given back, by pool.query, which runs *)
(* on whichever session of the process's pool is at hand.                  *)
(***************************************************************************)
EXTENDS Integers, FiniteSets

CONSTANTS
  Procs,         \* processes, each with a connection pool
  Sessions,      \* their database sessions ...
  SessionsOf,    \* ... by process
  Clients,       \* calls of acquire() in progress, by
  ProcOf,        \* process
  LockRetries,   \* acquire gives up after this many retries
  ParsesBooleans, \* does the pool deliver a boolean column as a boolean?  The
                 \* pool of packages/pool delivers every column as text
  None

ASSUME LockAssumption ==
  /\ ProcOf \in [Clients -> Procs]
  /\ SessionsOf \in [Procs -> SUBSET Sessions]
  /\ \A p, q \in Procs : p # q => SessionsOf[p] \cap SessionsOf[q] = {}
  /\ IsFiniteSet(Clients)
  /\ LockRetries \in Nat /\ ParsesBooleans \in BOOLEAN
  /\ None \notin Sessions

VARIABLES
  holds,         \* how often each session holds the lock
  handle,        \* the session that gave a client its lock, until released
  refused        \* how often the current acquire() has been refused

lockVars == <<holds, handle, refused>>

LockInit ==
  /\ holds = [s \in Sessions |-> 0]
  /\ handle = [c \in Clients |-> None]
  /\ refused = [c \in Clients |-> 0]

Pool(c) == SessionsOf[ProcOf[c]]

(* Whether pg_try_advisory_lock on session s locks and returns true.       *)
Grantable(s) == \A t \in Sessions \ {s} : holds[t] = 0

(* _tryAcquire: the lock counts as acquired if the column is `true`.       *)
Granted(c, s) ==
  /\ s \in Pool(c) /\ Grantable(s) /\ ParsesBooleans
  /\ holds' = [holds EXCEPT ![s] = @ + 1]
  /\ handle' = [handle EXCEPT ![c] = s]
  /\ refused' = [refused EXCEPT ![c] = 0]

GivesUp(c) == refused[c] = LockRetries

(* The lock is another session's; or it was granted and 't' is not `true`. *)
Refused(c, s) ==
  /\ s \in Pool(c) /\ ~(Grantable(s) /\ ParsesBooleans)
  /\ holds' = IF Grantable(s) THEN [holds EXCEPT ![s] = @ + 1] ELSE holds
  /\ refused' = [refused EXCEPT ![c] = IF GivesUp(c) THEN 0 ELSE @ + 1]
  /\ UNCHANGED handle

(* pg_advisory_unlock on session s, which need not be the one that locked. *)
Unlock(s) == holds' = [holds EXCEPT ![s] = IF @ = 0 THEN 0 ELSE @ - 1]

(* handle.release(): no statement when the TTL timer was first.            *)
ReleaseAgain(c) ==
  /\ \E s \in Pool(c) : Unlock(s)
  /\ handle' = [handle EXCEPT ![c] = None]
  /\ UNCHANGED refused

release(c) ==
  /\ IF handle[c] = None THEN holds' = holds ELSE \E s \in Pool(c) : Unlock(s)
  /\ handle' = [handle EXCEPT ![c] = None]
  /\ UNCHANGED refused

(* The unlock statement fails: the handle counts as released all the same. *)
ReleaseFails(c) ==
  /\ handle[c] # None
  /\ handle' = [handle EXCEPT ![c] = None]
  /\ UNCHANGED <<holds, refused>>

(* The TTL timer: it releases the handle if release() was not called yet,  *)
(* whatever its owner is doing; an unlock that fails is ignored.           *)
TtlExpires(c) ==
  /\ handle[c] # None
  /\ release(c) \/ ReleaseFails(c)

(* A process dies, and the server ends its sessions.                       *)
LockCrash(p) ==
  /\ holds' = [s \in Sessions |-> IF s \in SessionsOf[p] THEN 0 ELSE holds[s]]
  /\ handle' = [c \in Clients |-> IF ProcOf[c] = p THEN None ELSE handle[c]]
  /\ refused' = [c \in Clients |-> IF ProcOf[c] = p THEN 0 ELSE refused[c]]

----------------------------------------------------------------------------
(* Handles that are not released belong to one process: whatever sessions  *)
(* the unlock statements hit, whichever of release() and the TTL timer is  *)
(* first, no process is granted the lock while another still has a handle. *)
OneProcessHolds ==
  \A c, d \in Clients :
    handle[c] # None /\ handle[d] # None => ProcOf[c] = ProcOf[d]
=============================================================================
