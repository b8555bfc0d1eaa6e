----------------------------- MODULE QueueSystem -----------------------------
(***************************************************************************)
(* @streetjs/queue in one process: the facade, its workers, the scheduler's *)
(* promotion loop and the memory driver, with the clock and the callers    *)
(* of the public API.  The actions are those of the modules extended here, *)
(* plus close(), the promotion tick and the passing of time.               *)
(***************************************************************************)
EXTENDS QueueWorker

CONSTANTS
  MaxTime,       \* bound: the clock stops here unless a delayed job waits
  SlowHandlers,  \* may a reservation outlive its lease?
  ApiCalls       \* which of the operator's calls a run makes

ASSUME SystemAssumption ==
  /\ MaxTime \in Nat
  /\ SlowHandlers \in BOOLEAN
  /\ ApiCalls \subseteq {"stop", "start", "close", "retry", "retryAll",
                         "flush", "purge"}

VARIABLES
  closing,       \* close(): "open", "draining" or "closed"
  discarded      \* ids an operator purged or flushed (history)

vars == <<now, env, attempts, ready, delayed, reserved, dead, seq,
          activeDedupeKeys, admin, running, pump, pending, inFlight, token,
          execution, hits, stopped, closing, discarded>>

Init ==
  /\ now = 0
  /\ seq = 0 /\ env = [s \in {} |-> None] /\ attempts = [s \in {} |-> 0]
  /\ ready = {} /\ delayed = {} /\ reserved = {} /\ dead = {}
  /\ activeDedupeKeys = [k \in Queues \X DedupeKeys |-> None]
  /\ admin = [a \in Admins |-> Idle]
  /\ running = [w \in Workers |-> TRUE]
  /\ pump = [w \in Workers |-> "unready"]
  /\ pending = [w \in Workers |-> None]
  /\ inFlight = [w \in Workers |-> 0]
  /\ token = 0 /\ execution = [t \in {} |-> None]
  /\ hits = [q \in Queues |-> <<>>]
  /\ stopped = [w \in Workers |-> None]
  /\ closing = "open" /\ discarded = {}

systemVars == <<closing, discarded>>

----------------------------------------------------------------------------
(* Time passes.  Unless handlers may be slow, every reservation is settled *)
(* before its lease expires.                                               *)
Tick ==
  /\ now < MaxTime \/ \E d \in delayed : d.runAt > now
  /\ SlowHandlers \/ \A r \in reserved : r.leaseExpiresAt > now + 1
  /\ now' = now + 1
  /\ UNCHANGED <<facadeVars, driverVars, workerVars, systemVars>>

(* The scheduler's promotion tick, until close() stops it.                 *)
PromotionTick ==
  /\ closing # "closed"
  /\ \E d \in delayed : d.runAt <= now
  /\ promoteDue
  /\ UNCHANGED <<now, facadeVars, workerVars, systemVars>>

(* close(): stop every worker, await them all ...                          *)
Close ==
  /\ "close" \in ApiCalls /\ closing = "open"
  /\ closing' = "draining"
  /\ running' = [w \in Workers |-> FALSE]
  /\ stopped' = [w \in Workers |-> InFlight(w)]
  /\ UNCHANGED <<now, facadeVars, driverVars, pump, pending, inFlight, token,
                 execution, hits, discarded>>

(* ... then stop the scheduler and close the driver.                       *)
CloseDrained ==
  /\ closing = "draining"
  /\ \A w \in Workers : StopResolved(w)
  /\ closing' = "closed"
  /\ UNCHANGED <<now, facadeVars, driverVars, workerVars, discarded>>

DeadLetterApi ==
  /\ \/ \E a \in Admins :
          \/ "retry" \in ApiCalls /\ \E d \in dead : DeadLetterRetry(a, d)
          \/ /\ "retryAll" \in ApiCalls
             /\ \E qs \in {{q} : q \in Queues} \cup {Queues} :
                  DeadLetterRetryAll(a, qs)
          \/ \E r \in admin[a].todo : RetryAllTake(a, r)
          \/ RetryEnqueue(a)
  /\ UNCHANGED <<workerVars, systemVars>>

(* Operators drop jobs on purpose; the ids are remembered as such.         *)
Flush(qs) ==
  /\ "flush" \in ApiCalls
  /\ \E d \in dead : env[d.env].queue \in qs
  /\ DeadLetterFlush(qs)
  /\ discarded' = discarded \cup {env[d.env].id : d \in dead \ dead'}
  /\ UNCHANGED <<workerVars, closing>>

Purge(qs) ==
  /\ "purge" \in ApiCalls
  /\ purge(qs)
  /\ discarded' = discarded \cup {env[s].id : s \in ready \ ready'}
                            \cup {env[d.env].id : d \in delayed \ delayed'}
  /\ UNCHANGED <<now, facadeVars, workerVars, closing>>

Pump(w) == PumpGate(w) \/ PumpReady(w) \/ PumpPass(w) \/ PumpJob(w) \/ PumpNull(w)

(* What the worker's own code does next for an execution.                  *)
Proceed(t) == \/ RateCount(t) \/ RateHit(t) \/ RateDefer(t)
              \/ StartHandler(t) \/ NoHandler(t) \/ Finish(t)

(* What the application's handler, or the timer racing it, does.           *)
HandlerReturns(t) == HandlerSucceeds(t) \/ HandlerFails(t)
HandlerStep(t) == HandlerReturns(t) \/ HandlerTimesOut(t) \/ LateReturn(t)

Next ==
  \/ Tick \/ PromotionTick \/ Close \/ CloseDrained
  \/ \E o \in JobOptions : Dispatch(o) /\ UNCHANGED <<workerVars, systemVars>>
  \/ DeadLetterApi
  \/ \E qs \in {{q} : q \in Queues} \cup {Queues} : Flush(qs) \/ Purge(qs)
  \/ \E w \in Workers :
       /\ \/ Pump(w)
          \/ "start" \in ApiCalls /\ Start(w)
          \/ "stop" \in ApiCalls /\ running[w] /\ Stop(w)
       /\ UNCHANGED systemVars
  \/ \E t \in Tokens : (Proceed(t) \/ HandlerStep(t)) /\ UNCHANGED systemVars

Spec == Init /\ [][Next]_vars

(* Timers fire, microtasks run and handlers return.                        *)
Fairness ==
  /\ WF_vars(Tick) /\ WF_vars(PromotionTick) /\ WF_vars(CloseDrained)
  /\ \A w \in Workers : WF_vars(Pump(w) /\ UNCHANGED systemVars)
  /\ \A t \in 1..MaxToken :
       /\ WF_vars(t \in Tokens /\ Proceed(t) /\ UNCHANGED systemVars)
       /\ WF_vars(t \in Tokens /\ HandlerReturns(t) /\ UNCHANGED systemVars)

LiveSpec == Spec /\ Fairness

----------------------------------------------------------------------------
DriverTypeOK ==
  /\ now \in Nat
  /\ env \in [Envelopes -> Envelope]
  /\ attempts \in [Envelopes -> Int]
  /\ ready \subseteq Envelopes
  /\ delayed \subseteq DelayedEntry(Envelopes)
  /\ reserved \subseteq LeaseRecord(Envelopes, Tokens)
  /\ dead \subseteq DeadLetterRecord(Envelopes, Tokens)

FacadeTypeOK ==
  /\ seq \in Nat
  /\ activeDedupeKeys \in [Queues \X DedupeKeys -> Nat \cup {None}]
  /\ admin \in [Admins -> AdminState(Envelopes, Tokens)]

WorkerTypeOK ==
  /\ running \in [Workers -> BOOLEAN]
  /\ pump \in [Workers -> {"unready", "gate", "idle", "reserving"}]
  /\ pending \in [Workers -> Tokens \cup {None}]
  /\ inFlight \in [Workers -> Nat]
  /\ token \in Nat
  /\ execution \in [Tokens -> Execution(Envelopes)]
  /\ hits \in [Queues -> Seq(Nat)]
  /\ stopped \in [Workers -> (SUBSET Tokens) \cup {None}]

SystemTypeOK ==
  /\ closing \in {"open", "draining", "closed"}
  /\ discarded \subseteq Nat

(* Every variable has its type; in particular every reference to an        *)
(* envelope or a reservation is to one that exists.                        *)
TypeOK == DriverTypeOK /\ FacadeTypeOK /\ WorkerTypeOK /\ SystemTypeOK

(* The driver never keeps two copies of a job: an envelope is in one       *)
(* heap, or under one lease, or nowhere - whatever stale acks, nacks and   *)
(* dead-letterings arrive for reservations that were reclaimed.            *)
OneHome ==
  /\ \A r1, r2 \in reserved :
       (r1.token = r2.token \/ r1.env = r2.env) => r1 = r2
  /\ \A d1, d2 \in delayed : d1.env = d2.env => d1 = d2
  /\ \A d \in delayed : d.env \notin ready
  /\ \A r \in reserved : /\ r.env \notin ready
                         /\ \A d \in delayed : d.env # r.env

Queued(s) == s \in ready \/ \E d \in delayed : d.env = s
Leased(s) == \E r \in reserved : r.env = s
Live(s) == Queued(s) \/ Leased(s)
Ran(s, phases) == \E t \in Tokens : /\ execution[t].env = s
                                    /\ execution[t].phase \in phases
Succeeded(s) == Ran(s, {"acking", "completed"})
DeadLettered(s) == Ran(s, {"deadLettering", "failed"})

HeldBy(a, id) == admin[a].held # None /\ env[admin[a].held.env].id = id

(* At-least-once: a dispatched job is still queued or leased, or a handler *)
(* succeeded on it, or it is a dead letter or in the hands of a pending    *)
(* dead-letter retry - unless an operator discarded it.                    *)
NoJobLost ==
  \A s \in Envelopes :
    LET id == env[s].id
    IN  \/ id \in discarded
        \/ \E u \in Envelopes : env[u].id = id /\ (Live(u) \/ Succeeded(u))
        \/ DeadOf(id) # {}
        \/ \E a \in Admins : HeldBy(a, id)

(* Req 7.1: a worker never has more executions in flight than its          *)
(* concurrency, though pump awaits between testing the bound and using it  *)
(* and stop() and start() may intervene.                                   *)
ConcurrencyBound ==
  \A w \in Workers : Cardinality(InFlight(w)) <= Concurrency[w]

(* The attempts cell counts exactly the reservations that were not         *)
(* deferred by the rate limiter, though every holder of the shared         *)
(* envelope increments or decrements it.                                   *)
RetryBudget ==
  \A s \in Envelopes :
    attempts[s] = Cardinality({t \in Tokens :
                    /\ execution[t].env = s
                    /\ execution[t].phase \notin {"deferring", "deferred"}})

(* An envelope the driver has let go of is never queued or leased again:   *)
(* a late nack or a late reclaim resurrects nothing.                       *)
NoResurrection ==
  [][\A s \in Envelopes : ~Live(s) => ~Live(s)']_vars

(* The driver's state as LeaseQueue sees it.                               *)
Waiting == ready \cup {d.env : d \in delayed}
LeaseOf(r) == [token |-> r.token, job |-> r.env]
Leases == {LeaseOf(r) : r \in reserved}

Contract == INSTANCE LeaseQueue WITH
  Jobs        <- 0..(MaxSeq - 1),
  LeaseTokens <- 1..MaxToken,
  accepted    <- Envelopes,
  waiting     <- Waiting,
  leases      <- Leases,
  issued      <- Tokens

(* The driver keeps the contract of LeaseQueue under everything its        *)
(* callers do, late callers included.                                      *)
DriverContract == Contract!LQSpec

(* A resolved stop() leaves at most one job behind: the one pump was       *)
(* awaiting.                                                               *)
AtMostOneStraggler ==
  \A w \in Workers : StopResolved(w) => Cardinality(InFlight(w)) <= 1

----------------------------------------------------------------------------
(* The remaining properties hold while reservations are settled within     *)
(* their lease (SlowHandlers = FALSE).                                     *)

Unsettled == {"reserved", "running"} \cup WaitPhase

(* A job is never executed by two reservations at once.                    *)
ExclusiveExecution ==
  \A t, u \in Tokens :
    (/\ execution[t].env = execution[u].env
     /\ execution[t].phase \in Unsettled
     /\ execution[u].phase \in Unsettled) => t = u

(* Req 6.1: a job is attempted at most maxAttempts times.                  *)
AttemptsBounded == \A s \in Envelopes : attempts[s] <= env[s].maxAttempts

(* Req 6.2 with concurrent retries: a job id has at most one incarnation   *)
(* among live envelopes, dead letters and records held by a retry; and     *)
(* none once it succeeded.                                                 *)
OneIncarnation ==
  \A s \in Envelopes :
    LET id == env[s].id
        same == {u \in Envelopes : env[u].id = id}
    IN  Cardinality({u \in same : Live(u)}) + Cardinality(DeadOf(id))
          + Cardinality({a \in Admins : HeldBy(a, id)})
          <= IF \E u \in same : Succeeded(u) THEN 0 ELSE 1

(* Req 14.5: a dedupe key is held exactly while its job lives.  A live job *)
(* holds its key, retries included, so a duplicate dispatch is dropped;    *)
(* and a key that is held names a job that is live or just being settled,  *)
(* so once a job is over a dispatch with its key is admitted again.        *)
DedupeExact ==
  /\ \A s \in Envelopes :
       env[s].dedupeKey # None /\ Live(s) =>
         activeDedupeKeys[<<env[s].queue, env[s].dedupeKey>>] = s
  /\ \A q \in Queues, k \in DedupeKeys :
       LET id == activeDedupeKeys[<<q, k>>]
       IN  id # None => Live(id) \/ Ran(id, {"acking", "deadLettering"})

(* Req 9.1: within any window no more jobs of a queue are admitted than    *)
(* its quota allows.                                                       *)
QuotaRespected ==
  LET started == {t \in Tokens : /\ Limited(t)
                                 /\ execution[t].phase \notin
                                      {"reserved", "admitting", "underQuota",
                                       "overQuota", "deferring", "deferred"}}
  IN  \A t \in started :
        LET limit == RateLimits[QueueOf(t)]
        IN  Cardinality({u \in started :
              /\ QueueOf(u) = QueueOf(t)
              /\ execution[u].at \in
                   (execution[t].at - limit.windowMs)..execution[t].at})
            <= limit.requests

----------------------------------------------------------------------------
(* Every dispatched job is eventually completed or dead-lettered, through  *)
(* retries and delays, unless close() is called first.                     *)
EveryJobSettles ==
  \A s \in 0..(MaxSeq - 1) :
    (s \in Envelopes) ~> \/ Succeeded(s) \/ DeadLettered(s)
                         \/ closing # "open"

(* close() eventually gets to the driver.                                  *)
CloseCompletes == (closing = "draining") ~> (closing = "closed")
=============================================================================
