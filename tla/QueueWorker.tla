----------------------------- MODULE QueueWorker -----------------------------
(***************************************************************************)
(* The reservation loop and the execution of a reserved job,               *)
(* packages/queue/src/worker.ts, over the facade and the memory driver.    *)
(*                                                                         *)
(* Several workers share one facade.  JavaScript runs one of them at a     *)
(* time and switches at every await, so a step runs from one await to the  *)
(* next; a driver call belongs to the step that makes it.  `execution`     *)
(* records, for each reservation token, where executeReservation stands:   *)
(*                                                                         *)
(*   reserved       driver.reserve returned it, pump has not resumed       *)
(*   admitting      waiting for the rate limiter                           *)
(*   underQuota     store.count returned less than the quota               *)
(*   overQuota      store.count returned the quota or more                 *)
(*   admitted       store.hit done, about to start                         *)
(*   running        the handler runs, raced by the timeout                 *)
(*   acking, nacking, deferring, deadLettering                             *)
(*                  the driver call is made, its await is pending          *)
(*   completed, retried, deferred, failed                                  *)
(*                  the execution is over                                  *)
(***************************************************************************)
EXTENDS QueueFacade, RetryEngine, RateLimitStore

CONSTANTS
  Workers,
  WorkerQueues,     \* worker -> the queues it consumes, in order
  Concurrency,      \* worker -> its concurrency
  StopWhenEmpty,    \* worker -> BOOLEAN
  VisibilityMs,     \* the lease of a reservation
  RateLimits,       \* queue -> [requests, windowMs], or None
  MaxToken          \* bound: reservations ever made

ASSUME WorkerAssumption ==
  /\ WorkerQueues \in [Workers -> Seq(Queues)]
  /\ Concurrency \in [Workers -> Nat \ {0}]
  /\ StopWhenEmpty \in [Workers -> BOOLEAN]
  /\ VisibilityMs \in Nat
  /\ RateLimits \in [Queues -> [requests: Nat, windowMs: Nat] \cup {None}]
  /\ MaxToken \in Nat

VARIABLES
  running,      \* worker -> this.running
  pump,         \* worker -> where its pump stands; "idle" is pumping = false
  pending,      \* worker -> token of the reservation pump awaits, or None
  inFlight,     \* worker -> this.inFlight
  token,        \* reservations made so far
  execution,    \* token -> its execution
  hits,         \* queue -> timestamps in the rate-limit store
  stopped       \* worker -> tokens the last stop() awaits, or None

workerVars == <<running, pump, pending, inFlight, token, execution, hits,
                stopped>>

WaitPhase == {"admitting", "underQuota", "overQuota", "admitted"}
CallPhase == {"acking", "nacking", "deferring", "deadLettering"}
InFlightPhase == WaitPhase \cup {"running"} \cup CallPhase
DonePhase == {"completed", "retried", "deferred", "failed"}
Phase == {"reserved"} \cup InFlightPhase \cup DonePhase

(* `at` is the clock reading of the rate check; `handler` is TRUE while    *)
(* the handler's own code runs, which a timeout does not stop.             *)
Execution(envs) == [worker: Workers, env: envs, phase: Phase, at: Nat,
                    handler: BOOLEAN]

Tokens == 1..token
InFlight(w) == {t \in Tokens : /\ execution[t].worker = w
                               /\ execution[t].phase \in InFlightPhase}
QueueOf(t) == env[execution[t].env].queue
Limited(t) == RateLimits[QueueOf(t)] # None

To(t, phase) == [execution EXCEPT ![t].phase = phase]

----------------------------------------------------------------------------
(* Mutants: the bound is off by one; a stopped worker goes on reserving.   *)
MayReserveOneMore(w, flying) ==
  running[w] /\ flying <= Concurrency[w] /\ token < MaxToken
MayReserveStopped(w, flying) ==
  flying < Concurrency[w] /\ token < MaxToken

(* The test of pump's loop, with `flying` jobs in flight (and the bound).   *)
MayReserve(w, flying) ==
  running[w] /\ flying < Concurrency[w] /\ token < MaxToken

(* One turn of pump's loop from its test to the await on driver.reserve,   *)
(* with `exs` the executions by then.                                      *)
PumpLoop(w, flying, exs) ==
  \/ /\ MayReserve(w, flying)
     /\ pump' = [pump EXCEPT ![w] = "reserving"]
     /\ \/ \E s \in Envelopes :
             /\ reserveJob(WorkerQueues[w], VisibilityMs, token + 1, s)
             /\ token' = token + 1
             /\ pending' = [pending EXCEPT ![w] = token + 1]
             /\ execution' =
                  [t \in 1..(token + 1) |->
                     IF t = token + 1
                     THEN [worker |-> w, env |-> s, phase |-> "reserved",
                           at |-> 0, handler |-> FALSE]
                     ELSE exs[t]]
        \/ /\ reserveNull(WorkerQueues[w])
           /\ pending' = [pending EXCEPT ![w] = None]
           /\ execution' = exs
           /\ UNCHANGED token
  \/ /\ ~MayReserve(w, flying)
     /\ pump' = [pump EXCEPT ![w] = "idle"]
     /\ pending' = [pending EXCEPT ![w] = None]
     /\ execution' = exs
     /\ UNCHANGED <<token, driverVars>>

(* A poll, a wake-up or a freed slot starts a pass; passes never overlap.  *)
(* The first pass awaits the driver's readiness before its loop.           *)
PumpGate(w) ==
  /\ running[w] /\ pump[w] = "unready"
  /\ pump' = [pump EXCEPT ![w] = "gate"]
  /\ UNCHANGED <<now, facadeVars, driverVars, running, pending, inFlight,
                 token, execution, hits, stopped>>

PumpReady(w) ==
  /\ pump[w] = "gate"
  /\ PumpLoop(w, inFlight[w], execution)
  /\ UNCHANGED <<now, facadeVars, running, inFlight, hits, stopped>>

PumpPass(w) ==
  /\ running[w] /\ pump[w] = "idle"
  /\ MayReserve(w, inFlight[w])
  /\ PumpLoop(w, inFlight[w], execution)
  /\ UNCHANGED <<now, facadeVars, running, inFlight, hits, stopped>>

(* Mutant: the job is started but not counted in flight.                   *)
PumpJobUncounted(w) ==
  /\ pump[w] = "reserving" /\ pending[w] # None
  /\ PumpLoop(w, inFlight[w], To(pending[w], "admitting"))
  /\ UNCHANGED <<now, facadeVars, running, inFlight, hits, stopped>>

(* reserve returned a job: it is in flight, whether or not stop() was      *)
(* called meanwhile, and the loop goes on.                                 *)
PumpJob(w) ==
  /\ pump[w] = "reserving" /\ pending[w] # None
  /\ inFlight' = [inFlight EXCEPT ![w] = @ + 1]
  /\ PumpLoop(w, inFlight[w] + 1, To(pending[w], "admitting"))
  /\ UNCHANGED <<now, facadeVars, running, hits, stopped>>

(* Mutant: a pass that finds nothing leaves `pumping` set.                 *)
PumpNullStuck(w) ==
  /\ pump[w] = "reserving" /\ pending[w] = None
  /\ UNCHANGED <<now, facadeVars, driverVars, workerVars>>

(* reserve returned null: the pass ends, and stops an idle worker that is  *)
(* to stop when empty.                                                     *)
PumpNull(w) ==
  /\ pump[w] = "reserving" /\ pending[w] = None
  /\ pump' = [pump EXCEPT ![w] = "idle"]
  /\ IF StopWhenEmpty[w] /\ inFlight[w] = 0
     THEN /\ running' = [running EXCEPT ![w] = FALSE]
          /\ stopped' = [stopped EXCEPT ![w] = {}]
     ELSE UNCHANGED <<running, stopped>>
  /\ UNCHANGED <<now, facadeVars, driverVars, pending, inFlight, token,
                 execution, hits>>

Start(w) ==
  /\ ~running[w]
  /\ running' = [running EXCEPT ![w] = TRUE]
  /\ stopped' = [stopped EXCEPT ![w] = None]
  /\ UNCHANGED <<now, facadeVars, driverVars, pump, pending, inFlight, token,
                 execution, hits>>

(* stop() awaits the executions in flight when it is called.               *)
Stop(w) ==
  /\ running' = [running EXCEPT ![w] = FALSE]
  /\ stopped' = [stopped EXCEPT ![w] = InFlight(w)]
  /\ UNCHANGED <<now, facadeVars, driverVars, pump, pending, inFlight, token,
                 execution, hits>>

(* The promise of the last stop() is resolved.                             *)
StopResolved(w) ==
  /\ stopped[w] # None
  /\ \A t \in stopped[w] : execution[t].phase \in DonePhase

----------------------------------------------------------------------------
(* Mutant: rate checks of one worker are not chained.                      *)
ChainIgnored(t) == t \in Tokens

(* Rate checks of one worker are chained: count and hit of one execution   *)
(* are over before the next begins.  Other workers have their own chain.   *)
ChainFree(t) ==
  \A u \in InFlight(execution[t].worker) :
    u # t /\ Limited(u) =>
      /\ execution[u].phase # "underQuota"
      /\ execution[u].phase = "admitting" => u > t

(* store.count is read, and the decision taken, at clock reading `now`.    *)
RateCount(t) ==
  LET limit == RateLimits[QueueOf(t)]
  IN  /\ execution[t].phase = "admitting" /\ Limited(t)
      /\ ChainFree(t)
      /\ execution' = [execution EXCEPT
           ![t].phase = IF count(hits[QueueOf(t)], now, limit.windowMs)
                             >= limit.requests
                        THEN "overQuota" ELSE "underQuota",
           ![t].at = now]
      /\ UNCHANGED <<now, facadeVars, driverVars, running, pump, pending,
                     inFlight, token, hits, stopped>>

(* store.hit records the start at the clock reading of the count.          *)
RateHit(t) ==
  /\ execution[t].phase = "underQuota"
  /\ hits' = [hits EXCEPT ![QueueOf(t)] =
                hit(@, execution[t].at, RateLimits[QueueOf(t)].windowMs)]
  /\ execution' = To(t, "admitted")
  /\ UNCHANGED <<now, facadeVars, driverVars, running, pump, pending,
                 inFlight, token, stopped>>

(* Mutant: a deferral keeps the attempt it consumed.                       *)
RateDeferCharged(t) ==
  /\ execution[t].phase = "overQuota"
  /\ nack(t, execution[t].env,
          execution[t].at + RateLimits[QueueOf(t)].windowMs)
  /\ execution' = To(t, "deferring")
  /\ UNCHANGED <<now, facadeVars, attempts, running, pump, pending, inFlight,
                 token, hits, stopped>>

(* Window full: give the attempt back, nack past the window.               *)
RateDefer(t) ==
  LET s == execution[t].env
  IN  /\ execution[t].phase = "overQuota"
      /\ attempts' = [attempts EXCEPT ![s] = @ - 1]
      /\ nack(t, s, execution[t].at + RateLimits[QueueOf(t)].windowMs)
      /\ execution' = To(t, "deferring")
      /\ UNCHANGED <<now, facadeVars, running, pump, pending, inFlight,
                     token, hits, stopped>>

Admitted(t) == \/ execution[t].phase = "admitted"
               \/ execution[t].phase = "admitting" /\ ~Limited(t)

StartHandler(t) ==
  /\ Admitted(t) /\ env[execution[t].env].handled
  /\ execution' = [execution EXCEPT ![t].phase = "running",
                                    ![t].handler = TRUE]
  /\ UNCHANGED <<now, facadeVars, driverVars, running, pump, pending,
                 inFlight, token, hits, stopped>>

(* No registered handler: dead-lettered without consulting the retries.    *)
NoHandler(t) ==
  /\ Admitted(t) /\ ~env[execution[t].env].handled
  /\ moveToDeadLetter(t, execution[t].env)
  /\ execution' = To(t, "deadLettering")
  /\ UNCHANGED <<now, facadeVars, running, pump, pending, inFlight, token,
                 hits, stopped>>

HandlerSucceeds(t) ==
  /\ execution[t].phase = "running"
  /\ ack(t)
  /\ execution' = [execution EXCEPT ![t].phase = "acking",
                                    ![t].handler = FALSE]
  /\ UNCHANGED <<now, facadeVars, running, pump, pending, inFlight, token,
                 hits, stopped>>

(* A failed attempt reads the shared attempts cell: retry or dead-letter.  *)
(* `alive` says whether the handler's code goes on running.                *)
handleFailure(t, alive) ==
  LET s == execution[t].env
      exhausted == Exhausted(attempts[s], env[s].maxAttempts)
  IN  /\ \/ /\ exhausted
            /\ moveToDeadLetter(t, s)
         \/ /\ ~exhausted
            /\ \E d \in computeBackoffDelay(attempts[s]) : nack(t, s, now + d)
            /\ UNCHANGED attempts
      /\ execution' = [execution EXCEPT
           ![t].phase = IF exhausted THEN "deadLettering" ELSE "nacking",
           ![t].handler = alive]
      /\ UNCHANGED <<now, facadeVars, running, pump, pending, inFlight,
                     token, hits, stopped>>

HandlerFails(t) ==
  /\ execution[t].phase = "running"
  /\ handleFailure(t, FALSE)

(* The timer wins the race: the attempt fails, the handler's code runs on. *)
HandlerTimesOut(t) ==
  /\ execution[t].phase = "running" /\ env[execution[t].env].timed
  /\ handleFailure(t, TRUE)

LateReturn(t) ==
  /\ execution[t].handler /\ execution[t].phase # "running"
  /\ execution' = [execution EXCEPT ![t].handler = FALSE]
  /\ UNCHANGED <<now, facadeVars, driverVars, running, pump, pending,
                 inFlight, token, hits, stopped>>

(* The driver call returned: the rest of executeReservation and pump's     *)
(* finally, which frees the slot.                                          *)
Finished(phase) == CASE phase = "acking"        -> "completed"
                     [] phase = "nacking"       -> "retried"
                     [] phase = "deferring"     -> "deferred"
                     [] phase = "deadLettering" -> "failed"

(* Mutants: the key is kept when the job is dead-lettered; the promise     *)
(* of a retried job never settles.                                         *)
FinishKeeping(t) ==
  LET e == execution[t]
  IN  /\ e.phase \in CallPhase
      /\ execution' = To(t, Finished(e.phase))
      /\ inFlight' = [inFlight EXCEPT ![e.worker] = @ - 1]
      /\ activeDedupeKeys' = IF e.phase = "acking" THEN releaseDedupeKey(e.env)
                             ELSE activeDedupeKeys
      /\ UNCHANGED <<now, seq, env, admin, driverVars, running, pump, pending,
                     token, hits, stopped>>
FinishHanging(t) ==
  LET e == execution[t]
  IN  /\ e.phase \in CallPhase \ {"nacking"}
      /\ execution' = To(t, Finished(e.phase))
      /\ inFlight' = [inFlight EXCEPT ![e.worker] = @ - 1]
      /\ activeDedupeKeys' = IF e.phase \in {"acking", "deadLettering"}
                             THEN releaseDedupeKey(e.env)
                             ELSE activeDedupeKeys
      /\ UNCHANGED <<now, seq, env, admin, driverVars, running, pump, pending,
                     token, hits, stopped>>

Finish(t) ==
  LET e == execution[t]
  IN  /\ e.phase \in CallPhase
      /\ execution' = To(t, Finished(e.phase))
      /\ inFlight' = [inFlight EXCEPT ![e.worker] = @ - 1]
      /\ activeDedupeKeys' = IF e.phase \in {"acking", "deadLettering"}
                             THEN releaseDedupeKey(e.env)
                             ELSE activeDedupeKeys
      /\ UNCHANGED <<now, seq, env, admin, driverVars, running, pump, pending,
                     token, hits, stopped>>
=============================================================================
