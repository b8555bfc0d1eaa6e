# Verification of StreetJS: queues, workflows, sagas, jobs and the connection pool

StreetJS is a TypeScript monorepo (about ninety packages) for building web
services. Most of it is adapters, presentation and byte-level protocol code. Its
own concurrent logic is in a few packages, and this project models those whose
documentation promises something about interleavings, failures and recovery:

* the job queue (`packages/queue`) with its memory driver and its Redis driver;
* the durable workflow engine (`packages/workflow`);
* the older PostgreSQL job queue (`packages/core/src/jobs/queue.ts`);
* the saga engine beside it (`packages/core/src/jobs/workflow.ts`) with the advisory
  lock it runs under (`packages/core/src/microservices/distributed-lock.ts`);
* the PostgreSQL connection pool (`packages/pool`).

Source paths below are relative to `src/packages/`.

## 1. Inventory

### The queue package

| Component | State | Operations | Interacts with |
|---|---|---|---|
| Driver contract `queue/src/drivers/driver.ts` | - | enqueue, enqueueDelayed, reserve, ack, nack, promoteDue, moveToDeadLetter, removeDeadLetter, flushDeadLetters, purge | called by facade, workers, scheduler |
| Memory driver `queue/src/drivers/memory.ts` | ready and delayed heaps per queue, lease table by token, dead-letter list; envelopes are shared mutable objects | the contract; `reserve` first reclaims expired leases | the injected clock |
| Redis driver `queue/src/drivers/redis.ts` | the same in Redis keys, one command at a time | the contract | several processes |
| Facade `queue/src/facade.ts`, `job.ts` | `seq`, the dedupe registry `activeDedupeKeys`, worker list | dispatch, deadLetters.retry / retryAll / flush, work, close | driver, workers, scheduler |
| Worker `queue/src/worker.ts` | `running`, `pumping`, `inFlight`, `inFlightPromises`, `rateCheckChain` | start, stop, pump, executeReservation (rate check, timeout race, ack / nack / dead-letter, dedupe release) | driver, facade's registry, rate store, handlers |
| Retry engine `queue/src/retry.ts` | - | retry or dead-letter; backoff with cap and jitter | worker |
| Rate store `store/src/store.ts` | timestamps per key | hit, count, prune | shared by the facade's workers |
| Scheduler `queue/src/scheduler.ts` | promotion timer, cron entries | promotion tick, cron fire under an optional lock | driver, facade |
| Middleware, events, plugin, CLI, observability, testing | none that delivery depends on | composition and reporting | |

One facade, its workers and its scheduler run in one JavaScript thread: control
changes hands only at an `await`. Every piece of state that is read before an
`await` and used after it is a potential hazard, and the workers are full of
them: `pump` tests its bound and then awaits `reserve`; the rate check reads a
count and then awaits; `retry` removes a dead letter and then awaits; `stop()`
snapshots a set that `pump` is about to extend. On top of that a lease may expire
while its handler runs, so that a *stale* reservation later acks, nacks or
dead-letters a job that somebody else owns by then; a handler may outlive its
timeout; operators retry, flush and purge at any time; and `close()` may come at
any moment.

What makes each part correct:

* driver - a job is in one place; nothing is lost; nothing that was let go of
  comes back, whatever stale calls arrive (`OneHome`, `NoJobLost`,
  `NoResurrection`, `DriverContract`);
* worker - never more in flight than `concurrency`; one execution per job and at
  most `maxAttempts` of them; every job settles; the drain ends
  (`ConcurrencyBound`, `ExclusiveExecution`, `AttemptsBounded`, `RetryBudget`,
  `EveryJobSettles`, `AtMostOneStraggler`, `CloseCompletes`);
* facade - a key is held exactly while its job lives; a job id has one
  incarnation under concurrent retries (`DedupeExact`, `OneIncarnation`);
* rate limiter - no window above its quota (`QuotaRespected`).

### The Redis driver

State: one string key per envelope, reservation and owner, a sorted set of ready,
delayed and leased entries and a list of dead letters per queue, and the registry
of queue names. Several processes use it at once; a call is a sequence of
commands with neither script nor transaction around them. What makes it correct:
the process whose `ZREM` removes an id owns what follows (`ReservedByOne`); a job
is always in one of the places somebody will look at, or in the hands of a live
process (`LossesAreExplained`); crashed workers' jobs come back and settle
(`AcceptedJobSettles`).

### The workflow engine

State: per run one snapshot in the store (status, journal of commands, buffered
signals); per drive its own copy of it, the compensations captured so far and the
activity in flight; per process the waits already resumed. A drive replays the
journal and executes the first command not in it. Calls (signal, pause, cancel,
resume) load and save the whole snapshot beside the drives. Hard: a crash between
an effect and its record, saves of stale copies, two drives of one run, a failed
save in the middle of a rollback. Correct means: nothing recorded is executed
again (`NoReexecution`), the journal only grows (`JournalGrows`), a finished run
stays finished (`TerminalIsFinal`), rollbacks run once and in reverse
(`RollbackReverseOnce`), and runs and waits make progress (`RunSettles`,
`SignalWakes`).

### The PostgreSQL job queue

State: the rows of `street_jobs` and of the dead-letter table, and per worker
process its timers and the set of jobs in flight. Several workers poll one table.
Hard: two polls that see one row; a worker that dies with rows marked as running;
the reaper against heartbeats; statements that fail half way. Correct means: no
accepted job disappears without success or a dead letter (`NoJobLost`), the retry
policy is kept (`PolicyKept`), the reaper takes orphans only
(`ReapsOnlyOrphans`), everything settles (`JobsSettle`).

### The core saga engine and its lock

State: one row of `street_workflows` per workflow (status, `current_step`,
`step_outputs`); per call of `start()` or `resume()` its own copy of the last two and
the list of completed steps; per database session the number of times it holds the
advisory lock; per call the lock handle with its TTL timer. Several processes drive
one workflow. Hard: the row is read before the lock is held; lock and unlock run on
whichever pooled session is at hand, while the lock belongs to a session; the TTL
timer releases beside the owner; crashes and failing statements between a step and
its record; steps that are skipped or time out. Correct means: one process at a time
has the lock (`OneProcessHolds`), steps run in order (`StepsInOrder`), a recorded
step does not run again (`RecordedRunsOnce`), a rollback covers what earlier
processes ran (`RollbackComplete`), finished workflows stay finished
(`TerminalIsFinal`).

### The connection pool

State: the connections and their wire state, the callers waiting, the lazy
warm-up. Hard: connects in progress when the next caller comes, when one of them
fails and when `close()` is called; connections that die in use; streams given
back early; timers. Correct means: `PoolBounded`, `ExclusiveUse`,
`NoNeedlessWait`, `CloseLeavesInflightOnly`, `EveryAcquireSettles`.

### The rest of the repository

`PROJECT.json` lists every other part with its status. Candidates for later
modules: the cron fires (of the queue package and of the core), the circuit breaker of
`core/src/microservices`, the webhook dispatcher and the realtime rooms. Not
worth modelling: HTTP routing and the container (no protocol state), wire protocols
and transports (bytes and sockets), CLI, code generation, UI and third-party
adapters.

## 2. Modules

```
RetryEngine   RateLimitStore
        \        /
MemoryDriver <- QueueFacade <- QueueWorker <- QueueSystem <- MCQueue  (TLC)
                                                  |      \
                                    LeaseQueue (abstract)  QueueProofs (TLAPS)
                                                               |
                                       QueuePromptProofs -> QueueDeliveryProofs
```

(`A <- B`: B extends A; `QueueDeliveryProofs` extends `QueueProofs`; `QueueSystem`
instantiates `LeaseQueue`.)

```
RedisDriver <- MCRedis             RedisDriver <- RedisProofs (TLAPS)
WorkflowEngine <- MCWorkflow       WorkflowEngine <- WorkflowProofs (TLAPS)
ConnectionPool (run as it is)      ConnectionPool <- PoolProofs (TLAPS)
JobQueue <- MCJobs         JobQueue <- JobQueueProofs (TLAPS)
DistributedLock <- JobWorkflow <- MCSaga     JobWorkflow <- SagaProofs (TLAPS)
```

**MemoryDriver** - `memory.ts`. An envelope is identified by its `seq`, because
the facade stamps each one with a fresh number and everybody then shares the
object. Its immutable fields are in `env`, its one mutable field in `attempts`: an
increment by `reserve` or a decrement by a deferral is seen by every holder, as in
the code. `ready`, `delayed`, `reserved` and `dead` are the heaps, the lease table
and the dead-letter list. Each driver call never awaits and is one operator. A
binary heap is the set of its members and pop the comparator's minimum
(`IsNext`): priority descending, then `seq` ascending, queues in the worker's
order. The heap's sift operations are therefore abstracted, not verified.

**QueueFacade** - `facade.ts` and `job.ts`. `Dispatch` is `dispatch()`: with the
memory driver it is uninterrupted from the dedupe test to the heap push.
A duplicate dispatch leaves everything as it was, so it is a stuttering step.
`DeadLetterRetry`, `DeadLetterRetryAll`, `RetryAllTake` and `RetryEnqueue` split the
dead-letter API at its awaits, one caller per member of `Admins`; `held` is the
record that only a pending call knows of.

**RetryEngine** - `retry.ts`. `Exhausted` is the decision of `onFailure`;
`computeBackoffDelay(n)` is the set of delays the jitter may give.

**RateLimitStore** - `store.ts`. `count`, `hit` and `prune` on the sequence of
timestamps of a key, with the cap `MaxRequestsPerKey`.

**QueueWorker** - `worker.ts`. `pump` is cut at its awaits: `PumpGate` and
`PumpReady` (the first pass awaits the driver), `PumpPass` (a poll, a wake-up or a
freed slot starts a pass), `PumpJob` and `PumpNull` (reserve returned). `PumpLoop`
is the part from the loop's test to the next await; it is shared because the same
code runs in a first and in a later turn. For every reservation token,
`execution[t].phase` says where `executeReservation` stands; the module's header
lists the phases. `RateCount`, `RateHit` and `RateDefer` are the rate check and
`ChainFree` the promise chain `rateCheckChain` of one worker. `HandlerTimesOut`
leaves `handler` TRUE: the promise is abandoned and its code runs on until
`LateReturn`. `Finish` is everything after the driver call: the dedupe release and
pump's `finally`. `stopped[w]` is the set of executions that the last `stop()`
awaits.

**QueueSystem** - the composition: time (`Tick`), the scheduler's `PromotionTick`,
`Close` and `CloseDrained`, the operators' `Flush` and `Purge`, `Next`, `Fairness`
and the properties. `discarded` is a history variable: the ids that operators
dropped on purpose.

**LeaseQueue** - what `driver.ts` promises, without priorities, delays and
attempts: a job waits, or is leased under one token; only a lease in force settles
it or gives it back; a settled job never returns. `QueueSystem` maps onto it with
`Waiting` (ready plus delayed) and `Leases`; acks, nacks and dead-letterings of
reclaimed leases map to stuttering steps.

**MCQueue** - the values the configurations give to the constants.
**QueueProofs**, **QueueDeliveryProofs**, **QueuePromptProofs** - the theorems about the
queue: types, bounds and the contract; what holds of every job whatever handlers do; and
what holds while handlers settle within their lease.

**RedisDriver** - `redis.ts`, one action per command. `proc[p]` is the process's
place in its call (`pc`) with the call's local variables; `Continue`, `NextQueue`
and `TryNextHead` are the loops around the commands. Two things are folded: the
idempotent `SADD` of a queue name goes with the command after it, and wake-ups,
which store nothing, are left out. A process is a worker, a producer, a scheduler
or an operator, or several of these, one call at a time: the calls of one process
do not share local state, so two concurrent calls of one process are two members
of `Procs`. `exposed` records, as history, the jobs that met one of the gaps
between two commands; `LossesAreExplained` says that there are no others.

**WorkflowEngine** - the packages' `engine.ts`, `runtime.ts`, `journal.ts`,
`executor.ts`, `compensator.ts`, `coordinator.ts`, `context.ts` and `store.ts`, for one
run. The workflow function is a straight line of commands, `Program`; code between
two commands is deterministic by the engine's own rule and is not modelled.
`drive[d]` is one `WorkflowRuntime.drive` with its copy `snap` of the snapshot;
`call[c]` an API call between its load and its save. `fresh` says whether the copy
is still what the store has: a save of a copy that is not sets `raced`, as do two
overlapping drives. The engine has no guard against either, so the safety
properties are stated for runs that are not `raced`.

**ConnectionPool** - `pool.ts`. Everything happens on one event loop. A call runs
synchronously to its first await; a connect settles in a socket callback of its
own, and the continuations of its promise run as microtasks before the next
callback, so a settled connect and what awaits it are one action. The exception is
the warm-up, which several callers await through one more promise: `WarmupAwaited`
is their continuation, and other callers' steps may come before it. `Pending` is
`pendingCreations`; `for` says who awaits a connect. `Ids` bounds the connections that
exist at once, and an identity whose connection is gone is used again.

**JobQueue** - `queue.ts`, one action per SQL statement. `slot[s]` is one
`_dispatch` in progress, `WorkerOf[s]` its worker: a poll that returns several rows
fills several slots. `due` and `age` count ticks until `run_at` and since
`locked_at`; `beat[w]` counts the ticks since the worker's heartbeat timer last fired.
The timer is on time, but its UPDATE may fail: the code swallows the error
(`queue.ts:477-479`) and waits for the next interval, so `HeartbeatFails` restarts
`beat` and leaves the rows as old as they are. `missed[w]` is the number of heartbeats
that failed in a row and `left` the jobs that workers had in flight when they were
stopped; both are history, for `ReapsOnlyOrphans`. `Crash` restarts the worker at once
with its timers running.

**DistributedLock** - `distributed-lock.ts`, for one key. `holds[s]` is PostgreSQL's
count of session `s`; only one session may have it above zero. `Granted` and
`Refused` are one `_tryAcquire` on some session of the process's pool; `release` and
`ReleaseFails` the handle's release, `TtlExpires` its timer. `handle[c]` is the session
that granted the handle, which the code does not keep: an `Unlock` may hit any session of
the pool, and one that hits the wrong session changes nothing. `ParsesBooleans` says
whether the pool hands a boolean column over as `true` (see section 5).

**JobWorkflow** - `workflow.ts`, one workflow, one action per statement or user
function. Each member of `Clients` is one call of `start()` or `resume()`; `view` is
its copy of the row. Steps are numbered from 1; an output is abstracted to whether it
is recorded. `ran`, `skipped`, `compensated`, `overlapped` and `abandoned` are history
variables for the properties. `Crash` ends the calls of a process and, as the server
does, its sessions.

The definitions that say *Mutant* in their comment, and those whose names add what
is wrong to the name of the definition after them, are plausible bugs next to the
definition they distort. No specification uses them; substituting one for its
original makes the property named in `PROJECT.json` fail, which shows that the
property depends on the code it is about.

## 3. Runs

Each run is `tlc -config mc_<name>.cfg <module>`, with the module `PROJECT.json`
names.

| Run | Instance | Shows |
|---|---|---|
| `lease` | 2 workers, 3 kinds of job over two queues and two priorities, 2 envelopes, 4 reservations, leases that expire under running handlers, dead-letter retry, flush, purge | `TypeOK`, `OneHome`, `NoJobLost`, `NoResurrection`, `DriverContract` |
| `prompt` | 2 workers, 2 concurrent operators, 3 envelopes with a key or without a handler; reservations settle within their lease | `ExclusiveExecution`, `AttemptsBounded`, `OneIncarnation`, `DedupeExact` |
| `rate` | 1 worker of concurrency 2 with `stopWhenEmpty`, stopped and started at any time, quota 1 per window, jittered exponential backoff, timeouts, expiring leases | `QuotaRespected`, `RetryBudget`, `ConcurrencyBound`, `AtMostOneStraggler` |
| `live` | 2 workers, retried and delayed jobs, close at any time, under `LiveSpec` | `EveryJobSettles`, `CloseCompletes` |
| `redis` | 2 processes (producer, operator and worker; worker and scheduler), 1 job, 2 queue names, 2 attempts, 5 reservations, 1 crash, 1 operator call; leases kept by live processes | `LossesAreExplained`, `ReservedByOne`, `AcceptedJobSettles` |
| `workflow` | 7 commands: three compensable activities around a wait for a signal, a deadline, a state write, a bridge; 2 drives, 1 caller, 1 signal, 1 crash, 1 failed save | `RollbackReverseOnce`, `NoReexecution`, `JournalGrows`, `TerminalIsFinal`, `RunSettles`, `SignalWakes` |
| `pool` | 3 callers, minimum and maximum 2, 1 place to wait, 1 death, 1 refused connect | the six properties of the pool |
| `jobs` | 2 workers with a dispatch each, 1 job, 2 attempts, 1 crash, 1 failed statement, 1 failed heartbeat, 1 stop, 1 prune | `JobsTypeOK`, `NoJobLost`, `PolicyKept`, `ReapsOnlyOrphans`, `JobsSettle` |
| `saga` | 2 processes with 3 sessions, 3 calls, 2 steps (one conditional, one with a timeout), 1 crash, 1 failed statement, 1 expired TTL, 1 retry of the lock | `OneProcessHolds`, `StepsInOrder`, `RecordedRunsOnce`, `RollbackComplete`, `TerminalIsFinal` |

Two regimes in the queue. With `SlowHandlers = TRUE` a handler may take as long as it likes:
this is the regime of `lease` and `rate`, and what holds there holds whatever
handlers do. With `SlowHandlers = FALSE` time does not pass a lease that is still
held, i.e. handlers settle within `visibilityMs`; the properties of `prompt` need
this, and section 5 says which of them fail without it.

### Bounds

`MaxSeq` (envelopes ever built), `MaxToken` (reservations ever made), `MaxTime`
(the clock stops there unless a delayed job still waits), `MaxBackoff` (delays
enumerated). They are chosen so that the critical schedules fit: two reservations
of one job need two tokens, a reclaimed job that is then retried and dead-lettered
three, a second job beside it four; two envelopes make a duplicate or a retried
incarnation, three make an incarnation of an incarnation or a duplicate after it.
`MaxTime` exceeds `VisibilityMs` in `lease`, so a lease expires; in `live` there are
tokens enough (5) for every attempt of both jobs (4), so no job is stuck for want of
a token. The small bounds are not the reason why the properties hold:
each has a mutant that breaks it within the same bounds, and nearly all safety properties
are also proved for any bound. Workers and operators are interchangeable, and `lease` and `prompt` use that
symmetry; `live` uses none, since symmetry is unsound for liveness.

Deadlock checking is off, except in `redis`, whose workers poll for ever: with the bounds
used up, after `close()`, or with the run over, the system may stop.

The newer instances, in the same terms:

* `redis`: one job suffices for every interleaving of two processes over it (jobs meet
  only in the choice of the head of a queue), two processes for a reclaim that
  meets a live reservation, five tokens for the reservations of two attempts, one lost to the crash, and
  a retry after burial. The clock goes on only while something waits for it. With `SlowHandlers = FALSE`
  a live process keeps its lease; only crashes leave expired ones. `v_redis` drops
  that, and the crashes.
* `workflow`: compensable activities lie before and after the wait and two in a row,
  so that the order of rollbacks and what a resumed drive remembers both show.
  Two drives overlap when a resume or a signal meets one in progress. The
  constraint `UntilRaced` does not follow states past a race: `raced` never
  becomes false again, the action properties speak of steps with `~raced'`, the
  invariants and the liveness properties are excused by `raced`, so no violation
  lies behind such a state.
* `pool`: three callers and one place make the queue full; four connection
  identities are enough for two pooled, one of them dead and still held, and a
  replacement; a minimum of two lets a failed warm-up leave a stray connect.
* `jobs`: the reaper's threshold is two heartbeat intervals (four by default in the
  code, 30 s and 120 s), so one failed heartbeat (`MaxSkips`) is the most a worker may
  have in a row and still be safe from the reaper. With `MaxSkips = 2` and everything else as it is
  (1,317,561 states) the properties hold too, a worker with two failures being excused. The bound
  is tight: with two failures tolerated instead of one, TLC finds a job reaped under the worker that
  executes it. Two workers are enough for a double dispatch and for one that reaps the other's job. Two dispatches of one job inside one worker are not in
  this instance; the theorem `NoJobIsLost` covers them.
* `saga`: a call that fails or crashes, one that resumes after it and a third that
  overlaps either are all the roles the properties tell apart; two sessions in one
  process are enough for an unlock that misses. Sessions of one process, and its
  calls, are interchangeable.

### Fairness

`Fairness` is weak fairness of: the clock (`Tick`), the promotion timer
(`setInterval`), the continuation of `close()`, each worker's pump (its poll timer
and the microtasks of an awaited call), each execution's own continuations, and
each handler's return. A single thread with a FIFO microtask queue and re-armed
timers gives the first five. The last, that a handler eventually returns or
throws, is an assumption about the application; without it no job need settle, and
the code only bounds it where a timeout is configured. There is no fairness on
dispatch, stop, start, close or the operators' calls, nor on the choice between a
handler's success and its failure.

`RedisFairness`: every call in progress issues its next command, handlers return,
workers poll, time passes. The promotion timer shares its process with the worker's
poll, so it is enabled again and again but not continuously: strong fairness, which
timers of one event loop justify. `WFairness`: activities, rollbacks and saves
return, and a dead process is started again (`Define`); nothing about the API's
callers or the clock. `PoolSpec`: connects succeed or fail, wait timers run down,
the continuations of the warm-up run; holders need never release. `JobsFairness`:
timers of started workers fire, statements and handlers return; nobody need start
a stopped worker. `saga` checks safety only and assumes no fairness. Retries, failures and crashes are free choices everywhere,
bounded by the constants.

## 4. Proofs

Every theorem holds for all values of the constants that satisfy the modules' `ASSUME`s:
any workers, processes, callers, jobs, programs and limits, and any bounds. The
invariants below were checked by TLC on the instances of section 3 before they were
proved.

### The queue over the memory driver

`QueueProofs`, with no further hypothesis:

* `TypeCorrect` - `Spec => []TypeOK`. Not only a typing: it says that the counter
  `inFlight` never goes below zero and that no heap entry, lease, dead letter or
  pending call refers to an envelope or a reservation that does not exist;
* `ConcurrencyBounded` - `Spec => []ConcurrencyBound`;
* `SingleHome` - `Spec => []OneHome`;
* `ImplementsContract` - `Spec => DriverContract`, the refinement of `LeaseQueue`;
* `NothingResurrected` - `Spec => NoResurrection`.

The assumptions are the `ASSUME`s of the component modules: types of the
parameters, and that `None` is neither a number nor a key nor a dead-letter record.
`SlowHandlers` is not fixed: the theorems cover handlers that outlive their leases.

The inductive invariant is `IInv == TypeOK /\ WorkerInv /\ LeaseAgrees /\ OneHome`.

* `WorkerInv` ties the code's counter to what it counts. `Counted`: `inFlight[w]`
  is the number of executions of `w` in flight, without which `Finish` could make
  the counter negative and the bound would say nothing of the executions. `Awaited`:
  the token a pump awaits is in phase `reserved` and belongs to that worker and to
  no other pump, so that `PumpJob` adds exactly one. `CheckedLimited`: while a pump
  awaits a reservation its worker is strictly below its concurrency. That is the fact that
  makes the stale test of the loop harmless: between the test and its use other executions may
  finish, but only this pump can start one.
* `LeaseAgrees`: the lease of a token is for the envelope that the token's
  execution works on. It is what `nack`, which pushes the reservation's envelope
  after testing the token's lease, relies on.
* `OneHome` itself: with `LeaseAgrees` it makes a nacked envelope absent from
  everywhere else.

The refinement and `NoResurrection` follow from `IInv` step by step.

`QueueDeliveryProofs`, again for handlers of any speed, relative to `IInv`:

* `NothingLost` - `Spec => []NoJobLost`. `NoJobLost` is inductive relative to `IInv`;
  what the proof needs besides is that success is for ever (`SuccessStays`), from the
  table `PhaseSteps` of the moves an execution can make, so that an ack of a stale
  reservation may remove a job that somebody else holds: it has succeeded;
* `AttemptsCounted` - `Spec => []RetryBudget`. A token is charged to its envelope once,
  when `reserve` increments the cell, and uncharged once, when a deferral decrements it;
  the cardinality of `Charged` changes by one in these steps and in no other;
* `StopLeavesOne` - `Spec => []AtMostOneStraggler`, from `Straggling`: after `stop()`
  nothing but the reservation that `pump` awaited can join the executions it drains, so
  `pending` set means that none has joined yet;
* `QuotaIsRespected` - `Spec => []QuotaRespected`, for one worker (`OneChain`) and quotas
  within the store's cap per key (`QuotasFit`); without either it is false (section 5).
  `QuotaInv`: one rate check at a time is between its count and its hit, so the window the
  count saw is the one the hit adds to (`Checked`); the store's timestamps are sorted, so
  `prune` drops exactly what is before the window (`PruneKeeps`, `HitRecords`); and every
  admission in the window of the latest one is still in the store (`Remembered`).

`QueuePromptProofs` assumes `~SlowHandlers` and `VisibilityMs > 0`: reservations are settled
within their lease. From this, `PromptInv`: no lease is expired (`Fresh`) and an unsettled
reservation has its lease (`LeaseHeld`), so `reserve` reclaims nothing. Then:

* `ExecutionExclusive` - `[]ExclusiveExecution`: two unsettled executions of a job have two
  leases for one envelope, which `OneHome` excludes;
* `AttemptsWithinCeiling` - `[]AttemptsBounded`, if every job's `maxAttempts` is positive.
  (The facade takes `maxAttempts` as it comes, `job.ts:175`; a job with 0 is
  attempted once all the same.) `BudgetLeft`: a queued envelope has an attempt left;
* `DedupeIsExact` - `[]DedupeExact`, if `purge` is not among the operators' calls.
  `DedupeInv`: a settled job is gone, only the first incarnation of a job carries a
  key, a live one holds its key, and a held key names a job that is live or about to be
  finished. `Settles` and `Calm` classify the steps for it;
* `OneIncarnationPerJob` - `[]OneIncarnation`. The live envelopes, dead letters and
  pending retries of an id are at most one thing (`AtMostOne`), and nothing once a
  handler succeeded (`DoneIsGone`); every step keeps, replaces or drops that thing.

### The PostgreSQL job queue

`JobQueueProofs`, from `JobsAssumption` (the types of the parameters):

* `JobsTypeCorrect` - `JobsSpec => []JobsTypeOK`; in particular no row's attempts reach
  `maxAttempts`;
* `NoJobIsLost` - `JobsSpec => []NoJobLost`, although two workers may run one job at once;
* `RetryPolicyKept` - `JobsSpec => []PolicyKept`;
* `OnlyOrphansReaped` - `JobsSpec => ReapsOnlyOrphans`, for any interval and threshold. The
  property itself says when a worker is safe: `(missed[w] + 1) * heartbeatInterval <=
  staleJobThreshold` (`Tolerated`). The defaults, 30 s and 120 s, tolerate three failed
  heartbeats in a row; the constructor accepts any two numbers, and with an interval above the
  threshold no worker is safe even when none fails.

The first two rest on `Inv == JobsTypeOK /\ accepted \subseteq Jobs /\ SlotsOK /\
NoJobLost`. `SlotsOK` is what the statements of a dispatch rely on: a dispatch that
is about to delete its row has seen its handler succeed, and one that is about to
retry has an attempt left. The first makes `DeleteDone` safe however many other
dispatches work on the row; `Bury` is safe because the dead letter is written by the
transaction that deletes; everything else keeps the rows (`RowsKept`, lemma
`NothingLost`). `PolicyInv` adds, for a job outside `overlap`, that one dispatch at most
works on it (`Single`), that a buried job has no row and no dispatch (`Buried`), that its
failures are its row's attempts but for crashes and faults (`Counted`), and that after a
success only the delete is left (`Handled`). `BeatInv` is for jobs outside `overlap` and
`left`: the job of a dispatch is in its worker's `inFlight`, and a row that its worker marked
is no older than `Silence(w) == missed[w] * heartbeatInterval + beat[w]`, the time since
the last heartbeat that succeeded. A failed heartbeat moves one interval from `beat` to
`missed` and leaves the sum alone (`SameSilence`). As `beat` is at most one interval, the row of
a tolerated worker is within the threshold, and what the reaper takes belongs to nobody
who works on it. `StartedInv`: a worker that is not
started has dispatches only of jobs in `left`.

### The saga engine and its lock

`SagaProofs`, from `LockAssumption` and `WorkflowAssumption` (types, disjoint pools and
finitely many calls):

* `LockExcludes` - `SagaSpec => []OneProcessHolds`, although unlock statements may
  hit the wrong session, timers and owners both release, statements fail and
  processes crash;
* `TextPoolNeverRuns` - if the pool hands booleans over as text, no call ever gets past
  the lock and so no step ever runs (section 5);
* `StepsRunInOrder` - `SagaSpec => []StepsInOrder`, overlapping calls included;
* `RecordedStepsRunOnce`, `RollbackUndoesAll` and `TerminalRowIsFinal` - the properties
  `RecordedRunsOnce`, `RollbackComplete` and `TerminalIsFinal`, which excuse overlaps.

The inductive invariant of the lock, `LockInv`, has five parts: the types of the lock's
variables; `AsksOnce`, a call that asks for the lock has no handle; `OneHolder`,
PostgreSQL's own guarantee that one session has the lock; `OwnSession`, a handle was
granted by a session of its process; and `Covered`, a session's count is at least the
number of unreleased handles it granted. The last is the crux: all unreleased handles are
of the one session that holds the lock, an unlock that misses it lowers no count, and one
that hits it lowers the count by one and ends one handle. So a process with a handle
left has a session that holds the lock, and with `OneHolder` no other process has one.

`SagaInv` is about the row and its copies. In every state, whatever overlaps, the row and
each call's copy stand after recorded steps only (`RowOK`, `CallOK`): stale copies that are
written back are old, never ahead. While nothing overlapped (`Solo`), one call is in
progress, the row records all that ran, the calls' copies agree with it, and a workflow
that ended has its steps undone or a call that still undoes them.

### The connection pool

`PoolProofs`, from `PoolAssumption` (types; `maxConnections` positive and not below
`minConnections`; finitely many identities): `PoolTypeCorrect`, `PoolKeepsMaximum`,
`LentToOne`, `FreeIsServed` and `ClosedOpensNothing`, for `PoolTypeOK`, `PoolBounded`,
`ExclusiveUse`, `NoNeedlessWait` and `CloseLeavesInflightOnly`.

`PoolInv` adds to these what ties the tables together: `ConnOK`, what each status of a
connection implies for its marks and its membership in the list; `CallerOK`, a holder's
connection is marked in use, and one is opened only for a caller that awaits it;
`Distinct`, which is `ExclusiveUse` and its counterpart for connects; `WarmupOK`, before a
warm-up has succeeded there are only its own connections and nobody is past it, so that
the warm-up cannot take the pool past its maximum; `QueueOK`, nobody waits in a pool that
is closed. The bound itself counts the pooled connections and those being opened that are not strays
(`PoolBounded`): one that connects moves from the second group to the first, and
`Room` tests their sum.

### The workflow engine

`WorkflowProofs`, for every program that is a sequence of commands, from
`WorkflowAssumption` (types; there is a drive; `None` is no snapshot):
`SettledNotReexecuted`, `JournalOnlyGrows`, `OverIsOver` and `RollbacksReversedOnce`, for
`NoReexecution`, `JournalGrows`, `TerminalIsFinal` and `RollbackReverseOnce`. Like the
properties they are about behaviours up to the first race of two writers.

`WInv == Typed /\ Quiet /\ (~raced => Sound)`. `Typed` includes what a drive knows by
itself: the command it executes is the frontier of its copy and not failed there.
`Sound` says that one drive is active; that its copy has the stored journal, but for the
mark of a rollback it has yet to save (`Agrees`); that a call with a fresh copy has the
stored snapshot (`CallOK`); that only the last command may be waiting (`JournalOK`); and
that whatever was rolled back is recorded as completed and known to be undone to every drive
that captured it (`RolledBack`), which is why no compensation runs twice even when the save
of its mark fails. `OrderOK`, for behaviours without crash and fault, gives the reverse
order: while a drive compensates, all its targets are before the last one undone.

### The Redis driver

`RedisProofs`, from `RedisAssumption` (types; a positive lease, number of tries and
ceiling; `None` is no job, number or call):

* `RedisTypeCorrect` - `RedisSpec => []RedisTypes`, with no further hypothesis. The
  stronger invariant `TypeInv` that it follows from says which registers a call has filled
  at which label (`Shaped`), so every command has the id or the token that it sends;
* `RedisReservedByOne` - `[]ReservedByOne`;
* `RedisLossesExplained` - `[]LossesAreExplained`.

The last two are for any number of processes, jobs, queues and crashes, under two
hypotheses. Neither can be dropped: TLC finds `LossesAreExplained` false without the
first, and both properties false without the second.

* `~SlowHandlers`: a live process settles within its lease. Otherwise a worker that is slow
  between its commands writes the owner key after another one reserved the job, whose
  nack then takes itself for a loser; with a crash of the slow one the job is gone
  from Redis, and no gap of `exposed` explains it;
* `OneOperator`: one process uses the dead-letter API. `removeDeadLetter` reads the list,
  removes the record and does not look at the reply of `LREM`, so two concurrent retries
  of one dead letter both enqueue it, and two workers then reserve it.

The inductive invariant is `RedisInv == TypeInv /\ LeaseInv /\ Booked /\ Finding /\ Placed
/\ KeptInv`.

* `LeaseInv`: tokens are given out in order and have one lease at most (`FreshTokens`);
  nobody else uses the token of a process (`UniqueTokens`); a process has, at each label,
  the lease and the reservation record that its earlier commands wrote and its later ones
  have not yet removed (`LeasesHeld`); and what a reserve call is going to reclaim had expired
  when the call read the clock (`CallsAreYoung`). Together: a reclaim, however late its commands
  come, only meets leases that no live process has.
* `Placed` is the crux. The places of a job are the ready set, the delayed set, a lease with its
  reservation record, the hands of a process (it removed the id from one place and has
  not yet added it to the next) and the dead letters; a job is in one of them and there
  once. A process with a reservation has its lease, so `ReservedByOne` follows. `ZREM`'s
  reply is what makes it inductive: of several processes that read one id only the one
  that removed it goes on. `Finding` is the one place where the code does not look at the
  reply, and needs `OneOperator`.
* `Booked`: what is in Redis was accepted, and a job that is being enqueued is not
  accepted before its `ZADD`.
* `KeptInv`: a job that is owed (accepted, not handled, not dropped, not exposed) has a
  place and an envelope (`Kept`), and whoever lets go of a job for good does so after a success,
  a purge or a gap (`Settling`).

An action is one of three kinds, each with a lemma: it leaves the places of the jobs
alone (`QuietStep`), removes a job from a place (`ShrinkStep`), or moves one from a place
to the next (`MoveStep`). Each action then has a lemma for the types and one for the
invariant.

In all these modules each action has its own step, and the actions that share an operation
share a lemma about it.

### Only model-checked

* Liveness (`EveryJobSettles`, `CloseCompletes`, `AcceptedJobSettles`, `RunSettles`,
  `SignalWakes`, `EveryAcquireSettles`, `JobsSettle`): the prover handles neither
  fairness nor `ENABLED`.

## 5. Where the documentation says more than the code does

Each of these runs states one sentence of the documentation or comments, and TLC
finds a behaviour of the model against it. `PROJECT.json` quotes the lines.

| Run | Property | What happens |
|---|---|---|
| `v_redis` | `NoAcceptedJobLost` | a reclaim puts a slow worker's job back; another worker reserves it; the reclaim's second command deletes the new owner; the new worker's nack then takes itself for a loser and drops the job |
| `v_saga` | `SagaComplete` | a saga completes a compensable step, waits for a signal, is resumed and fails: only steps executed in the resumed drive are rolled back |
| `v_jobs` | `OneWorkerAtATime` | two workers select one row before either marks it as running |

Other limits of the code met while modelling; the properties are stated so as not to
claim more:

* a job of the memory driver whose lease expires during its last attempt may be
  dead-lettered by both its reservations, since `moveToDeadLetter` does not test
  ownership as `nack` does;
* a stale reservation that succeeds releases the dedupe key of a job that is queued
  again, and `purge` leaves the keys of what it drops in the facade's registry:
  `DedupeExact` is for reservations that keep their lease and queues that are not purged;
* two workers share the rate store but not the chain that serializes count and hit,
  and a quota above the store's cap per key is never reached: `QuotaRespected` is for
  one worker and a cap at or above the quota;
* `close()` may resolve while the job that `pump` was awaiting starts to run
  (`AtMostOneStraggler` bounds this), and a timed-out handler runs on beside the one
  in its freed slot;
* a crash of a process that uses the Redis driver loses the job it has in hand
  between two commands (`InHand` lists where);
* two operators that retry one dead letter of the Redis driver at once both enqueue it
  (`removeDeadLetter` in `queue/src/drivers/redis.ts` ignores what `LREM` answers), and a worker
  whose lease ran out between its own commands overwrites the owner key of the reservation
  that followed; `ReservedByOne` and `LossesAreExplained` are for one operator and
  leases that are kept (section 4);
* a workflow whose snapshot is saved by two writers may lose commands, signals or
  a cancellation, and two drives of one run both execute its frontier; nothing takes up a paused run; nothing in the engine wakes a
  sleeping one, and a re-driven sleep starts anew;
* a failed warm-up leaves connects behind that may take the pool past its maximum,
  and connects in progress at `close()` stay open; a connection released in
  mid-stream is not offered to waiters when it becomes ready.
* the repository's PostgreSQL pool delivers every column as text
  (`postgres/src/wire.ts`, `_parseDataRow`), and `_tryAcquire` tests for `true`: with that
  pool `acquire()` always ends in a timeout, after each attempt has raised the session's
  count, and no workflow of the core runs a step (`TextPoolNeverRuns`). The run `saga`
  is for a pool that parses booleans;
* advisory locks are re-entrant in a session, so two calls in one process may both be
  past the lock; an unlock on another session than the one that locked leaves the
  lock held until the session ends;
* `resume()` reads the row before it has the lock: a call that waited works from an
  old copy, so overlapping calls repeat steps and may reopen a finished workflow
  (hence `overlapped` in the properties);
* a workflow that timed out is resumed by the next `resume()` over steps that were
  compensated, and may be compensated again; after a resume, steps that a condition
  skipped are compensated as if they had run, which the comment at
  `core/src/jobs/workflow.ts:170` excludes; a crash during a compensation leaves a
  status that says `failed` with the rollback unfinished (`abandoned`); a step whose
  output cannot be saved is not compensated itself;
* `stop()` of the PostgreSQL queue clears the three timers and returns: it does not look at
  the jobs in flight, although `docs/jobs/index.md:87` says "Drains in-flight jobs before
  shutting down". In the model four steps suffice (enqueue, `Poll`, `Lock`, `Stop`) for a
  stopped worker with a job in flight. Such a job has no heartbeats any more, so another
  worker may reap it and run it a second time; and so it is with the jobs of a running worker
  whose heartbeats fail for longer than the threshold allows (`ReapsOnlyOrphans` leaves out
  both);
* the scheduler's lock per cron tick is given back when the dispatch is done, so an
  instance whose timer is late fires the tick again (`queue/src/scheduler.ts:236`).

## 6. Not modelled, and abstractions

* Payloads, names, events, statistics, logging. The handler's outcome is a free
  choice between success and failure; middleware is part of the handler.
* Driver calls that fail: the memory driver's do not.
* Registration (`process`, `schedule`, `use`) happens before the behaviour starts;
  whether a type has a handler is part of a job's options.
* Workers exist and run from the start; `Start` is a start after a stop. All
  workers of a run are created before the first dispatch.
* The scheduler's overlap guard `promoting`: `promoteDue` of the memory driver never
  awaits, so passes cannot overlap. Cron fires: see the plan.
* The rate store's eviction of keys and its retention sweep: a queue uses one key
  per limited queue and stays far below `maxKeys`.
* Delays are whole milliseconds and jitter a percentage.
* Redis: commands that fail (a lost connection surfaces as an error of the call; the
  crash of its process covers the state it leaves), and the size of the ready score:
  `PriorityMult` is a parameter.
* Workflow: parallel branches, middleware, `restart`, `resumeDueTimers` (the host's
  call), several runs, the Redis store's serialization. A failed load ends a call
  before it changes anything.
* Pool: an explicit `initialize()` beside the lazy one; the order of statements on
  one connection, which the wire's own gate serializes.
* Saga: step outputs' values, several workflows (their lock keys are taken as
  distinct), and a statement that takes effect and is reported as failed. A session
  lives as long as its process: left out are a session that the server ends, and one that the
  pool's idle sweep closes while it has the lock (`pool/src/pool.ts:314-331`). With the
  defaults the lock's TTL of 30 s comes before the idle timeout of 30 s is noticed.
* Jobs: the order of a poll (`run_at`), the poll's limit (the number of slots), and a
  failing poll or reap, which changes nothing and is tried again at the next interval: a
  stuttering step. Heartbeat timers fire on time; one that is late by up to an interval delays
  the refresh no longer than one that fails.
* Everything else in the repository: see `components` in `PROJECT.json`. Most of its
  lines are adapters, generators, presentation and byte-level protocols, without a
  state machine to check.

## 7. Plan

Done so far: the queue over the memory driver, the Redis driver, the workflow engine,
the PostgreSQL job queue, the core saga engine with its lock, and the connection pool,
with proofs of the safety properties of all of them.
Next:

1. **More of the system**: the cron fire with the scheduler lock (several instances,
   clocks that differ within a minute), the binary heap against `IsNext`, parallel
   branches of a workflow, the circuit breaker and the webhook dispatcher.
