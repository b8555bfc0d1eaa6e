------------------------------- MODULE JobQueue -------------------------------
(***************************************************************************)
(* The PostgreSQL job queue of the framework's core                        *)
(* (packages/core/src/jobs/queue.ts), run by several worker processes.     *)
(*                                                                         *)
(* Every statement commits by itself, except the two of the move to the    *)
(* dead-letter table.  A slot is one _dispatch in progress: a poll that    *)
(* reads several rows fills several slots.  The SELECT ... FOR UPDATE SKIP *)
(* LOCKED of a poll gives its row locks up as it commits, so a row stays   *)
(* visible to other polls until an UPDATE changes its status.              *)
(***************************************************************************)
EXTENDS Integers, Sequences, FiniteSets

CONSTANTS
  Workers, Slots,
  WorkerOf,            \* the worker a slot belongs to
  Jobs,
  maxAttempts,         \* retry policy
  BackoffMax,          \* run_at is at most this many ticks ahead
  heartbeatInterval, staleJobThreshold,
  MaxCrashes, MaxFaults, MaxSkips, MaxStops, MaxPrunes,   \* bounds
  None

ASSUME JobsAssumption ==
  /\ WorkerOf \in [Slots -> Workers]
  /\ maxAttempts \in Nat \ {0} /\ BackoffMax \in Nat
  /\ heartbeatInterval \in Nat \ {0} /\ staleJobThreshold \in Nat
  /\ {MaxCrashes, MaxFaults, MaxSkips, MaxStops, MaxPrunes} \subseteq Nat
  /\ None \notin Jobs

VARIABLES
  row,       \* street_jobs: [status, attempts, due, worker, age] of each job
  dlq,       \* street_dead_letter_queue: job ids, oldest first
  slot,      \* [pc, job, attempt] of each dispatch
  inFlight,  \* jobs each worker's heartbeat refreshes: a set, so two dispatches
             \* of one job in one worker share an entry
  started,   \* are the worker's timers running?
  beat,      \* ticks since the worker's heartbeat timer last fired
  missed,    \* history: heartbeats of the worker that failed in a row
  left,      \* history: jobs that a worker had when it was stopped
  accepted, succeeded, pruned, \* history: enqueued, handled, deleted from the dlq
  failures,  \* history: how often the job's handler failed
  overlap,   \* history: jobs that two slots had at once
  crashes, faults, skips, stops, prunes

counters == <<crashes, faults, skips, stops, prunes>>
beats == <<beat, missed, left>>
seen == <<accepted, succeeded, pruned, failures, overlap>>
jobVars == <<row, dlq, slot, inFlight, started, beats, seen, counters>>

(* due: ticks until run_at; age: ticks since locked_at.                    *)
NoRow == [status |-> "none", attempts |-> 0, due |-> 0, worker |-> None, age |-> 0]
Free == [pc |-> "idle", job |-> None, attempt |-> 0]

JobsInit ==
  /\ row = [j \in Jobs |-> NoRow] /\ dlq = <<>>
  /\ slot = [s \in Slots |-> Free] /\ inFlight = [w \in Workers |-> {}]
  /\ started = [w \in Workers |-> TRUE] /\ beat = [w \in Workers |-> 0]
  /\ missed = [w \in Workers |-> 0] /\ left = {}
  /\ accepted = {} /\ succeeded = {} /\ pruned = {} /\ overlap = {}
  /\ failures = [j \in Jobs |-> 0]
  /\ crashes = 0 /\ faults = 0 /\ skips = 0 /\ stops = 0 /\ prunes = 0

(* An UPDATE or DELETE by id changes the row if it is still there.         *)
Update(j, r) == row' = IF row[j].status = "none" THEN row ELSE [row EXCEPT ![j] = r]
Delete(j) == row' = [row EXCEPT ![j] = NoRow]

Step(s, pc) == slot' = [slot EXCEPT ![s].pc = pc]
Done(s) ==
  /\ slot' = [slot EXCEPT ![s] = Free]
  /\ inFlight' = [inFlight EXCEPT ![WorkerOf[s]] = @ \ {slot[s].job}]

----------------------------------------------------------------------------
enqueue(j, delay) ==
  /\ j \notin accepted
  /\ row' = [row EXCEPT ![j] = [NoRow EXCEPT !.status = "pending", !.due = delay]]
  /\ accepted' = accepted \cup {j}
  /\ UNCHANGED <<dlq, slot, inFlight, started, beats, succeeded, pruned, failures,
                 overlap, counters>>

(* _poll: the SELECT.                                                      *)
Poll(s, j) ==
  /\ slot[s].pc = "idle" /\ started[WorkerOf[s]]
  /\ row[j].status = "pending" /\ row[j].due = 0
  /\ slot' = [slot EXCEPT ![s] = [pc |-> "selected", job |-> j, attempt |-> row[j].attempts]]
  /\ overlap' = IF \E r \in Slots : slot[r].job = j THEN overlap \cup {j} ELSE overlap
  /\ UNCHANGED <<row, dlq, inFlight, started, beats, accepted, succeeded, pruned, failures,
                 counters>>

(* _dispatch: the row is marked as running, whatever its state by now.     *)
Lock(s) ==
  LET j == slot[s].job IN
  /\ slot[s].pc = "selected"
  /\ Update(j, [row[j] EXCEPT !.status = "running", !.worker = WorkerOf[s], !.age = 0])
  /\ Step(s, "executing")
  /\ inFlight' = [inFlight EXCEPT ![WorkerOf[s]] = @ \cup {j}]
  /\ UNCHANGED <<dlq, started, beats, seen, counters>>

HandlerSucceeds(s) ==
  /\ slot[s].pc = "executing"
  /\ Step(s, "delete")
  /\ succeeded' = succeeded \cup {slot[s].job}
  /\ UNCHANGED <<row, dlq, inFlight, started, beats, accepted, pruned, failures, overlap, counters>>

DeleteDone(s) ==
  /\ slot[s].pc = "delete"
  /\ Delete(slot[s].job) /\ Done(s)
  /\ UNCHANGED <<dlq, started, beats, seen, counters>>

(* _handleFailure decides by the attempt count read in the poll.           *)
FailurePcLate(s) == IF slot[s].attempt + 1 > maxAttempts THEN "bury" ELSE "retry"
FailurePc(s) == IF slot[s].attempt + 1 >= maxAttempts THEN "bury" ELSE "retry"

HandlerFails(s) ==
  /\ slot[s].pc = "executing"
  /\ Step(s, FailurePc(s))
  /\ failures' = [failures EXCEPT ![slot[s].job] = @ + 1]
  /\ UNCHANGED <<row, dlq, inFlight, started, beats, accepted, succeeded, pruned,
                 overlap, counters>>

RetryUncounted(s, delay) ==
  /\ slot[s].pc = "retry"
  /\ Update(slot[s].job, [status |-> "pending", attempts |-> slot[s].attempt,
                          due |-> delay, worker |-> None, age |-> 0])
  /\ Done(s)
  /\ UNCHANGED <<dlq, started, beats, seen, counters>>

Retry(s, delay) ==
  /\ slot[s].pc = "retry"
  /\ Update(slot[s].job, [status |-> "pending", attempts |-> slot[s].attempt + 1,
                          due |-> delay, worker |-> None, age |-> 0])
  /\ Done(s)
  /\ UNCHANGED <<dlq, started, beats, seen, counters>>

(* _moveToDlq: INSERT and DELETE in one transaction.                       *)
Bury(s) ==
  /\ slot[s].pc = "bury"
  /\ dlq' = Append(dlq, slot[s].job)
  /\ Delete(slot[s].job) /\ Done(s)
  /\ UNCHANGED <<started, beats, seen, counters>>

MarkFailed(s) ==
  LET j == slot[s].job IN
  /\ slot[s].pc = "markFailed"
  /\ Update(j, [row[j] EXCEPT !.status = "failed"])
  /\ Done(s)
  /\ UNCHANGED <<dlq, started, beats, seen, counters>>

(* A statement fails: an unlocked job is dropped, a job that could not be  *)
(* deleted is handled as failed, one that could not be buried is to be     *)
(* marked; any other error ends the dispatch and leaves the row as it is.  *)
StatementFailsUnatomically(s) ==
  /\ faults < MaxFaults
  /\ slot[s].pc = "bury"
  /\ faults' = faults + 1
  /\ Delete(slot[s].job) /\ Done(s)
  /\ UNCHANGED <<dlq, started, beats, seen, crashes, skips, stops, prunes>>

StatementFails(s) ==
  /\ faults < MaxFaults
  /\ slot[s].pc \in {"selected", "delete", "retry", "bury", "markFailed"}
  /\ faults' = faults + 1
  /\ CASE slot[s].pc = "delete"   -> Step(s, FailurePc(s)) /\ inFlight' = inFlight
       [] slot[s].pc = "bury"     -> Step(s, "markFailed") /\ inFlight' = inFlight
       [] slot[s].pc = "selected" -> slot' = [slot EXCEPT ![s] = Free] /\ inFlight' = inFlight
       [] OTHER                   -> Done(s)
  /\ UNCHANGED <<row, dlq, started, beats, seen, crashes, skips, stops, prunes>>

----------------------------------------------------------------------------
(* _heartbeat: the rows that name this worker and that it is working on.   *)
HeartbeatOfPending(w) ==
  /\ started[w] /\ beat[w] > 0
  /\ beat' = [beat EXCEPT ![w] = 0] /\ missed' = [missed EXCEPT ![w] = 0]
  /\ row' = [j \in Jobs |->
       IF row[j].status = "pending" /\ row[j].worker = w /\ j \in inFlight[w]
       THEN [row[j] EXCEPT !.age = 0] ELSE row[j]]
  /\ UNCHANGED <<dlq, slot, inFlight, started, left, seen, counters>>

Heartbeat(w) ==
  /\ started[w] /\ beat[w] > 0
  /\ beat' = [beat EXCEPT ![w] = 0] /\ missed' = [missed EXCEPT ![w] = 0]
  /\ row' = [j \in Jobs |->
       IF row[j].status = "running" /\ row[j].worker = w /\ j \in inFlight[w]
       THEN [row[j] EXCEPT !.age = 0] ELSE row[j]]
  /\ UNCHANGED <<dlq, slot, inFlight, started, left, seen, counters>>

(* Its UPDATE fails: the beat is skipped, the rows age on.                 *)
HeartbeatFails(w) ==
  /\ skips < MaxSkips
  /\ started[w] /\ beat[w] > 0 /\ inFlight[w] # {}
  /\ skips' = skips + 1
  /\ beat' = [beat EXCEPT ![w] = 0] /\ missed' = [missed EXCEPT ![w] = @ + 1]
  /\ UNCHANGED <<row, dlq, slot, inFlight, started, left, seen, crashes, faults, stops, prunes>>

(* _reapStaleJobs, by any worker.                                          *)
Stale(j) == row[j].status = "running" /\ row[j].age > staleJobThreshold

ReapUnlocksOnly(w) ==
  /\ started[w] /\ \E j \in Jobs : Stale(j)
  /\ row' = [j \in Jobs |-> IF Stale(j)
               THEN [row[j] EXCEPT !.worker = None, !.age = 0] ELSE row[j]]
  /\ UNCHANGED <<dlq, slot, inFlight, started, beats, seen, counters>>

Reap(w) ==
  /\ started[w] /\ \E j \in Jobs : Stale(j)
  /\ row' = [j \in Jobs |-> IF Stale(j)
               THEN [row[j] EXCEPT !.status = "pending", !.worker = None, !.age = 0]
               ELSE row[j]]
  /\ UNCHANGED <<dlq, slot, inFlight, started, beats, seen, counters>>

(* stop() clears the timers and leaves the dispatches in progress alone.   *)
Stop(w) ==
  /\ started[w] /\ stops < MaxStops
  /\ started' = [started EXCEPT ![w] = FALSE] /\ stops' = stops + 1
  /\ left' = left \cup ({slot[s].job : s \in {r \in Slots : WorkerOf[r] = w}} \ {None})
  /\ UNCHANGED <<row, dlq, slot, inFlight, beat, missed, seen, crashes, faults, skips, prunes>>

Start(w) ==
  /\ ~started[w]
  /\ started' = [started EXCEPT ![w] = TRUE] /\ beat' = [beat EXCEPT ![w] = 0]
  /\ UNCHANGED <<row, dlq, slot, inFlight, missed, left, seen, counters>>

(* The worker process dies and is started anew.                            *)
Crash(w) ==
  /\ crashes < MaxCrashes /\ \E s \in Slots : WorkerOf[s] = w /\ slot[s].pc # "idle"
  /\ crashes' = crashes + 1
  /\ slot' = [s \in Slots |-> IF WorkerOf[s] = w THEN Free ELSE slot[s]]
  /\ inFlight' = [inFlight EXCEPT ![w] = {}]
  /\ started' = [started EXCEPT ![w] = TRUE] /\ beat' = [beat EXCEPT ![w] = 0]
  /\ missed' = [missed EXCEPT ![w] = 0]
  /\ UNCHANGED <<row, dlq, left, seen, faults, skips, stops, prunes>>

(* pruneDeadLetterQueue keeps the newest entries.                          *)
pruneDeadLetterQueue(maxEntries) ==
  /\ prunes < MaxPrunes /\ Len(dlq) > maxEntries
  /\ prunes' = prunes + 1
  /\ dlq' = SubSeq(dlq, Len(dlq) - maxEntries + 1, Len(dlq))
  /\ pruned' = pruned \cup {dlq[i] : i \in 1..(Len(dlq) - maxEntries)}
  /\ UNCHANGED <<row, slot, inFlight, started, beats, accepted, succeeded, failures, overlap,
                 crashes, faults, skips, stops>>

(* Time passes; the timer of a started worker keeps to its interval,       *)
(* whether its beats succeed or not.                                       *)
Ticking(j) ==
  LET r == row[j] IN
  [r EXCEPT !.due = IF r.due > 0 THEN r.due - 1 ELSE 0,
            !.age = IF r.status = "running" /\ r.age <= staleJobThreshold THEN r.age + 1 ELSE r.age]

Tick ==
  /\ \A w \in Workers : started[w] => beat[w] < heartbeatInterval
  /\ beat' = [w \in Workers |-> IF started[w] /\ inFlight[w] # {} THEN beat[w] + 1 ELSE 0]
  /\ row' = [j \in Jobs |-> Ticking(j)]
  /\ row' # row \/ beat' # beat
  /\ UNCHANGED <<dlq, slot, inFlight, started, missed, left, seen, counters>>

Dispatch(s) ==
  \/ Lock(s) \/ HandlerSucceeds(s) \/ HandlerFails(s) \/ DeleteDone(s)
  \/ (\E delay \in 0..BackoffMax : Retry(s, delay)) \/ Bury(s) \/ MarkFailed(s)

JobsNext ==
  \/ \E j \in Jobs, delay \in 0..1 : enqueue(j, delay)
  \/ \E s \in Slots : Dispatch(s) \/ StatementFails(s) \/ \E j \in Jobs : Poll(s, j)
  \/ \E w \in Workers : \/ Heartbeat(w) \/ HeartbeatFails(w) \/ Reap(w)
                        \/ Stop(w) \/ Start(w) \/ Crash(w)
  \/ \E n \in 0..1 : pruneDeadLetterQueue(n)
  \/ Tick

JobsSpec == JobsInit /\ [][JobsNext]_jobVars

(* Timers fire, handlers return and statements complete; nobody has to     *)
(* start a stopped worker.                                                 *)
JobsFairness ==
  /\ WF_jobVars(Tick)
  /\ \A s \in Slots : WF_jobVars(Dispatch(s)) /\ WF_jobVars(\E j \in Jobs : Poll(s, j))
  /\ \A w \in Workers : WF_jobVars(Heartbeat(w)) /\ WF_jobVars(Reap(w))

JobsLiveSpec == JobsSpec /\ JobsFairness

----------------------------------------------------------------------------
(* Rows, slots and counters are of their kinds; no row has used up its     *)
(* attempts.                                                               *)
JobsTypeOK ==
  /\ row \in [Jobs -> [status : {"none", "pending", "running", "failed"},
                       attempts : 0..(maxAttempts - 1), due : Nat,
                       worker : Workers \cup {None}, age : 0..(staleJobThreshold + 1)]]
  /\ dlq \in Seq(Jobs)
  /\ slot \in [Slots -> [pc : {"idle", "selected", "executing", "delete", "retry", "bury",
                               "markFailed"},
                         job : Jobs \cup {None}, attempt : 0..(maxAttempts - 1)]]
  /\ beat \in [Workers -> 0..heartbeatInterval]
  /\ inFlight \in [Workers -> SUBSET Jobs]

(* background-jobs.md, "moved to the DLQ, not lost": an accepted job has a *)
(* row until a handler has succeeded or a dead letter was written for it,  *)
(* whatever crashes, failing statements and duplicate dispatches do.       *)
NoJobLost ==
  \A j \in accepted :
    \/ row[j].status # "none"
    \/ j \in succeeded \cup pruned
    \/ \E i \in 1..Len(dlq) : dlq[i] = j

(* A job that was never dispatched twice at once keeps to its policy: at   *)
(* most one dead letter, no more failures than attempts (each crash or     *)
(* failing statement may cost one more), and without those never both      *)
(* success and a dead letter.                                              *)
PolicyKept ==
  \A j \in Jobs \ overlap :
    /\ Cardinality({i \in 1..Len(dlq) : dlq[i] = j}) <= 1
    /\ failures[j] <= maxAttempts + crashes + faults
    /\ (crashes + faults = 0 /\ j \in succeeded) => \A i \in 1..Len(dlq) : dlq[i] # j

(* Crash recovery: the reaper takes a job only from a worker that no       *)
(* longer works on it, as long as the heartbeats that failed in a row      *)
(* span less than the threshold. Not so for a job that its worker had      *)
(* when it was stopped, which ends the heartbeats of what it still runs,   *)
(* nor for one dispatched twice: when both were in one worker, the end of  *)
(* one takes the job out of the other's inFlight.                          *)
Tolerated(w) == (missed[w] + 1) * heartbeatInterval <= staleJobThreshold

ReapsOnlyOrphans ==
  [][\A j \in Jobs \ (overlap \cup left), s \in Slots :
       /\ Stale(j) /\ row'[j].status = "pending"
       /\ WorkerOf[s] = row[j].worker /\ slot[s].job = j /\ Tolerated(WorkerOf[s])
       => slot[s].pc = "selected"]_jobVars

(* While some worker runs, every accepted job is handled, buried or marked *)
(* as failed in the end, although workers die and statements fail.         *)
JobsSettle ==
  \A j \in Jobs : (j \in accepted) ~> (row[j].status \in {"none", "failed"})

(* background-jobs.md, "each job is dequeued by exactly one worker at a    *)
(* time".                                                                  *)
OneWorkerAtATime ==
  \A r, s \in Slots :
    (slot[r].pc = "executing" /\ slot[s].pc = "executing" /\ slot[r].job = slot[s].job) => r = s
=============================================================================
