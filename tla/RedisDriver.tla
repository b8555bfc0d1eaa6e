----------------------------- MODULE RedisDriver -----------------------------
(***************************************************************************)
(* The durable queue driver (packages/queue/src/drivers/redis.ts), used by *)
(* several processes at once.  Redis executes one command at a time and    *)
(* the client has neither scripts nor transactions, so an operation of the *)
(* driver is a sequence of commands: each action below is one command of   *)
(* one process, with the local computation up to its next command.  A      *)
(* process may crash between any two of its commands.                      *)
(*                                                                         *)
(* An idempotent SADD to the registry of queue names goes with the command *)
(* after it, and the publication of wake-ups, which store nothing, is left *)
(* out.                                                                    *)
(***************************************************************************)
EXTENDS Integers, Sequences, FiniteSets

CONSTANTS
  Procs,         \* processes (each runs one driver call at a time)
  Producers, Workers, Schedulers, Operators,   \* which calls a process makes
  Jobs,          \* job ids
  JobInfo,       \* [queue, priority, seq] of each
  ReserveOrder,  \* the queues a worker reserves from, in order
  PriorityMult,  \* 2^40 in the code
  ReserveTries,  \* lost races for the head of a queue before giving it up: 16
  VisibilityMs,  \* length of a lease
  MaxAttempts,   \* of every job
  SlowHandlers,  \* may a live process outlive its lease?
  MaxTime, MaxToken, MaxCrashes, MaxCalls,   \* bounds (MaxCalls: operator's)
  None

ASSUME RedisAssumption ==
  /\ Producers \cup Workers \cup Schedulers \cup Operators \subseteq Procs
  /\ \A j \in Jobs : JobInfo[j].seq \in Nat /\ JobInfo[j].priority \in Int
  /\ VisibilityMs \in Nat \ {0} /\ ReserveTries \in Nat \ {0} /\ Len(ReserveOrder) \in Nat
  /\ MaxAttempts \in Nat \ {0} /\ SlowHandlers \in BOOLEAN
  /\ {MaxTime, MaxToken, MaxCrashes, MaxCalls} \subseteq Nat
  /\ None \notin Jobs \cup Int \cup {"reserve", "ack", "purge"}

VARIABLES
  now,
  queues,      \* {p}:queues       the registry of queue names
  job,         \* {p}:job:{id}     attempts of the stored envelope, or None
  ready,       \* {p}:{q}:ready    ids
  delayed,     \* {p}:{q}:delayed  [id, runAt]
  processing,  \* {p}:{q}:processing  [token, queue, expires]
  res,         \* {p}:res:{token}  the job a token reserved, or None
  owner,       \* {p}:owner:{id}   the token that owns a job, or None
  dead,        \* {p}:{q}:dead     [id, token]: who buried it
  token,       \* tokens generated so far
  proc,        \* what each process is doing
  crashes, calls,   \* so far (calls: of the operator's API)
  accepted, succeeded, discarded, \* history: enqueued; handled; purged or flushed
  exposed      \* history: jobs that met one of the gaps between two commands

store == <<queues, job, ready, delayed, processing, res, owner, dead, token>>
history == <<crashes, calls, accepted, succeeded, discarded, exposed>>
redisVars == <<now, store, proc, history>>

Tokens == 1..MaxToken
QueueOf(id) == JobInfo[id].queue

Idle == [pc |-> "idle", op |-> None, at |-> 0, scan |-> {}, todo |-> {},
         qi |-> 1, tries |-> 0, id |-> None, token |-> None, attempts |-> 0]

RedisInit ==
  /\ now = 0 /\ queues = {} /\ ready = {} /\ delayed = {} /\ processing = {}
  /\ dead = {} /\ token = 0 /\ crashes = 0 /\ calls = 0
  /\ job = [j \in Jobs |-> None] /\ owner = [j \in Jobs |-> None]
  /\ res = [t \in Tokens |-> None]
  /\ proc = [p \in Procs |-> Idle]
  /\ accepted = {} /\ succeeded = {} /\ discarded = {} /\ exposed = {}

At(p, pc) == proc[p].pc = pc
Goto(p, s) == proc' = [proc EXCEPT ![p] = s]
Step(p, pc) == Goto(p, [proc[p] EXCEPT !.pc = pc])

(* Higher priority, then earlier enqueue: the head of a ready set has the  *)
(* smallest score.                                                         *)
readyScore(id) == JobInfo[id].seq - JobInfo[id].priority * PriorityMult
IsHead(i, ids) == i \in ids /\ \A k \in ids : readyScore(i) <= readyScore(k)

----------------------------------------------------------------------------
(* enqueue, enqueueDelayed: SADD and SET, then ZADD.                       *)
EnqueuePersist(p, id, delay) ==
  /\ At(p, "idle") /\ p \in Producers
  /\ id \notin accepted /\ job[id] = None
  /\ job' = [job EXCEPT ![id] = 0]
  /\ queues' = queues \cup {QueueOf(id)}
  /\ Goto(p, [Idle EXCEPT !.pc = "add", !.id = id, !.at = now + delay,
                          !.op = IF delay > 0 THEN "enqueueDelayed" ELSE "enqueue"])
  /\ UNCHANGED <<now, ready, delayed, processing, res, owner, dead, token, history>>

EnqueueAdd(p) ==
  LET s == proc[p] IN
  /\ At(p, "add")
  /\ IF s.op = "enqueueDelayed"
     THEN /\ delayed' = {d \in delayed : d.id # s.id} \cup {[id |-> s.id, runAt |-> s.at]}
          /\ ready' = ready
     ELSE ready' = ready \cup {s.id} /\ delayed' = delayed
  /\ accepted' = accepted \cup {s.id}
  /\ Goto(p, Idle)
  /\ UNCHANGED <<now, queues, job, processing, res, owner, dead, token, crashes, calls,
                 succeeded, discarded, exposed>>

----------------------------------------------------------------------------
(* Loops over the known queues (SMEMBERS) and the members found in each:   *)
(* reclaimExpiredLeases, before every reserve, and promoteDue.             *)
Continue(s) ==
  CASE s.todo # {}                 -> [s EXCEPT !.pc = "claim"]
    [] s.todo = {} /\ s.scan # {}  -> [s EXCEPT !.pc = "scan"]
    [] s.op = "reserve" /\ s.todo = {} /\ s.scan = {}
                                   -> [s EXCEPT !.pc = "head", !.id = None, !.token = None]
    [] OTHER                       -> Idle

KnownQueuesNoReclaim(p, op) ==
  /\ At(p, "idle")
  /\ p \in IF op = "reserve" THEN Workers ELSE Schedulers
  /\ Goto(p, Continue([Idle EXCEPT !.op = op, !.at = now,
                                   !.scan = IF op = "reserve" THEN {} ELSE queues]))
  /\ UNCHANGED <<now, store, history>>

KnownQueues(p, op) ==
  /\ At(p, "idle")
  /\ p \in IF op = "reserve" THEN Workers ELSE Schedulers
  /\ Goto(p, Continue([Idle EXCEPT !.op = op, !.at = now, !.scan = queues]))
  /\ UNCHANGED <<now, store, history>>

(* ZRANGEBYSCORE -inf now                                                  *)
Expired(q, at) == {l.token : l \in {l \in processing : l.queue = q /\ l.expires <= at}}
Due(q, at) == {d.id : d \in {d \in delayed : QueueOf(d.id) = q /\ d.runAt <= at}}

ScanQueue(p) ==
  LET s == proc[p] IN
  /\ At(p, "scan")
  /\ \E q \in s.scan :
       Goto(p, Continue([s EXCEPT !.scan = s.scan \ {q},
              !.todo = IF s.op = "reserve" THEN Expired(q, s.at) ELSE Due(q, s.at)]))
  /\ UNCHANGED <<now, store, history>>

(* Whoever's ZREM removes the member owns the rest of the work on it.      *)
ReclaimClaim(p) ==
  LET s == proc[p] IN
  /\ At(p, "claim") /\ s.op = "reserve"
  /\ \E t \in s.todo :
       LET rest == [s EXCEPT !.todo = s.todo \ {t}] IN
       /\ processing' = {l \in processing : l.token # t}
       /\ Goto(p, IF \E l \in processing : l.token = t
                  THEN [rest EXCEPT !.pc = "ref", !.token = t]
                  ELSE Continue(rest))
  /\ UNCHANGED <<now, queues, job, ready, delayed, res, owner, dead, token, history>>

(* A lease without its reservation record yet: the job stays with the      *)
(* process that is reserving it, and with nothing else.                    *)
ReclaimRef(p) ==
  LET s == proc[p] IN
  /\ At(p, "ref")
  /\ Goto(p, [s EXCEPT !.pc = "unref", !.id = res[s.token]])
  /\ exposed' = exposed \cup
       IF res[s.token] = None
       THEN {proc[r].id : r \in {r \in Procs : r # p /\ proc[r].token = s.token}} \ {None}
       ELSE {}
  /\ UNCHANGED <<now, store, crashes, calls, accepted, succeeded, discarded>>

ReclaimDelRef(p) ==
  LET s == proc[p] IN
  /\ At(p, "unref")
  /\ res' = [res EXCEPT ![s.token] = None]
  /\ Goto(p, IF s.id = None THEN Continue(s) ELSE [s EXCEPT !.pc = "reload"])
  /\ UNCHANGED <<now, queues, job, ready, delayed, processing, owner, dead, token, history>>

ReclaimLoadInverted(p) ==
  LET s == proc[p] IN
  /\ At(p, "reload")
  /\ Step(p, IF job[s.id] # None THEN "disown" ELSE "readd")
  /\ UNCHANGED <<now, store, history>>

ReclaimLoad(p) ==
  LET s == proc[p] IN
  /\ At(p, "reload")
  /\ Step(p, IF job[s.id] = None THEN "disown" ELSE "readd")
  /\ UNCHANGED <<now, store, history>>

ReclaimAdd(p) ==
  /\ At(p, "readd")
  /\ ready' = ready \cup {proc[p].id}
  /\ Step(p, "disown")
  /\ UNCHANGED <<now, queues, job, delayed, processing, res, owner, dead, token, history>>

(* DEL owner, whoever owns the job by now.                                 *)
ReclaimDisown(p) ==
  LET s == proc[p] IN
  /\ At(p, "disown")
  /\ owner' = [owner EXCEPT ![s.id] = None]
  /\ exposed' = exposed \cup (IF owner[s.id] \in {None, s.token} THEN {} ELSE {s.id})
  /\ Goto(p, Continue(s))
  /\ UNCHANGED <<now, queues, job, ready, delayed, processing, res, dead, token,
                 crashes, calls, accepted, succeeded, discarded>>

PromoteClaim(p) ==
  LET s == proc[p] IN
  /\ At(p, "claim") /\ s.op = "promote"
  /\ \E id \in s.todo :
       LET rest == [s EXCEPT !.todo = s.todo \ {id}] IN
       /\ delayed' = {d \in delayed : d.id # id}
       /\ Goto(p, IF \E d \in delayed : d.id = id
                  THEN [rest EXCEPT !.pc = "loadDue", !.id = id]
                  ELSE Continue(rest))
  /\ UNCHANGED <<now, queues, job, ready, processing, res, owner, dead, token, history>>

PromoteLoad(p) ==
  LET s == proc[p] IN
  /\ At(p, "loadDue")
  /\ Goto(p, IF job[s.id] = None THEN Continue([s EXCEPT !.id = None])
                                 ELSE [s EXCEPT !.pc = "addDue"])
  /\ UNCHANGED <<now, store, history>>

PromoteAdd(p) ==
  LET s == proc[p] IN
  /\ At(p, "addDue")
  /\ ready' = ready \cup {s.id}
  /\ Goto(p, Continue([s EXCEPT !.id = None]))
  /\ UNCHANGED <<now, queues, job, delayed, processing, res, owner, dead, token, history>>

----------------------------------------------------------------------------
(* reserve: pop the head of the first queue that has one.                  *)
NextQueue(s) ==
  IF s.qi < Len(ReserveOrder)
  THEN [s EXCEPT !.pc = "head", !.qi = s.qi + 1, !.tries = 0, !.id = None]
  ELSE Idle

TryNextHead(s) ==
  IF s.tries + 1 < ReserveTries
  THEN [s EXCEPT !.pc = "head", !.tries = s.tries + 1, !.id = None]
  ELSE NextQueue(s)

PopHead(p) ==
  LET s == proc[p]
      ids == {i \in ready : QueueOf(i) = ReserveOrder[s.qi]}
  IN
  /\ At(p, "head")
  /\ \/ ids = {} /\ Goto(p, NextQueue(s))
     \/ \E i \in Jobs : IsHead(i, ids) /\ Goto(p, [s EXCEPT !.pc = "pop", !.id = i])
  /\ UNCHANGED <<now, store, history>>

PopClaimUnchecked(p) ==
  LET s == proc[p] IN
  /\ At(p, "pop")
  /\ ready' = ready \ {s.id}
  /\ Goto(p, [s EXCEPT !.pc = "load"])
  /\ UNCHANGED <<now, queues, job, delayed, processing, res, owner, dead, token, history>>

PopClaim(p) ==
  LET s == proc[p] IN
  /\ At(p, "pop")
  /\ ready' = ready \ {s.id}
  /\ Goto(p, IF s.id \in ready THEN [s EXCEPT !.pc = "load"] ELSE TryNextHead(s))
  /\ UNCHANGED <<now, queues, job, delayed, processing, res, owner, dead, token, history>>

PopLoad(p) ==
  LET s == proc[p] IN
  /\ At(p, "load")
  /\ Goto(p, IF job[s.id] = None THEN TryNextHead(s)
             ELSE [s EXCEPT !.pc = "persist", !.attempts = job[s.id] + 1])
  /\ UNCHANGED <<now, store, history>>

PopPersist(p) ==
  LET s == proc[p] IN
  /\ At(p, "persist")
  /\ job' = [job EXCEPT ![s.id] = s.attempts]
  /\ Step(p, "lease")
  /\ UNCHANGED <<now, queues, ready, delayed, processing, res, owner, dead, token, history>>

(* The lease runs from the time the reserve call was made.                 *)
PopLease(p) ==
  LET s == proc[p] IN
  /\ At(p, "lease") /\ token < MaxToken
  /\ token' = token + 1
  /\ processing' = processing \cup {[token |-> token + 1, queue |-> QueueOf(s.id),
                                     expires |-> s.at + VisibilityMs]}
  /\ Goto(p, [s EXCEPT !.pc = "res", !.token = token + 1])
  /\ UNCHANGED <<now, queues, job, ready, delayed, res, owner, dead, history>>

PopRes(p) ==
  /\ At(p, "res")
  /\ res' = [res EXCEPT ![proc[p].token] = proc[p].id]
  /\ Step(p, "own")
  /\ UNCHANGED <<now, queues, job, ready, delayed, processing, owner, dead, token, history>>

PopOwner(p) ==
  LET s == proc[p] IN
  /\ At(p, "own")
  /\ owner' = [owner EXCEPT ![s.id] = s.token]
  /\ Goto(p, [Idle EXCEPT !.pc = "holding", !.id = s.id, !.token = s.token,
                          !.attempts = s.attempts])
  /\ UNCHANGED <<now, queues, job, ready, delayed, processing, res, dead, token, history>>

----------------------------------------------------------------------------
(* The worker settles its reservation: ack after success; nack or          *)
(* moveToDeadLetter after a failure, by the attempts used.  ack and nack   *)
(* start with GET owner, moveToDeadLetter does not.                        *)
Settle(p, op, delay) ==
  LET s == proc[p]
      owns == op = "dead" \/ owner[s.id] = s.token
  IN
  /\ At(p, "holding")
  /\ op = "nack" => s.attempts < MaxAttempts
  /\ op = "dead" => s.attempts >= MaxAttempts
  /\ Goto(p, [s EXCEPT !.op = op, !.at = IF delay > 0 THEN now + delay ELSE 0,
                       !.pc = IF owns THEN "unlease" ELSE "loseRes"])
  /\ succeeded' = IF op = "ack" THEN succeeded \cup {s.id} ELSE succeeded
  /\ UNCHANGED <<now, store, crashes, calls, accepted, discarded, exposed>>

(* A loser cleans up its own reservation only.                             *)
LoserDelRes(p) ==
  /\ At(p, "loseRes")
  /\ res' = [res EXCEPT ![proc[p].token] = None]
  /\ Step(p, "loseLease")
  /\ UNCHANGED <<now, queues, job, ready, delayed, processing, owner, dead, token, history>>

LoserDelLease(p) ==
  /\ At(p, "loseLease")
  /\ processing' = {l \in processing : l.token # proc[p].token}
  /\ Goto(p, Idle)
  /\ UNCHANGED <<now, queues, job, ready, delayed, res, owner, dead, token, history>>

(* removeReservationState: three commands, then those of the operation.    *)
RemoveLease(p) ==
  /\ At(p, "unlease")
  /\ processing' = {l \in processing : l.token # proc[p].token}
  /\ Step(p, "unres")
  /\ UNCHANGED <<now, queues, job, ready, delayed, res, owner, dead, token, history>>

RemoveRes(p) ==
  /\ At(p, "unres")
  /\ res' = [res EXCEPT ![proc[p].token] = None]
  /\ Step(p, "disclaim")
  /\ UNCHANGED <<now, queues, job, ready, delayed, processing, owner, dead, token, history>>

RemoveOwner(p) ==
  LET s == proc[p] IN
  /\ At(p, "disclaim")
  /\ owner' = [owner EXCEPT ![s.id] = None]
  /\ Step(p, CASE s.op = "ack"  -> "delete"
               [] s.op = "nack" -> "repersist"
               [] s.op = "dead" -> "bury")
  /\ UNCHANGED <<now, queues, job, ready, delayed, processing, res, dead, token, history>>

NackPersist(p) ==
  LET s == proc[p] IN
  /\ At(p, "repersist")
  /\ queues' = queues \cup {QueueOf(s.id)}
  /\ job' = [job EXCEPT ![s.id] = s.attempts]
  /\ Step(p, "requeue")
  /\ UNCHANGED <<now, ready, delayed, processing, res, owner, dead, token, history>>

NackAdd(p) ==
  LET s == proc[p] IN
  /\ At(p, "requeue")
  /\ IF s.at > 0
     THEN /\ delayed' = {d \in delayed : d.id # s.id} \cup {[id |-> s.id, runAt |-> s.at]}
          /\ ready' = ready
     ELSE ready' = ready \cup {s.id} /\ delayed' = delayed
  /\ Goto(p, Idle)
  /\ UNCHANGED <<now, queues, job, processing, res, owner, dead, token, history>>

Bury(p) ==
  LET s == proc[p] IN
  /\ At(p, "bury")
  /\ queues' = queues \cup {QueueOf(s.id)}
  /\ dead' = dead \cup {[id |-> s.id, token |-> s.token]}
  /\ Step(p, "delete")
  /\ UNCHANGED <<now, job, ready, delayed, processing, res, owner, token, history>>

(* DEL job; a dead letter that was retried since its RPUSH loses the       *)
(* envelope of its new life.                                               *)
DeleteJob(p) ==
  LET s == proc[p]
      revived == s.op = "dead" /\ [id |-> s.id, token |-> s.token] \notin dead
  IN
  /\ At(p, "delete")
  /\ job' = [job EXCEPT ![s.id] = None]
  /\ exposed' = IF revived THEN exposed \cup {s.id} ELSE exposed
  /\ Goto(p, Idle)
  /\ UNCHANGED <<now, queues, ready, delayed, processing, res, owner, dead, token,
                 crashes, calls, accepted, succeeded, discarded>>

----------------------------------------------------------------------------
(* The operator's calls, one more of them.                                 *)
OperatorCall(p) ==
  /\ At(p, "idle") /\ p \in Operators
  /\ calls < MaxCalls /\ calls' = calls + 1

(* removeDeadLetter finds a record (LRANGE), then removes it (LREM)        *)
(* without looking at the reply; the facade enqueues the job again with no *)
(* attempts used.                                                          *)
DeadFind(p, d) ==
  /\ OperatorCall(p)
  /\ d \in dead
  /\ Goto(p, [Idle EXCEPT !.pc = "take", !.op = "retry", !.id = d.id, !.token = d.token])
  /\ UNCHANGED <<now, store, crashes, accepted, succeeded, discarded, exposed>>

DeadTake(p) ==
  LET s == proc[p] IN
  /\ At(p, "take")
  /\ dead' = dead \ {[id |-> s.id, token |-> s.token]}
  /\ Step(p, "revive")
  /\ UNCHANGED <<now, queues, job, ready, delayed, processing, res, owner, token, history>>

RetryPersist(p) ==
  LET s == proc[p] IN
  /\ At(p, "revive")
  /\ job' = [job EXCEPT ![s.id] = 0]
  /\ Goto(p, [s EXCEPT !.pc = "add", !.token = None])
  /\ UNCHANGED <<now, queues, ready, delayed, processing, res, owner, dead, token, history>>

FlushDead(p, q) ==
  /\ OperatorCall(p)
  /\ \E d \in dead : QueueOf(d.id) = q
  /\ dead' = {d \in dead : QueueOf(d.id) # q}
  /\ discarded' = discarded \cup {d.id : d \in dead \ dead'}
  /\ UNCHANGED <<now, queues, job, ready, delayed, processing, res, owner, token,
                 proc, crashes, accepted, succeeded, exposed>>

(* purge: two ZRANGEs, two DELs per id found, two DELs of the whole sets.  *)
PurgeReady(p, q) ==
  /\ OperatorCall(p)
  /\ Goto(p, [Idle EXCEPT !.pc = "purgeDelayed", !.op = "purge", !.scan = {q},
                          !.todo = {i \in ready : QueueOf(i) = q}])
  /\ UNCHANGED <<now, store, crashes, accepted, succeeded, discarded, exposed>>

PurgeNext(s) ==
  IF s.todo = {} THEN [s EXCEPT !.pc = "dropReady", !.id = None]
  ELSE [s EXCEPT !.pc = "purgeJob", !.id = None]

PurgeDelayed(p) ==
  LET s == proc[p] IN
  /\ At(p, "purgeDelayed")
  /\ Goto(p, PurgeNext([s EXCEPT !.todo = s.todo \cup
                 {d.id : d \in {d \in delayed : QueueOf(d.id) \in s.scan}}]))
  /\ UNCHANGED <<now, store, history>>

PurgeJob(p) ==
  LET s == proc[p] IN
  /\ At(p, "purgeJob")
  /\ \E id \in s.todo :
       /\ job' = [job EXCEPT ![id] = None]
       /\ Goto(p, [s EXCEPT !.pc = "purgeOwner", !.id = id, !.todo = s.todo \ {id}])
       /\ discarded' = discarded \cup {id}
  /\ UNCHANGED <<now, queues, ready, delayed, processing, res, owner, dead, token,
                 crashes, calls, accepted, succeeded, exposed>>

PurgeOwner(p) ==
  /\ At(p, "purgeOwner")
  /\ owner' = [owner EXCEPT ![proc[p].id] = None]
  /\ Goto(p, PurgeNext(proc[p]))
  /\ UNCHANGED <<now, queues, job, ready, delayed, processing, res, dead, token, history>>

DropReady(p) ==
  /\ At(p, "dropReady")
  /\ ready' = {i \in ready : QueueOf(i) \notin proc[p].scan}
  /\ discarded' = discarded \cup (ready \ ready')
  /\ Step(p, "dropDelayed")
  /\ UNCHANGED <<now, queues, job, delayed, processing, res, owner, dead, token,
                 crashes, calls, accepted, succeeded, exposed>>

DropDelayed(p) ==
  /\ At(p, "dropDelayed")
  /\ delayed' = {d \in delayed : QueueOf(d.id) \notin proc[p].scan}
  /\ discarded' = discarded \cup {d.id : d \in delayed \ delayed'}
  /\ Goto(p, Idle)
  /\ UNCHANGED <<now, queues, job, ready, processing, res, owner, dead, token,
                 crashes, calls, accepted, succeeded, exposed>>

----------------------------------------------------------------------------
(* Where the only trace of a job is in a process: between the command that *)
(* takes it out of one set and the one that puts it into the next.         *)
InHand(s) ==
  \/ s.pc \in {"load", "persist", "lease", "res",         \* reserve
               "unref", "reload", "readd", "loadDue", "addDue", "revive"}
  \/ s.pc \in {"unres", "disclaim", "repersist", "requeue", "bury"} /\ s.op \in {"nack", "dead"}
  \/ s.pc = "add" /\ s.op = "retry"

(* The process dies and a new one takes its place; its leases stay.        *)
Crash(p) ==
  LET s == proc[p]
      lost == IF InHand(s) THEN {s.id}
              ELSE IF s.pc = "ref" THEN {res[s.token]} ELSE {}
  IN
  /\ crashes < MaxCrashes /\ ~At(p, "idle")
  /\ crashes' = crashes + 1
  /\ exposed' = exposed \cup (lost \ {None})
  /\ Goto(p, Idle)
  /\ UNCHANGED <<now, store, calls, accepted, succeeded, discarded>>

(* While a process makes a reservation or works on one its lease has not   *)
(* run out, unless processes may be slow.                                  *)
Reserving == {"load", "persist", "lease", "res", "own"}
Prompt(p) ==
  /\ proc[p].op = "reserve" => proc[p].at + VisibilityMs > now + 1
  /\ \A l \in processing : l.token = proc[p].token => l.expires > now + 1

Tick ==
  /\ \/ now < MaxTime
     \/ \E d \in delayed : d.runAt > now
     \/ \E l \in processing : l.expires > now
  /\ SlowHandlers \/ \A p \in Procs : Prompt(p)
  /\ now' = now + 1
  /\ UNCHANGED <<store, proc, history>>

(* The next command of a call in progress.                                 *)
Command(p) ==
  \/ EnqueueAdd(p) \/ ScanQueue(p)
  \/ ReclaimClaim(p) \/ ReclaimRef(p) \/ ReclaimDelRef(p) \/ ReclaimLoad(p)
  \/ ReclaimAdd(p) \/ ReclaimDisown(p)
  \/ PromoteClaim(p) \/ PromoteLoad(p) \/ PromoteAdd(p)
  \/ PopHead(p) \/ PopClaim(p) \/ PopLoad(p) \/ PopPersist(p) \/ PopLease(p)
  \/ PopRes(p) \/ PopOwner(p)
  \/ LoserDelRes(p) \/ LoserDelLease(p)
  \/ RemoveLease(p) \/ RemoveRes(p) \/ RemoveOwner(p)
  \/ NackPersist(p) \/ NackAdd(p) \/ Bury(p) \/ DeleteJob(p)
  \/ DeadTake(p) \/ RetryPersist(p)
  \/ PurgeDelayed(p) \/ PurgeJob(p) \/ PurgeOwner(p) \/ DropReady(p) \/ DropDelayed(p)

(* A worker's handler returns.                                             *)
Handled(p) ==
  \/ Settle(p, "ack", 0) \/ Settle(p, "dead", 0)
  \/ \E delay \in 0..1 : Settle(p, "nack", delay)

RedisNext ==
  \/ Tick
  \/ \E p \in Procs :
       \/ Command(p) \/ Handled(p) \/ Crash(p)
       \/ KnownQueues(p, "reserve") \/ KnownQueues(p, "promote")
       \/ \E id \in Jobs, delay \in 0..1 : EnqueuePersist(p, id, delay)
       \/ \E d \in dead : DeadFind(p, d)
       \/ \E q \in queues : FlushDead(p, q) \/ PurgeReady(p, q)

RedisSpec == RedisInit /\ [][RedisNext]_redisVars

(* Calls in progress go on and time passes.  The worker's poll and the     *)
(* promotion timer are timers of one event loop: a process that keeps      *)
(* becoming idle gets to promote (strong fairness).  Nobody has to call    *)
(* enqueue or the operator's API.                                          *)
RedisFairness ==
  /\ WF_redisVars(Tick)
  /\ \A p \in Procs :
       /\ WF_redisVars(Command(p)) /\ WF_redisVars(Handled(p))
       /\ WF_redisVars(KnownQueues(p, "reserve"))
       /\ SF_redisVars(KnownQueues(p, "promote"))

RedisLiveSpec == RedisSpec /\ RedisFairness

----------------------------------------------------------------------------
(* Redis still knows where to find the job: its envelope and an id in a    *)
(* set that reserve, promoteDue or a reclaim will look at, or its record   *)
(* in the dead-letter list.                                                *)
Findable(id) ==
  \/ /\ job[id] # None
     /\ \/ id \in ready
        \/ \E d \in delayed : d.id = id
        \/ \E l \in processing : res[l.token] = id
  \/ \E d \in dead : d.id = id

(* A live process is moving the job from one place to another.             *)
Carried(id) ==
  \E p \in Procs :
    LET s == proc[p] IN
    \/ InHand(s) /\ s.id = id
    \/ s.pc = "ref" /\ res[s.token] = id
    \/ s.pc \in {"own", "holding", "unlease"} /\ s.id = id /\ owner[id] \in {None, s.token}

Lost(id) == ~Findable(id) /\ ~Carried(id)

(* At-least-once, as far as the driver gives it: an accepted job that no   *)
(* handler has completed is in Redis or in the hands of a live process -   *)
(* unless an operator dropped it or it met one of the gaps recorded in     *)
(* `exposed`: a crash while it was in hand, a reclaim that met a newer     *)
(* reservation or one still being made, a retry that met the end of its    *)
(* burial.                                                                 *)
LossesAreExplained ==
  \A id \in accepted \ (succeeded \cup discarded \cup exposed) : ~Lost(id)

(* README, Delivery semantics and redis.ts, header: at-least-once, without *)
(* exceptions.                                                             *)
NoAcceptedJobLost ==
  \A id \in accepted \ (succeeded \cup discarded) : ~Lost(id)

(* While live processes keep their leases, two of them never have the same *)
(* job reserved, whatever crashes, reclaims, promotions and purges         *)
(* interleave: the ZREM that removes an id decides.                        *)
ReservedByOne ==
  \A p, r \in Procs :
    (/\ proc[p].pc \in Reserving \cup {"holding"}
     /\ proc[r].pc \in Reserving \cup {"holding"}
     /\ proc[p].id = proc[r].id) => p = r

(* A job whose worker crashed, was retried or delayed ends in success, in  *)
(* the dead-letter list, or in one of the gaps.                            *)
AcceptedJobSettles ==
  \A id \in Jobs :
    (id \in accepted) ~> \/ id \in succeeded \cup discarded \cup exposed
                         \/ \E d \in dead : d.id = id
=============================================================================
