------------------------- MODULE QueuePromptProofs -------------------------
(***************************************************************************)
(* What the queue promises while every reservation is settled within its   *)
(* lease: a job is executed by one reservation at a time, at most          *)
(* maxAttempts times, its dedupe key is held exactly while it lives, and   *)
(* it has one incarnation.  The hypothesis is Prompt; each invariant is    *)
(* proved relative to IInv of QueueProofs.                                 *)
(***************************************************************************)
EXTENDS QueueDeliveryProofs

(* No handler outlives its lease, and a lease lasts for some time.         *)
Prompt == ~SlowHandlers /\ VisibilityMs > 0

(* No lease is ever expired ...                                            *)
Fresh == \A r \in reserved : r.leaseExpiresAt > now

(* ... so a reservation that is not settled still has its lease.           *)
LeaseHeld == \A t \in Tokens : execution[t].phase \in Unsettled => Holds(t)

PromptInv == Fresh /\ LeaseHeld

(* One turn of pump's loop takes nothing, or the next job of ready.        *)
Takes(w, s) ==
  /\ s \in ready /\ ready' = ready \ {s}
  /\ UNCHANGED <<delayed, dead>>
  /\ attempts' = [attempts EXCEPT ![s] = @ + 1]
  /\ reserved' = reserved \cup
       {[token |-> token + 1, env |-> s, leaseExpiresAt |-> now + VisibilityMs]}
  /\ Tokens' = Tokens \cup {token + 1}
  /\ execution'[token + 1].env = s /\ execution'[token + 1].phase = "reserved"

LEMMA PromptPump ==
  ASSUME IInv, Fresh, NEW w \in Workers, NEW n, NEW exs, PumpLoop(w, n, exs)
  PROVE  \/ \E s \in Envelopes : Takes(w, s)
         \/ UNCHANGED <<driverVars, token>>
<1>t. token \in Nat /\ now \in Nat /\ reserved \subseteq LeaseRecord(Envelopes, Tokens)
  BY DEF IInv, TypeOK, WorkerTypeOK, DriverTypeOK
<1>1. Expired = {}
  BY <1>t DEF Expired, Fresh, LeaseRecord
<1>2. reclaimExpiredLeases.ready = ready /\ reclaimExpiredLeases.reserved = reserved
  BY <1>1 DEF reclaimExpiredLeases
<1>3. ASSUME NEW s \in Envelopes,
             reserveJob(WorkerQueues[w], VisibilityMs, token + 1, s),
             token' = token + 1,
             execution' =
                  [t \in 1..(token + 1) |->
                     IF t = token + 1
                     THEN [worker |-> w, env |-> s, phase |-> "reserved",
                           at |-> 0, handler |-> FALSE]
                     ELSE exs[t]]
      PROVE  Takes(w, s)
  <2>1. Tokens' = Tokens \cup {token + 1}
    BY <1>t, <1>3 DEF Tokens
  <2>2. execution'[token + 1].env = s /\ execution'[token + 1].phase = "reserved"
    BY <1>t, <1>3
  <2> QED BY <1>2, <1>3, <2>1, <2>2 DEF Takes, reserveJob
<1>4. CASE reserveNull(WorkerQueues[w]) /\ UNCHANGED token
  BY <1>2, <1>4 DEF reserveNull, driverVars
<1> QED BY <1>3, <1>4 DEF PumpLoop

(* What a step may do to the leases while the queue is prompt.             *)
LEMMA NextPrompt == Prompt /\ IInv /\ PromptInv /\ [Next]_vars => PromptInv'
<1> SUFFICES ASSUME Prompt, IInv, PromptInv, [Next]_vars PROVE PromptInv'
  OBVIOUS
<1>t. /\ token \in Nat /\ now \in Nat /\ VisibilityMs \in Nat
      /\ reserved \subseteq LeaseRecord(Envelopes, Tokens)
      /\ \A r \in reserved : r.leaseExpiresAt \in Nat
  <2>1. /\ token \in Nat /\ now \in Nat /\ VisibilityMs \in Nat
        /\ reserved \subseteq LeaseRecord(Envelopes, Tokens)
    BY WorkerAssumption DEF IInv, TypeOK, WorkerTypeOK, DriverTypeOK
  <2> QED BY <2>1 DEF LeaseRecord
<1>l. \A t \in Tokens : /\ Lives(t)
                        /\ execution'[t].phase \in Unsettled => execution[t].phase \in Unsettled
  <2>1. \A t \in Tokens : Lives(t)
    BY ExecutionsLive
  <2> QED BY <2>1 DEF Lives, PhaseSteps, Unsettled, WaitPhase
<1>1. CASE UNCHANGED <<now, reserved, token>>
  <2>1. Fresh'
    BY <1>1 DEF PromptInv, Fresh
  <2>2. Tokens' = Tokens /\ \A t : Holds(t)' = Holds(t)
    BY <1>1 DEF Tokens, Holds
  <2> QED BY <1>l, <2>1, <2>2 DEF PromptInv, LeaseHeld
<1>2. CASE Tick
  <2>1. UNCHANGED <<reserved, token>>
    BY <1>2 DEF Tick, driverVars, workerVars
  <2>2. Fresh'
    BY <1>2, <2>1 DEF Tick, Prompt, Fresh
  <2>3. Tokens' = Tokens /\ \A t : Holds(t)' = Holds(t)
    BY <2>1 DEF Tokens, Holds
  <2> QED BY <1>l, <2>2, <2>3 DEF PromptInv, LeaseHeld
<1>3. CASE \/ PromotionTick \/ Close \/ CloseDrained \/ UNCHANGED vars \/ DeadLetterApi
           \/ \E qs : Flush(qs) \/ Purge(qs)
  BY <1>1, <1>3 DEF PromotionTick, promoteDue, Close, CloseDrained, vars, driverVars, workerVars,
         DeadLetterApi, DeadLetterRetry, DeadLetterRetryAll, RetryAllTake, RetryEnqueue,
         removeDeadLetter, enqueue, Flush, DeadLetterFlush, flushDeadLetters, Purge, purge
<1>4. ASSUME NEW o \in JobOptions, Dispatch(o), UNCHANGED <<workerVars, systemVars>>
      PROVE  PromptInv'
  <2>1. \E e \in Envelope : Adds(e)
    BY <1>4, DispatchAdds
  <2> QED BY <1>1, <2>1 DEF Adds, workerVars
<1>5. ASSUME NEW w \in Workers, Pump(w) \/ Start(w) \/ Stop(w) PROVE PromptInv'
  <2>1. CASE PumpGate(w) \/ PumpNull(w) \/ Start(w) \/ Stop(w)
    BY <1>1, <2>1 DEF PumpGate, PumpNull, Start, Stop, driverVars
  <2>2. CASE PumpReady(w) \/ PumpPass(w) \/ PumpJob(w)
    <3>1. UNCHANGED now /\ \E n, exs : PumpLoop(w, n, exs)
      BY <2>2 DEF PumpReady, PumpPass, PumpJob
    <3>2. CASE UNCHANGED <<driverVars, token>>
      BY <1>1, <3>1, <3>2 DEF driverVars
    <3>3. ASSUME NEW s \in Envelopes, Takes(w, s) PROVE PromptInv'
      <4>1. PICK new : new = [token |-> token + 1, env |-> s,
                              leaseExpiresAt |-> now + VisibilityMs]
        OBVIOUS
      <4>2. /\ reserved' = reserved \cup {new} /\ new.token = token + 1
            /\ new.leaseExpiresAt = now + VisibilityMs
        BY <3>3, <4>1 DEF Takes
      <4>3. Fresh'
        BY <1>t, <3>1, <4>2 DEF PromptInv, Fresh, Prompt
      <4>4. LeaseHeld'
        BY <1>l, <3>3, <4>2 DEF PromptInv, LeaseHeld, Holds, Takes
      <4> QED BY <4>3, <4>4 DEF PromptInv
    <3> QED BY <3>1, <3>2, <3>3, PromptPump DEF PromptInv
  <2> QED BY <1>5, <2>1, <2>2 DEF Pump
<1>6. ASSUME NEW t \in Tokens, UNCHANGED systemVars, Proceed(t) \/ HandlerStep(t)
      PROVE  PromptInv'
  <2>1. CASE RateCount(t) \/ RateHit(t) \/ StartHandler(t) \/ LateReturn(t) \/ Finish(t)
    BY <1>1, <2>1 DEF RateCount, RateHit, StartHandler, LateReturn, Finish, driverVars
  <2>2. CASE \/ RateDefer(t) \/ NoHandler(t) \/ HandlerSucceeds(t)
             \/ HandlerFails(t) \/ HandlerTimesOut(t)
    <3>1. Releases(t)
      BY <1>6, <2>2, DriverCallReleases
    <3>2. Fresh'
      BY <3>1 DEF Releases, WithoutToken, PromptInv, Fresh
    <3>3. Tokens' = Tokens /\ execution'[t].phase \notin Unsettled
      BY <3>1 DEF Releases, Tokens, CallPhase, Unsettled, WaitPhase
    <3>4. \A u \in Tokens \ {t} : Holds(u) => Holds(u)'
      BY <3>1 DEF Releases, WithoutToken, Holds
    <3>5. LeaseHeld'
      BY <1>l, <3>3, <3>4 DEF PromptInv, LeaseHeld
    <3> QED BY <3>2, <3>5 DEF PromptInv
  <2> QED BY <1>6, <2>1, <2>2 DEF Proceed, HandlerStep, HandlerReturns
<1> QED BY <1>2, <1>3, <1>4, <1>5, <1>6 DEF Next

LEMMA PromptInvariance ==
  ASSUME Prompt
  PROVE  Spec => [](IInv /\ PromptInv)
<1>1. Init => PromptInv
  BY DEF Init, PromptInv, Fresh, LeaseHeld, Tokens
<1>2. IInv /\ PromptInv /\ [Next]_vars => PromptInv'
  BY NextPrompt
<1> QED BY <1>1, <1>2, Invariance, PTL DEF Spec

(* While handlers settle within their lease, a job is never executed under *)
(* two reservations at once, whatever the number of workers.               *)
THEOREM ExecutionExclusive ==
  ASSUME ~SlowHandlers, VisibilityMs > 0
  PROVE  Spec => []ExclusiveExecution
<1>1. Prompt
  BY DEF Prompt
<1>2. IInv /\ PromptInv => ExclusiveExecution
  <2> SUFFICES ASSUME IInv, PromptInv, NEW t \in Tokens, NEW u \in Tokens,
                      execution[t].env = execution[u].env,
                      execution[t].phase \in Unsettled, execution[u].phase \in Unsettled
               PROVE  t = u
    BY DEF ExclusiveExecution
  <2>1. PICK r1 \in reserved : r1.token = t
    BY DEF PromptInv, LeaseHeld, Holds
  <2>2. PICK r2 \in reserved : r2.token = u
    BY DEF PromptInv, LeaseHeld, Holds
  <2>3. r1.env = r2.env
    BY <2>1, <2>2 DEF IInv, LeaseAgrees
  <2> QED BY <2>1, <2>2, <2>3 DEF IInv, OneHome
<1> QED BY <1>1, <1>2, PromptInvariance, PTL

----------------------------------------------------------------------------
(***************************************************************************)
(* The ceiling of attempts.  A job is only queued while it has an attempt  *)
(* left, so the reservation that takes it stays within the ceiling.  (The  *)
(* facade does not validate maxAttempts: a job dispatched with none is     *)
(* attempted once, hence the hypothesis.)                                  *)
(***************************************************************************)
BudgetLeft ==
  \A s \in Envelopes : /\ env[s].maxAttempts > 0
                       /\ attempts[s] <= env[s].maxAttempts
                       /\ Queued(s) => attempts[s] < env[s].maxAttempts

LEMMA NoneQueued ==
  ASSUME BudgetLeft, UNCHANGED <<seq, env, attempts>>,
         \A s \in Envelopes : Queued(s)' => Queued(s)
  PROVE  BudgetLeft'
<1>1. Envelopes' = Envelopes
  BY DEF Envelopes
<1> QED BY <1>1 DEF BudgetLeft

LEMMA AddWithinBudget ==
  ASSUME IInv, BudgetLeft, NEW e \in Envelope, Adds(e), e.maxAttempts > 0
  PROVE  BudgetLeft'
<1>t. /\ seq \in Nat /\ ready \subseteq Envelopes /\ delayed \subseteq DelayedEntry(Envelopes)
  BY DEF IInv, TypeOK, FacadeTypeOK, DriverTypeOK
<1>1. /\ Envelopes' = Envelopes \cup {seq} /\ seq \notin Envelopes
      /\ attempts'[seq] = 0 /\ env'[seq] = e
      /\ \A s \in Envelopes : attempts'[s] = attempts[s] /\ env'[s] = env[s]
  BY <1>t DEF Adds, AddEnvelope, Envelopes
<1>2. \A s \in Envelopes : Queued(s)' => Queued(s)
  <2>1. \A n : [env |-> seq, runAt |-> n].env = seq
    OBVIOUS
  <2> QED BY <1>1, <2>1 DEF Queued, Adds
<1> QED BY <1>1, <1>2 DEF BudgetLeft, Envelope

LEMMA ReleaseWithinBudget ==
  ASSUME IInv, BudgetLeft, NEW t \in Tokens, UNCHANGED systemVars,
         \/ RateDefer(t) \/ NoHandler(t) \/ HandlerSucceeds(t)
         \/ HandlerFails(t) \/ HandlerTimesOut(t)
  PROVE  BudgetLeft'
<1>s. PICK s : s = execution[t].env
  OBVIOUS
<1>t. /\ s \in Envelopes /\ attempts \in [Envelopes -> Int]
      /\ \A u \in Envelopes : env[u].maxAttempts \in Nat
  BY <1>s DEF IInv, TypeOK, WorkerTypeOK, DriverTypeOK, Execution, Envelope
<1>1. Releases(t)
  BY DriverCallReleases
<1>2. UNCHANGED <<seq, env>> /\ Envelopes' = Envelopes
  BY <1>1 DEF Releases, facadeVars, Envelopes
<1>3. \A u \in Envelopes \ {s} : Queued(u)' => Queued(u)
  <2>1. \A n : [env |-> execution[t].env, runAt |-> n].env = s
    BY <1>s
  <2> QED BY <1>1, <2>1 DEF Releases, Queued
<1>4. ASSUME delayed' = delayed PROVE Queued(s)' => Queued(s)
  BY <1>1, <1>4 DEF Releases, Queued
<1>5. CASE RateDefer(t)
  <2>1. attempts' = [attempts EXCEPT ![s] = @ - 1]
    BY <1>5, <1>s DEF RateDefer
  <2>2. attempts'[s] = attempts[s] - 1 /\ \A u \in Envelopes \ {s} : attempts'[u] = attempts[u]
    BY <1>t, <2>1
  <2> QED BY <1>t, <1>2, <1>3, <2>2 DEF BudgetLeft
<1>6. CASE NoHandler(t) \/ HandlerSucceeds(t)
  BY <1>2, <1>3, <1>4, <1>6, NoneQueued DEF NoHandler, HandlerSucceeds, moveToDeadLetter, ack
<1>7. CASE HandlerFails(t) \/ HandlerTimesOut(t)
  <2>1. UNCHANGED attempts
    BY <1>7 DEF HandlerFails, HandlerTimesOut, handleFailure, moveToDeadLetter
  <2>2. CASE delayed' = delayed
    BY <1>2, <1>3, <1>4, <2>1, <2>2, NoneQueued
  <2>3. CASE ~Exhausted(attempts[s], env[s].maxAttempts)
    <3>1. attempts[s] < env[s].maxAttempts
      BY <1>t, <2>3 DEF Exhausted
    <3> QED BY <1>t, <1>2, <1>3, <2>1, <3>1 DEF BudgetLeft
  <2> QED BY <1>7, <1>s, <2>2, <2>3 DEF HandlerFails, HandlerTimesOut, handleFailure, moveToDeadLetter
<1> QED BY <1>5, <1>6, <1>7

LEMMA NextBudgetLeft ==
  ASSUME Prompt, \A o \in JobOptions : o.maxAttempts > 0,
         IInv, PromptInv, BudgetLeft, [Next]_vars
  PROVE  BudgetLeft'
<1>t. /\ attempts \in [Envelopes -> Int] /\ env \in [Envelopes -> Envelope]
      /\ \A u \in Envelopes : env[u].maxAttempts \in Nat
  <2>1. attempts \in [Envelopes -> Int] /\ env \in [Envelopes -> Envelope]
    BY DEF IInv, TypeOK, DriverTypeOK
  <2> QED BY <2>1 DEF Envelope
<1>1. CASE UNCHANGED <<seq, env, attempts, ready, delayed>>
  <2>1. \A s : Queued(s)' = Queued(s)
    BY <1>1 DEF Queued
  <2> QED BY <1>1, <2>1, NoneQueued
<1>2. CASE \/ Tick \/ Close \/ CloseDrained \/ UNCHANGED vars \/ \E qs : Flush(qs)
  BY <1>1, <1>2 DEF Tick, Close, CloseDrained, vars, driverVars, facadeVars, Flush,
                    DeadLetterFlush, flushDeadLetters
<1>3. CASE PromotionTick \/ \E qs : Purge(qs)
  <2>1. \A s \in Envelopes : Queued(s)' => Queued(s)
    BY <1>3 DEF PromotionTick, promoteDue, Purge, purge, Queued
  <2> QED BY <1>3, <2>1, NoneQueued DEF PromotionTick, promoteDue, Purge, purge, facadeVars
<1>4. ASSUME NEW o \in JobOptions, Dispatch(o), UNCHANGED <<workerVars, systemVars>>
      PROVE  BudgetLeft'
  <2>1. PICK e \in Envelope : Adds(e) /\ e = buildEnvelope(o)
    BY <1>4, DispatchAddsThis
  <2>2. e.maxAttempts > 0
    BY <2>1 DEF buildEnvelope
  <2> QED BY <2>1, <2>2, AddWithinBudget
<1>5. CASE DeadLetterApi
  <2>1. UNCHANGED <<workerVars, systemVars>>
    BY <1>5 DEF DeadLetterApi
  <2>2. ASSUME NEW a \in Admins, RetryEnqueue(a) PROVE BudgetLeft'
    <3>1. PICK e \in Envelope : Adds(e) /\ e = rebuildEnvelope(admin[a].held)
      BY <2>1, <2>2, RetryEnqueueAddsThis
    <3>2. admin[a].held.env \in Envelopes
      BY <2>2 DEF RetryEnqueue, IInv, TypeOK, FacadeTypeOK, AdminState, DeadLetterRecord
    <3>3. e.maxAttempts > 0
      BY <3>1, <3>2 DEF rebuildEnvelope, BudgetLeft
    <3> QED BY <3>1, <3>3, AddWithinBudget
  <2>3. CASE UNCHANGED <<seq, env, attempts, ready, delayed>>
    BY <1>1, <2>3
  <2> QED BY <1>5, <2>2, <2>3 DEF DeadLetterApi, DeadLetterRetry, DeadLetterRetryAll,
                                  RetryAllTake, removeDeadLetter, driverVars
<1>6. ASSUME NEW w \in Workers, Pump(w) \/ Start(w) \/ Stop(w) PROVE BudgetLeft'
  <2>0. UNCHANGED <<seq, env>>
    BY <1>6 DEF Pump, PumpGate, PumpReady, PumpPass, PumpJob, PumpNull, Start, Stop, facadeVars
  <2>1. CASE UNCHANGED driverVars
    BY <1>1, <2>0, <2>1 DEF driverVars
  <2>2. CASE PumpGate(w) \/ PumpNull(w) \/ Start(w) \/ Stop(w)
    BY <2>1, <2>2 DEF PumpGate, PumpNull, Start, Stop
  <2>3. ASSUME NEW s \in Envelopes, Takes(w, s) PROVE BudgetLeft'
    <3>1. Queued(s) /\ ~Queued(s)'
      BY <2>3 DEF Takes, Queued, IInv, OneHome
    <3>2. \A u \in Envelopes : Queued(u)' => Queued(u)
      BY <2>3 DEF Takes, Queued
    <3>3. /\ attempts'[s] = attempts[s] + 1
          /\ \A u \in Envelopes \ {s} : attempts'[u] = attempts[u]
      BY <1>t, <2>3 DEF Takes
    <3>4. attempts[s] < env[s].maxAttempts
      BY <3>1 DEF BudgetLeft
    <3>5. attempts'[s] <= env[s].maxAttempts
      BY <1>t, <3>3, <3>4
    <3>6. Envelopes' = Envelopes
      BY <2>0 DEF Envelopes
    <3> QED BY <2>0, <3>1, <3>2, <3>3, <3>5, <3>6 DEF BudgetLeft
  <2>4. CASE PumpReady(w) \/ PumpPass(w) \/ PumpJob(w)
    <3>1. \E n, exs : PumpLoop(w, n, exs)
      BY <2>4 DEF PumpReady, PumpPass, PumpJob
    <3> QED BY <2>1, <2>3, <3>1, PromptPump DEF PromptInv
  <2> QED BY <1>6, <2>2, <2>4 DEF Pump
<1>7. ASSUME NEW t \in Tokens, UNCHANGED systemVars, Proceed(t) \/ HandlerStep(t)
      PROVE  BudgetLeft'
  <2>1. CASE RateCount(t) \/ RateHit(t) \/ StartHandler(t) \/ LateReturn(t) \/ Finish(t)
    BY <1>1, <2>1 DEF RateCount, RateHit, StartHandler, LateReturn, Finish, driverVars, facadeVars
  <2>2. CASE \/ RateDefer(t) \/ NoHandler(t) \/ HandlerSucceeds(t)
             \/ HandlerFails(t) \/ HandlerTimesOut(t)
    BY <1>7, <2>2, ReleaseWithinBudget
  <2> QED BY <1>7, <2>1, <2>2 DEF Proceed, HandlerStep, HandlerReturns
<1> QED BY <1>2, <1>3, <1>4, <1>5, <1>6, <1>7 DEF Next

(* While handlers settle within their lease, a job that may be attempted   *)
(* at all is attempted at most maxAttempts times, though the ceiling is    *)
(* only consulted after a failure and every holder of the envelope shares  *)
(* the cell it is compared with.                                           *)
THEOREM AttemptsWithinCeiling ==
  ASSUME ~SlowHandlers, VisibilityMs > 0, \A o \in JobOptions : o.maxAttempts > 0
  PROVE  Spec => []AttemptsBounded
<1>1. Prompt
  BY DEF Prompt
<1>2. Init => BudgetLeft
  BY DEF Init, BudgetLeft, Envelopes
<1>3. IInv /\ PromptInv /\ BudgetLeft /\ [Next]_vars => BudgetLeft'
  BY <1>1, NextBudgetLeft
<1>4. BudgetLeft => AttemptsBounded
  BY DEF BudgetLeft, AttemptsBounded
<1> QED BY <1>1, <1>2, <1>3, <1>4, PromptInvariance, PTL DEF Spec

----------------------------------------------------------------------------
(***************************************************************************)
(* Steps sorted by what they mean for the lives of jobs.  Most are calm:   *)
(* no job appears, none goes, and no execution settles.  The others add a  *)
(* job, settle an execution, finish one, or purge.                         *)
(***************************************************************************)
Calm ==
  /\ UNCHANGED <<seq, env, activeDedupeKeys>>
  /\ \A s \in Envelopes : Live(s)' <=> Live(s)
  /\ \A t \in Tokens :
       /\ t \in Tokens' /\ execution'[t].env = execution[t].env
       /\ \/ execution'[t].phase = execution[t].phase
          \/ execution[t].phase \in Unsettled /\ execution'[t].phase \in Unsettled
  /\ \A t \in Tokens' : t \notin Tokens => execution'[t].phase \in Unsettled

Settles(t, s) ==
  /\ UNCHANGED <<seq, env, activeDedupeKeys, admin, token>>
  /\ s = execution[t].env /\ execution[t].phase \in Unsettled /\ Live(s)
  /\ \A u \in Envelopes \ {s} : Live(u)' <=> Live(u)
  /\ Moves(t)
  /\ \/ execution'[t].phase \in {"deferring", "nacking"} /\ Live(s)' /\ dead' = dead
     \/ execution'[t].phase = "acking" /\ ~Live(s)' /\ dead' = dead
     \/ /\ execution'[t].phase = "deadLettering" /\ ~Live(s)'
        /\ \E n : dead' = dead \cup {[token |-> t, env |-> s, attempts |-> n]}

(* The driver calls, while the reservation has its lease.                  *)
LEMMA CallSettles ==
  ASSUME IInv, PromptInv, NEW t \in Tokens, UNCHANGED systemVars,
         \/ RateDefer(t) \/ NoHandler(t) \/ HandlerSucceeds(t)
         \/ HandlerFails(t) \/ HandlerTimesOut(t)
  PROVE  \E s \in Envelopes : Settles(t, s)
<1>s. PICK s : s = execution[t].env
  OBVIOUS
<1>t. /\ execution \in [Tokens -> Execution(Envelopes)]
      /\ execution[t] \in Execution(Envelopes) /\ s \in Envelopes
  BY <1>s DEF IInv, TypeOK, WorkerTypeOK, Execution
<1>0. Releases(t)
  BY DriverCallReleases
<1>1. execution[t].phase \in Unsettled
  BY DEF RateDefer, NoHandler, Admitted, HandlerSucceeds, HandlerFails, HandlerTimesOut,
         Unsettled, WaitPhase
<1>2. PICK r \in reserved : r.token = t
  BY <1>1 DEF PromptInv, LeaseHeld, Holds
<1>3. r.env = s /\ reserved' = reserved \ {r}
  BY <1>0, <1>2, <1>s DEF IInv, LeaseAgrees, OneHome, Releases, WithoutToken
<1>4. Live(s) /\ s \notin ready /\ (\A d \in delayed : d.env # s) /\ \A x \in reserved' : x.env # s
  BY <1>2, <1>3 DEF IInv, OneHome, Live, Leased
<1>5. \A u \in Envelopes \ {s} : Live(u)' <=> Live(u)
  <2>1. \A n : [env |-> s, runAt |-> n].env = s
    OBVIOUS
  <2>2. \A u \in Envelopes \ {s} : Leased(u)' <=> Leased(u)
    BY <1>3 DEF Leased
  <2>3. \A u \in Envelopes \ {s} : Queued(u)' <=> Queued(u)
    BY <1>0, <1>s, <2>1 DEF Releases, Queued
  <2> QED BY <2>2, <2>3 DEF Live
<1>6. UNCHANGED <<seq, env, activeDedupeKeys, admin, token>> /\ Moves(t)
  BY <1>0 DEF Releases, facadeVars
<1>7. ASSUME delayed' = delayed PROVE ~Live(s)'
  BY <1>0, <1>4, <1>7 DEF Releases, Live, Leased, Queued
<1>8. ASSUME NEW n, nack(t, s, n) PROVE Live(s)' /\ dead' = dead
  <2>1. PICK e : e = [env |-> s, runAt |-> n]
    OBVIOUS
  <2>2. e \in delayed' /\ e.env = s
    BY <1>2, <1>8, <2>1 DEF nack, Holds
  <2> QED BY <1>8, <2>2 DEF Live, Queued, nack
<1>9. ASSUME moveToDeadLetter(t, s)
      PROVE  ~Live(s)' /\ \E n : dead' = dead \cup {[token |-> t, env |-> s, attempts |-> n]}
  BY <1>7, <1>9 DEF moveToDeadLetter
<1> USE <1>t DEF Execution
<1>a. CASE RateDefer(t)
  <2>1. execution'[t].phase = "deferring"
    BY <1>a DEF RateDefer, To
  <2>2. Live(s)' /\ dead' = dead
    BY <1>a, <1>s, <1>8 DEF RateDefer
  <2> QED BY <1>s, <1>1, <1>4, <1>5, <1>6, <2>1, <2>2 DEF Settles
<1>b. CASE NoHandler(t)
  <2>1. execution'[t].phase = "deadLettering"
    BY <1>b DEF NoHandler, To
  <2>2. moveToDeadLetter(t, s)
    BY <1>b, <1>s DEF NoHandler
  <2> QED BY <1>s, <1>1, <1>4, <1>5, <1>6, <1>9, <2>1, <2>2 DEF Settles
<1>c. CASE HandlerSucceeds(t)
  <2>1. execution'[t].phase = "acking"
    BY <1>c DEF HandlerSucceeds
  <2>2. ~Live(s)' /\ dead' = dead
    BY <1>c, <1>7 DEF HandlerSucceeds, ack
  <2> QED BY <1>s, <1>1, <1>4, <1>5, <1>6, <2>1, <2>2 DEF Settles
<1>d. CASE HandlerFails(t) \/ HandlerTimesOut(t)
  <2>1. PICK alive : handleFailure(t, alive)
    BY <1>d DEF HandlerFails, HandlerTimesOut
  <2>2. CASE Exhausted(attempts[s], env[s].maxAttempts)
    <3>1. execution'[t].phase = "deadLettering" /\ moveToDeadLetter(t, s)
      BY <1>s, <2>1, <2>2 DEF handleFailure
    <3> QED BY <1>s, <1>1, <1>4, <1>5, <1>6, <1>9, <3>1 DEF Settles
  <2>3. CASE ~Exhausted(attempts[s], env[s].maxAttempts)
    <3>1. execution'[t].phase = "nacking" /\ \E n : nack(t, s, n)
      BY <1>s, <2>1, <2>3 DEF handleFailure
    <3> QED BY <1>s, <1>1, <1>4, <1>5, <1>6, <1>8, <3>1 DEF Settles
  <2> QED BY <2>2, <2>3
<1> QED BY <1>a, <1>b, <1>c, <1>d

(* A new envelope is live, and it is the only one whose life changes.      *)
LEMMA AddLives ==
  ASSUME IInv, NEW e, Adds(e)
  PROVE  /\ Envelopes' = Envelopes \cup {seq} /\ seq \notin Envelopes
         /\ env'[seq] = e /\ \A u \in Envelopes : env'[u] = env[u]
         /\ \A u \in Envelopes : Live(u)' <=> Live(u)
         /\ \A n : n = seq => Live(n)'
         /\ UNCHANGED <<dead, token, execution>>
<1>t. seq \in Nat
  BY DEF IInv, TypeOK, FacadeTypeOK
<1>1. /\ Envelopes' = Envelopes \cup {seq} /\ seq \notin Envelopes
      /\ env'[seq] = e /\ \A u \in Envelopes : env'[u] = env[u]
      /\ UNCHANGED <<dead, token, execution, reserved>>
  BY <1>t DEF Adds, AddEnvelope, Envelopes, workerVars
<1>2. \A n : [env |-> seq, runAt |-> n].env = seq
  OBVIOUS
<1>3. \A u \in Envelopes : Queued(u)' <=> Queued(u)
  BY <1>1, <1>2 DEF Adds, Queued
<1>4. \A u \in Envelopes : Leased(u)' <=> Leased(u)
  BY <1>1 DEF Leased
<1>5. seq \in ready' \/ \E d \in delayed' : d.env = seq
  BY <1>2 DEF Adds
<1>6. \A n : n = seq => Live(n)'
  BY <1>5 DEF Live, Queued
<1> QED BY <1>1, <1>3, <1>4, <1>6 DEF Live

LEMMA PumpUnsettled ==
  ASSUME IInv, NEW w \in Workers, PumpReady(w) \/ PumpPass(w) \/ PumpJob(w)
  PROVE  \A t \in Tokens :
           /\ t \in Tokens' /\ execution'[t].env = execution[t].env
           /\ \/ execution'[t].phase = execution[t].phase
              \/ execution[t].phase \in Unsettled /\ execution'[t].phase \in Unsettled
<1>t. /\ execution \in [Tokens -> Execution(Envelopes)] /\ token \in Nat
      /\ pending \in [Workers -> Tokens \cup {None}]
  BY DEF IInv, TypeOK, WorkerTypeOK
<1>1. PICK exs, n :
        /\ PumpLoop(w, n, exs)
        /\ \A u \in Tokens :
             \/ exs[u] = execution[u]
             \/ execution[u].phase \in Unsettled /\ exs[u].phase \in Unsettled
  <2>1. CASE PumpReady(w) \/ PumpPass(w)
    BY <2>1 DEF PumpReady, PumpPass
  <2>2. CASE PumpJob(w)
    <3>1. pending[w] \in Tokens /\ execution[pending[w]].phase = "reserved"
      BY <2>2, <1>t DEF PumpJob, IInv, WorkerInv, Awaited
    <3>2. \A u \in Tokens :
            \/ To(pending[w], "admitting")[u] = execution[u]
            \/ /\ execution[u].phase \in Unsettled
               /\ To(pending[w], "admitting")[u].phase \in Unsettled
      BY <3>1, <1>t DEF To, Execution, Unsettled, WaitPhase
    <3> QED BY <2>2, <3>2 DEF PumpJob
  <2> QED BY <2>1, <2>2
<1>2. \A u \in Tokens : execution'[u] = exs[u]
  <2>1. CASE token' = token + 1 /\ \A u \in Tokens : execution'[u] = exs[u]
    BY <2>1
  <2>2. CASE execution' = exs
    BY <2>2
  <2> QED BY <1>1, <1>t, <2>1, <2>2 DEF PumpLoop, Tokens
<1>3. \A u \in Tokens : Lives(u)
  BY PumpLives
<1> QED BY <1>1, <1>2, <1>3 DEF Lives

LEMMA StepKinds ==
  ASSUME IInv, PromptInv, [Next]_vars
  PROVE  \/ Calm /\ (UNCHANGED <<dead, admin>> \/ DeadLetterApi \/ \E qs : Flush(qs))
         \/ \E o \in JobOptions : Dispatch(o) /\ UNCHANGED <<workerVars, systemVars>>
         \/ \E a \in Admins : RetryEnqueue(a) /\ UNCHANGED <<workerVars, systemVars>>
         \/ \E t \in Tokens, s \in Envelopes : Settles(t, s)
         \/ \E t \in Tokens : Finish(t) /\ UNCHANGED systemVars
         \/ \E qs : "purge" \in ApiCalls /\ Purge(qs)
<1>1. ASSUME UNCHANGED <<seq, env, activeDedupeKeys, ready, delayed, reserved, token, execution>>
      PROVE  Calm
  <2>1. \A s : Live(s)' = Live(s)
    BY <1>1 DEF Live, Leased, Queued
  <2> QED BY <1>1, <2>1 DEF Calm, Tokens
<1>2. CASE Tick \/ Close \/ CloseDrained \/ UNCHANGED vars
  BY <1>1, <1>2 DEF Tick, Close, CloseDrained, vars, facadeVars, driverVars, workerVars
<1>3. CASE PromotionTick
  <2>1. \A s : Live(s)' <=> Live(s)
    BY <1>3 DEF PromotionTick, promoteDue, Live, Leased, Queued
  <2>2. UNCHANGED <<seq, env, activeDedupeKeys, token, execution, dead, admin>>
    BY <1>3 DEF PromotionTick, promoteDue, facadeVars, workerVars
  <2> QED BY <2>1, <2>2 DEF Calm, Tokens
<1>4. CASE DeadLetterApi
  <2>1. CASE UNCHANGED <<seq, env, activeDedupeKeys, ready, delayed, reserved, token, execution>>
    BY <1>1, <1>4, <2>1
  <2> QED BY <1>4, <2>1 DEF DeadLetterApi, DeadLetterRetry, DeadLetterRetryAll,
                            RetryAllTake, removeDeadLetter, driverVars, workerVars
<1>5. ASSUME NEW qs, Flush(qs) PROVE Calm
  BY <1>1, <1>5 DEF Flush, DeadLetterFlush, flushDeadLetters, workerVars
<1>6. ASSUME NEW w \in Workers, Pump(w) \/ Start(w) \/ Stop(w)
      PROVE  Calm /\ UNCHANGED <<dead, admin>>
  <2>1. CASE PumpGate(w) \/ PumpNull(w) \/ Start(w) \/ Stop(w)
    BY <1>1, <2>1 DEF PumpGate, PumpNull, Start, Stop, facadeVars, driverVars
  <2>2. CASE PumpReady(w) \/ PumpPass(w) \/ PumpJob(w)
    <3>1. UNCHANGED facadeVars /\ \E n, exs : PumpLoop(w, n, exs)
      BY <2>2 DEF PumpReady, PumpPass, PumpJob
    <3>2. \A t \in Tokens :
            /\ t \in Tokens' /\ execution'[t].env = execution[t].env
            /\ \/ execution'[t].phase = execution[t].phase
               \/ execution[t].phase \in Unsettled /\ execution'[t].phase \in Unsettled
      BY <2>2, PumpUnsettled
    <3>3. CASE UNCHANGED <<driverVars, token>>
      <4>1. \A s : Live(s)' = Live(s)
        BY <3>3 DEF driverVars, Live, Leased, Queued
      <4> QED BY <3>1, <3>2, <3>3, <4>1 DEF Calm, Tokens, facadeVars, driverVars
    <3>4. ASSUME NEW s \in Envelopes, Takes(w, s) PROVE Calm /\ UNCHANGED <<dead, admin>>
      <4>1. PICK new : new = [token |-> token + 1, env |-> s,
                              leaseExpiresAt |-> now + VisibilityMs]
        OBVIOUS
      <4>2. reserved' = reserved \cup {new} /\ new.env = s
        BY <3>4, <4>1 DEF Takes
      <4>3. \A u : Live(u)' <=> Live(u)
        BY <3>4, <4>2 DEF Takes, Live, Leased, Queued
      <4>4. \A t \in Tokens' : t \notin Tokens => execution'[t].phase \in Unsettled
        BY <3>4 DEF Takes, Unsettled
      <4> QED BY <3>1, <3>2, <3>4, <4>3, <4>4 DEF Calm, facadeVars, Takes
    <3> QED BY <3>1, <3>3, <3>4, PromptPump DEF PromptInv
  <2> QED BY <1>6, <2>1, <2>2 DEF Pump
<1>7. ASSUME NEW t \in Tokens, UNCHANGED systemVars, Proceed(t) \/ HandlerStep(t)
      PROVE  \/ Calm /\ UNCHANGED <<dead, admin>>
             \/ \E s \in Envelopes : Settles(t, s)
             \/ Finish(t) /\ UNCHANGED systemVars
  <2>1. CASE RateCount(t) \/ RateHit(t) \/ StartHandler(t) \/ LateReturn(t)
    <3>t. execution \in [Tokens -> Execution(Envelopes)]
      BY DEF IInv, TypeOK, WorkerTypeOK
    <3>1. UNCHANGED <<facadeVars, driverVars, token>>
      BY <2>1 DEF RateCount, RateHit, StartHandler, LateReturn
    <3>2. \A u \in Tokens \ {t} : execution'[u] = execution[u]
      BY <2>1, <3>t DEF RateCount, RateHit, StartHandler, LateReturn, To
    <3>3. /\ execution'[t].env = execution[t].env
          /\ \/ execution'[t].phase = execution[t].phase
             \/ execution[t].phase \in Unsettled /\ execution'[t].phase \in Unsettled
      BY <2>1, <3>t DEF RateCount, RateHit, StartHandler, LateReturn, To, Execution, Admitted,
                        Unsettled, WaitPhase
    <3>4. \A s : Live(s)' = Live(s)
      BY <3>1 DEF driverVars, Live, Leased, Queued
    <3> QED BY <3>1, <3>2, <3>3, <3>4 DEF Calm, facadeVars, driverVars, Tokens
  <2>2. CASE \/ RateDefer(t) \/ NoHandler(t) \/ HandlerSucceeds(t)
             \/ HandlerFails(t) \/ HandlerTimesOut(t)
    BY <1>7, <2>2, CallSettles
  <2> QED BY <1>7, <2>1, <2>2 DEF Proceed, HandlerStep, HandlerReturns
<1>8. CASE \E qs : Purge(qs)
  BY <1>8 DEF Purge
<1> QED BY <1>2, <1>3, <1>4, <1>5, <1>6, <1>7, <1>8 DEF Next

----------------------------------------------------------------------------
(***************************************************************************)
(* The dedupe registry.  A key names its job by id, and only the envelope  *)
(* a dispatch built carries one, so the id is that envelope's own seq.     *)
(* Finish releases the key of a job that has settled; that it takes no     *)
(* live job's key away rests on a settled job never being live again.      *)
(***************************************************************************)
Over == {"acking", "completed", "deadLettering", "failed"}

SettledGone ==
  \A t \in Tokens : execution[t].phase \in Over => ~Live(execution[t].env)

KeyIsOwn == \A s \in Envelopes : env[s].dedupeKey # None => env[s].id = s

LiveHoldsKey ==
  \A s \in Envelopes :
    env[s].dedupeKey # None /\ Live(s) =>
      activeDedupeKeys[<<env[s].queue, env[s].dedupeKey>>] = s

KeyNamesJob ==
  \A q \in Queues, k \in DedupeKeys :
    activeDedupeKeys[<<q, k>>] # None =>
      \E id \in Envelopes :
        /\ id = activeDedupeKeys[<<q, k>>]
        /\ env[id].queue = q /\ env[id].dedupeKey = k
        /\ Live(id) \/ Ran(id, {"acking", "deadLettering"})

DedupeInv == SettledGone /\ KeyIsOwn /\ LiveHoldsKey /\ KeyNamesJob

LEMMA SettledStaysGone ==
  ASSUME IInv, PromptInv, SettledGone, [Next]_vars
  PROVE  SettledGone'
<1> SUFFICES ASSUME NEW t \in Tokens', execution'[t].phase \in Over
             PROVE  \E s : s = execution'[t].env /\ ~Live(s)'
  BY DEF SettledGone
<1>t. execution \in [Tokens -> Execution(Envelopes)] /\ \A u \in Tokens : execution[u].env \in Envelopes
  BY DEF IInv, TypeOK, WorkerTypeOK, Execution
<1>0. Over \cap Unsettled = {}
  BY DEF Over, Unsettled, WaitPhase
<1>1. ASSUME t \in Tokens, execution[t].phase \in Over
      PROVE  \E s : s = execution'[t].env /\ ~Live(s)'
  <2>1. PICK s \in Envelopes : s = execution[t].env
    BY <1>t, <1>1
  <2>2. ~Live(s)
    BY <1>1, <2>1 DEF SettledGone
  <2>3. ~Live(s)'
    BY <2>2, NextContract, ContractForgets
  <2>4. Lives(t)
    BY <1>1, ExecutionsLive
  <2> QED BY <2>1, <2>3, <2>4 DEF Lives
<1>2. CASE Calm
  BY <1>0, <1>1, <1>2 DEF Calm
<1>3. CASE UNCHANGED <<token, execution>>
  BY <1>1, <1>3 DEF Tokens
<1>4. ASSUME NEW u \in Tokens, NEW s \in Envelopes, Settles(u, s)
      PROVE  \E x : x = execution'[t].env /\ ~Live(x)'
  <2>1. Tokens' = Tokens
    BY <1>4 DEF Settles, Tokens
  <2>2. CASE t # u
    BY <1>1, <1>4, <2>1, <2>2 DEF Settles, Moves
  <2>3. CASE t = u
    BY <1>4, <2>3 DEF Settles, Moves, Over
  <2> QED BY <2>2, <2>3
<1>5. ASSUME NEW u \in Tokens, Finish(u)
      PROVE  \E s : s = execution'[t].env /\ ~Live(s)'
  <2>1. Tokens' = Tokens
    BY <1>5 DEF Finish, Tokens
  <2>2. CASE t # u
    BY <1>1, <1>5, <1>t, <2>1, <2>2 DEF Finish, To
  <2>3. CASE t = u
    <3>1. execution'[t].phase = Finished(execution[t].phase) /\ execution[t].phase \in CallPhase
      BY <1>5, <1>t, <2>3 DEF Finish, To, Execution
    <3>2. execution[t].phase \in Over
      BY <3>1 DEF Finished, CallPhase, Over
    <3> QED BY <1>1, <2>1, <3>2
  <2> QED BY <2>2, <2>3
<1>6. ASSUME NEW qs, Purge(qs) PROVE UNCHANGED <<token, execution>>
  BY <1>6 DEF Purge, workerVars
<1>7. CASE UNCHANGED <<workerVars, systemVars>>
  BY <1>3, <1>7 DEF workerVars
<1> QED BY <1>2, <1>3, <1>4, <1>5, <1>6, <1>7, StepKinds

(* A job that a key names is live, or its settling call is still awaited.  *)
Occupied(id) == Live(id) \/ Ran(id, {"acking", "deadLettering"})

LEMMA KeysStillName ==
  ASSUME KeyNamesJob, UNCHANGED activeDedupeKeys,
         \A u \in Envelopes : /\ u \in Envelopes' /\ env'[u] = env[u]
                              /\ Occupied(u) => Occupied(u)'
  PROVE  KeyNamesJob'
<1> SUFFICES ASSUME NEW q \in Queues, NEW k \in DedupeKeys,
                    activeDedupeKeys'[<<q, k>>] # None
             PROVE  \E id \in Envelopes' :
                      /\ id = activeDedupeKeys'[<<q, k>>]
                      /\ env'[id].queue = q /\ env'[id].dedupeKey = k
                      /\ Live(id)' \/ Ran(id, {"acking", "deadLettering"})'
  BY DEF KeyNamesJob
<1>1. PICK id \in Envelopes :
        /\ id = activeDedupeKeys[<<q, k>>]
        /\ env[id].queue = q /\ env[id].dedupeKey = k
        /\ Live(id) \/ Ran(id, {"acking", "deadLettering"})
  BY DEF KeyNamesJob
<1>2. Occupied(id)'
  BY <1>1 DEF Occupied
<1>3. Live(id)' \/ Ran(id, {"acking", "deadLettering"})'
  BY <1>2 DEF Occupied
<1> QED BY <1>1, <1>3

LEMMA DispatchDedupes ==
  ASSUME IInv, DedupeInv, NEW o \in JobOptions, Dispatch(o), UNCHANGED <<workerVars, systemVars>>
  PROVE  KeyIsOwn' /\ LiveHoldsKey' /\ KeyNamesJob'
<1>o. o \in JobOption
  BY FacadeAssumption
<1>t. /\ activeDedupeKeys \in [Queues \X DedupeKeys -> Nat \cup {None}]
      /\ env \in [Envelopes -> Envelope] /\ seq \in Nat
  BY DEF IInv, TypeOK, FacadeTypeOK, DriverTypeOK
<1>1. PICK e \in Envelope : Adds(e) /\ e = buildEnvelope(o)
  BY DispatchAddsThis
<1>2. /\ Envelopes' = Envelopes \cup {seq} /\ seq \notin Envelopes
      /\ env'[seq] = e /\ \A u \in Envelopes : env'[u] = env[u]
      /\ \A u \in Envelopes : Live(u)' <=> Live(u)
      /\ \A n : n = seq => Live(n)'
      /\ UNCHANGED <<dead, token, execution>>
  BY <1>1, AddLives
<1>e. e.id = seq /\ e.queue = o.queue /\ e.dedupeKey = o.dedupeKey
  BY <1>1 DEF buildEnvelope
<1>q. \A u \in Envelopes : env[u].queue \in Queues /\ env[u].dedupeKey \in DedupeKeys \cup {None}
  BY <1>t DEF Envelope
<1>n. seq # None /\ None \notin Envelopes
  BY <1>t, NoneAssumption DEF Envelopes
<1>3. KeyIsOwn'
  BY <1>2, <1>e DEF KeyIsOwn, DedupeInv
<1>4. \A s : Ran(s, {"acking", "deadLettering"})' = Ran(s, {"acking", "deadLettering"})
  BY <1>2 DEF Ran, Tokens
<1>5. CASE o.dedupeKey = None
  <2>1. activeDedupeKeys' = activeDedupeKeys
    BY <1>5 DEF Dispatch
  <2>2. LiveHoldsKey'
    BY <1>2, <1>e, <1>5, <2>1 DEF LiveHoldsKey, DedupeInv
  <2>3. KeyNamesJob'
    BY <1>2, <1>4, <2>1, KeysStillName DEF Occupied, DedupeInv
  <2> QED BY <1>3, <2>2, <2>3
<1>6. CASE o.dedupeKey # None
  <2>k. o.queue \in Queues /\ o.dedupeKey \in DedupeKeys
    BY <1>o, <1>6 DEF JobOption
  <2>1. /\ activeDedupeKeys[<<o.queue, o.dedupeKey>>] = None
        /\ activeDedupeKeys' = [activeDedupeKeys EXCEPT ![<<o.queue, o.dedupeKey>>] = seq]
    BY <1>6 DEF Dispatch, IsDuplicate
  <2>2. activeDedupeKeys'[<<o.queue, o.dedupeKey>>] = seq
    BY <1>t, <2>k, <2>1
  <2>3. \A q \in Queues, k \in DedupeKeys : q # o.queue \/ k # o.dedupeKey =>
          activeDedupeKeys'[<<q, k>>] = activeDedupeKeys[<<q, k>>]
    BY <1>t, <2>k, <2>1
  <2>4. LiveHoldsKey'
    <3> SUFFICES ASSUME NEW s \in Envelopes', env'[s].dedupeKey # None, Live(s)'
                 PROVE  activeDedupeKeys'[<<env'[s].queue, env'[s].dedupeKey>>] = s
      BY DEF LiveHoldsKey
    <3>1. CASE s = seq
      BY <1>2, <1>e, <2>2, <3>1
    <3>2. CASE s \in Envelopes
      <4>1. env'[s] = env[s] /\ activeDedupeKeys[<<env[s].queue, env[s].dedupeKey>>] = s
        BY <1>2, <3>2 DEF LiveHoldsKey, DedupeInv
      <4>2. env[s].queue # o.queue \/ env[s].dedupeKey # o.dedupeKey
        BY <1>n, <2>1, <3>2, <4>1
      <4>3. env[s].queue \in Queues /\ env[s].dedupeKey \in DedupeKeys
        BY <1>q, <3>2, <4>1
      <4> QED BY <2>3, <4>1, <4>2, <4>3
    <3> QED BY <1>2, <3>1, <3>2
  <2>5. KeyNamesJob'
    <3> SUFFICES ASSUME NEW q \in Queues, NEW k \in DedupeKeys,
                        activeDedupeKeys'[<<q, k>>] # None
                 PROVE  \E id \in Envelopes' :
                          /\ id = activeDedupeKeys'[<<q, k>>]
                          /\ env'[id].queue = q /\ env'[id].dedupeKey = k
                          /\ Live(id)' \/ Ran(id, {"acking", "deadLettering"})'
      BY DEF KeyNamesJob
    <3>1. CASE q = o.queue /\ k = o.dedupeKey
      BY <1>2, <1>e, <2>2, <3>1
    <3>2. CASE q # o.queue \/ k # o.dedupeKey
      <4>1. activeDedupeKeys'[<<q, k>>] = activeDedupeKeys[<<q, k>>]
        BY <2>3, <3>2
      <4>2. PICK id \in Envelopes :
              /\ id = activeDedupeKeys[<<q, k>>]
              /\ env[id].queue = q /\ env[id].dedupeKey = k
              /\ Live(id) \/ Ran(id, {"acking", "deadLettering"})
        BY <4>1 DEF KeyNamesJob, DedupeInv
      <4> QED BY <1>2, <1>4, <4>1, <4>2
    <3> QED BY <3>1, <3>2
  <2> QED BY <1>3, <2>4, <2>5
<1> QED BY <1>5, <1>6

(* An enqueued dead letter carries no key.                                 *)
LEMMA RetryDedupes ==
  ASSUME IInv, DedupeInv, NEW a \in Admins, RetryEnqueue(a), UNCHANGED <<workerVars, systemVars>>
  PROVE  KeyIsOwn' /\ LiveHoldsKey' /\ KeyNamesJob'
<1>1. PICK e \in Envelope : Adds(e) /\ e = rebuildEnvelope(admin[a].held)
  BY RetryEnqueueAddsThis
<1>2. /\ Envelopes' = Envelopes \cup {seq} /\ seq \notin Envelopes
      /\ env'[seq] = e /\ \A u \in Envelopes : env'[u] = env[u]
      /\ \A u \in Envelopes : Live(u)' <=> Live(u)
      /\ \A n : n = seq => Live(n)'
      /\ UNCHANGED <<dead, token, execution>>
  BY <1>1, AddLives
<1>3. e.dedupeKey = None /\ UNCHANGED activeDedupeKeys
  BY <1>1 DEF rebuildEnvelope, RetryEnqueue
<1>4. \A s : Ran(s, {"acking", "deadLettering"})' = Ran(s, {"acking", "deadLettering"})
  BY <1>2 DEF Ran, Tokens
<1>5. KeyIsOwn' /\ LiveHoldsKey'
  BY <1>2, <1>3 DEF KeyIsOwn, LiveHoldsKey, DedupeInv
<1>6. KeyNamesJob'
  BY <1>2, <1>3, <1>4, KeysStillName DEF Occupied, DedupeInv
<1> QED BY <1>5, <1>6

LEMMA SettleDedupes ==
  ASSUME IInv, DedupeInv, NEW t \in Tokens, NEW s \in Envelopes, Settles(t, s)
  PROVE  KeyIsOwn' /\ LiveHoldsKey' /\ KeyNamesJob'
<1>1. UNCHANGED <<seq, env, activeDedupeKeys, token>> /\ Envelopes' = Envelopes /\ Tokens' = Tokens
  BY DEF Settles, Envelopes, Tokens
<1>2. KeyIsOwn'
  BY <1>1 DEF KeyIsOwn, DedupeInv
<1>3. \A u \in Envelopes : Live(u)' => Live(u)
  BY DEF Settles
<1>4. LiveHoldsKey'
  BY <1>1, <1>3 DEF LiveHoldsKey, DedupeInv
<1>5. \A u \in Envelopes : Live(u) \/ Ran(u, {"acking", "deadLettering"}) =>
                           Live(u)' \/ Ran(u, {"acking", "deadLettering"})'
  <2> SUFFICES ASSUME NEW u \in Envelopes, Live(u) \/ Ran(u, {"acking", "deadLettering"})
               PROVE  Live(u)' \/ Ran(u, {"acking", "deadLettering"})'
    OBVIOUS
  <2>1. CASE Ran(u, {"acking", "deadLettering"})
    <3>1. PICK x \in Tokens : /\ execution[x].env = u
                              /\ execution[x].phase \in {"acking", "deadLettering"}
      BY <2>1 DEF Ran
    <3>2. x # t
      BY <3>1 DEF Settles, Unsettled, WaitPhase
    <3>3. execution'[x] = execution[x]
      BY <3>2 DEF Settles, Moves
    <3> QED BY <1>1, <3>1, <3>3 DEF Ran
  <2>2. CASE Live(u) /\ u # s
    BY <2>2 DEF Settles
  <2>3. CASE u = s
    <3>1. execution'[t].env = s
      BY DEF Settles, Moves
    <3>2. Live(s)' \/ execution'[t].phase \in {"acking", "deadLettering"}
      BY DEF Settles
    <3> QED BY <1>1, <2>3, <3>1, <3>2 DEF Ran
  <2> QED BY <2>1, <2>2, <2>3
<1>6. KeyNamesJob'
  BY <1>1, <1>5, KeysStillName DEF Occupied, DedupeInv
<1> QED BY <1>2, <1>4, <1>6

LEMMA FinishDedupes ==
  ASSUME IInv, DedupeInv, NEW t \in Tokens, Finish(t)
  PROVE  KeyIsOwn' /\ LiveHoldsKey' /\ KeyNamesJob'
<1>s. PICK s : s = execution[t].env
  OBVIOUS
<1>t. /\ execution \in [Tokens -> Execution(Envelopes)] /\ s \in Envelopes
      /\ activeDedupeKeys \in [Queues \X DedupeKeys -> Nat \cup {None}]
      /\ env \in [Envelopes -> Envelope]
  BY <1>s DEF IInv, TypeOK, WorkerTypeOK, FacadeTypeOK, DriverTypeOK, Execution
<1>q. \A u \in Envelopes : env[u].queue \in Queues /\ env[u].dedupeKey \in DedupeKeys \cup {None}
  BY <1>t DEF Envelope
<1>1. /\ UNCHANGED <<seq, env, driverVars, token>> /\ Envelopes' = Envelopes /\ Tokens' = Tokens
      /\ \A u \in Tokens \ {t} : execution'[u] = execution[u]
  BY <1>t DEF Finish, To, Envelopes, Tokens
<1>2. \A u : Live(u)' = Live(u)
  BY <1>1 DEF driverVars, Live, Leased, Queued
<1>3. KeyIsOwn'
  BY <1>1 DEF KeyIsOwn, DedupeInv
<1>4. CASE UNCHANGED activeDedupeKeys /\ execution[t].phase \notin {"acking", "deadLettering"}
  <2>1. LiveHoldsKey'
    BY <1>1, <1>2, <1>4 DEF LiveHoldsKey, DedupeInv
  <2>2. \A u \in Envelopes : Occupied(u) => Occupied(u)'
    <3> SUFFICES ASSUME NEW u \in Envelopes, Ran(u, {"acking", "deadLettering"})
                 PROVE  Ran(u, {"acking", "deadLettering"})'
      BY <1>2 DEF Occupied
    <3>1. PICK x \in Tokens : /\ execution[x].env = u
                              /\ execution[x].phase \in {"acking", "deadLettering"}
      BY DEF Ran
    <3>2. x # t
      BY <1>4, <3>1
    <3> QED BY <1>1, <3>1, <3>2 DEF Ran
  <2> QED BY <1>1, <1>3, <1>4, <2>1, <2>2, KeysStillName DEF DedupeInv
<1>5. CASE /\ execution[t].phase \in {"acking", "deadLettering"}
           /\ activeDedupeKeys' = releaseDedupeKey(s)
  <2>0. ~Live(s)
    BY <1>5, <1>s DEF DedupeInv, SettledGone, Over
  <2>1. \A q \in Queues, k \in DedupeKeys :
          /\ (q # env[s].queue \/ k # env[s].dedupeKey \/ activeDedupeKeys[<<q, k>>] # s) =>
               activeDedupeKeys'[<<q, k>>] = activeDedupeKeys[<<q, k>>]
          /\ (q = env[s].queue /\ k = env[s].dedupeKey /\ activeDedupeKeys[<<q, k>>] = s) =>
               activeDedupeKeys'[<<q, k>>] = None
    <3>0. \A k \in DedupeKeys : k # None
      BY NoneAssumption
    <3>1. env[s].dedupeKey # None => env[s].id = s
      BY <1>t DEF DedupeInv, KeyIsOwn
    <3>2. CASE env[s].dedupeKey = None
      BY <1>5, <3>0, <3>2 DEF releaseDedupeKey
    <3>3. CASE env[s].dedupeKey # None
      <4>1. env[s].queue \in Queues /\ env[s].dedupeKey \in DedupeKeys
        BY <1>q, <1>t, <3>3
      <4>2. activeDedupeKeys' =
              IF activeDedupeKeys[<<env[s].queue, env[s].dedupeKey>>] = s
              THEN [activeDedupeKeys EXCEPT ![<<env[s].queue, env[s].dedupeKey>>] = None]
              ELSE activeDedupeKeys
        BY <1>5, <3>1, <3>3 DEF releaseDedupeKey
      <4> QED BY <1>t, <4>1, <4>2
    <3> QED BY <3>2, <3>3
  <2>2. LiveHoldsKey'
    <3> SUFFICES ASSUME NEW u \in Envelopes, env[u].dedupeKey # None, Live(u)
                 PROVE  activeDedupeKeys'[<<env[u].queue, env[u].dedupeKey>>] = u
      BY <1>1, <1>2 DEF LiveHoldsKey
    <3>1. activeDedupeKeys[<<env[u].queue, env[u].dedupeKey>>] = u /\ u # s
      BY <2>0 DEF LiveHoldsKey, DedupeInv
    <3>2. env[u].queue \in Queues /\ env[u].dedupeKey \in DedupeKeys
      BY <1>q
    <3> QED BY <2>1, <3>1, <3>2
  <2>3. KeyNamesJob'
    <3> SUFFICES ASSUME NEW q \in Queues, NEW k \in DedupeKeys,
                        activeDedupeKeys'[<<q, k>>] # None
                 PROVE  \E id \in Envelopes' :
                          /\ id = activeDedupeKeys'[<<q, k>>]
                          /\ env'[id].queue = q /\ env'[id].dedupeKey = k
                          /\ Live(id)' \/ Ran(id, {"acking", "deadLettering"})'
      BY DEF KeyNamesJob
    <3>1. activeDedupeKeys'[<<q, k>>] = activeDedupeKeys[<<q, k>>]
      BY <2>1
    <3>2. PICK id \in Envelopes :
            /\ id = activeDedupeKeys[<<q, k>>]
            /\ env[id].queue = q /\ env[id].dedupeKey = k
            /\ Live(id) \/ Ran(id, {"acking", "deadLettering"})
      BY <3>1 DEF KeyNamesJob, DedupeInv
    <3>3. id # s
      BY <2>1, <3>1, <3>2
    <3>4. Ran(id, {"acking", "deadLettering"}) => Ran(id, {"acking", "deadLettering"})'
      <4> SUFFICES ASSUME Ran(id, {"acking", "deadLettering"})
                   PROVE  Ran(id, {"acking", "deadLettering"})'
        OBVIOUS
      <4>1. PICK x \in Tokens : /\ execution[x].env = id
                                /\ execution[x].phase \in {"acking", "deadLettering"}
        BY DEF Ran
      <4>2. x # t
        BY <1>s, <3>3, <4>1
      <4> QED BY <1>1, <4>1, <4>2 DEF Ran
    <3> QED BY <1>1, <1>2, <3>1, <3>2, <3>4
  <2> QED BY <1>3, <2>2, <2>3
<1> QED BY <1>4, <1>5, <1>s DEF Finish

LEMMA CalmDedupes ==
  ASSUME DedupeInv, Calm
  PROVE  KeyIsOwn' /\ LiveHoldsKey' /\ KeyNamesJob'
<1>1. UNCHANGED <<seq, env, activeDedupeKeys>> /\ Envelopes' = Envelopes
  BY DEF Calm, Envelopes
<1>2. KeyIsOwn' /\ LiveHoldsKey'
  BY <1>1 DEF Calm, KeyIsOwn, LiveHoldsKey, DedupeInv
<1>3. \A u \in Envelopes : Occupied(u) => Occupied(u)'
  <2> SUFFICES ASSUME NEW u \in Envelopes, Ran(u, {"acking", "deadLettering"})
               PROVE  Ran(u, {"acking", "deadLettering"})'
    BY DEF Occupied, Calm
  <2>1. PICK x \in Tokens : /\ execution[x].env = u
                            /\ execution[x].phase \in {"acking", "deadLettering"}
    BY DEF Ran
  <2>2. execution'[x].phase = execution[x].phase
    BY <2>1 DEF Calm, Unsettled, WaitPhase
  <2> QED BY <2>1, <2>2 DEF Ran, Calm
<1> QED BY <1>1, <1>2, <1>3, KeysStillName DEF DedupeInv

LEMMA NextDedupe ==
  ASSUME "purge" \notin ApiCalls, IInv, PromptInv, DedupeInv, [Next]_vars
  PROVE  DedupeInv'
<1>1. SettledGone'
  BY SettledStaysGone DEF DedupeInv
<1>2. KeyIsOwn' /\ LiveHoldsKey' /\ KeyNamesJob'
  BY StepKinds, CalmDedupes, DispatchDedupes, RetryDedupes, SettleDedupes, FinishDedupes
<1> QED BY <1>1, <1>2 DEF DedupeInv

(* While handlers settle within their lease and no operator purges, a live *)
(* job holds its dedupe key and a held key names a job that is live or     *)
(* just being settled: no duplicate of a live job is admitted, and none is *)
(* refused on account of a job that is over.                               *)
THEOREM DedupeIsExact ==
  ASSUME ~SlowHandlers, VisibilityMs > 0, "purge" \notin ApiCalls
  PROVE  Spec => []DedupeExact
<1>1. Prompt
  BY DEF Prompt
<1>2. Init => DedupeInv
  <2> SUFFICES ASSUME Init PROVE DedupeInv
    OBVIOUS
  <2>1. Envelopes = {} /\ Tokens = {}
    BY DEF Init, Envelopes, Tokens
  <2>2. \A q \in Queues, k \in DedupeKeys : activeDedupeKeys[<<q, k>>] = None
    BY DEF Init
  <2> QED BY <2>1, <2>2 DEF DedupeInv, SettledGone, KeyIsOwn, LiveHoldsKey, KeyNamesJob
<1>3. IInv /\ PromptInv /\ DedupeInv /\ [Next]_vars => DedupeInv'
  BY NextDedupe
<1>4. DedupeInv => DedupeExact
  BY DEF DedupeInv, LiveHoldsKey, KeyNamesJob, DedupeExact
<1> QED BY <1>1, <1>2, <1>3, <1>4, PromptInvariance, PTL DEF Spec

----------------------------------------------------------------------------
(***************************************************************************)
(* Incarnations of a job id: its live envelopes, its dead letters and the  *)
(* retries that hold one.  A step may take the only one away, or replace   *)
(* it by another; an id that has none gets none, unless it is new.         *)
(***************************************************************************)
LiveAs(id) == {u \in Envelopes : env[u].id = id /\ Live(u)}
Holders(id) == {a \in Admins : HeldBy(a, id)}

Inc(id) == {<<"live", u>> : u \in LiveAs(id)} \cup {<<"dead", d>> : d \in DeadOf(id)}
             \cup {<<"held", a>> : a \in Holders(id)}

IdsKnown == \A s \in Envelopes : env[s].id \in Envelopes
AtMostOne == \A id : \E y : Inc(id) \subseteq {y}
DoneIsGone == \A u \in Envelopes : Succeeded(u) => Inc(env[u].id) = {}

IncarnationInv == IdsKnown /\ AtMostOne /\ DoneIsGone

IncStep(id) ==
  \/ Inc(id)' \subseteq Inc(id)
  \/ Inc(id) # {} /\ \E y : Inc(id)' \subseteq {y}
  \/ id \notin Envelopes /\ \E y : Inc(id)' \subseteq {y}

LEMMA IncShrinks ==
  ASSUME NEW id, LiveAs(id)' \subseteq LiveAs(id), DeadOf(id)' \subseteq DeadOf(id),
         Holders(id)' \subseteq Holders(id)
  PROVE  Inc(id)' \subseteq Inc(id)
BY DEF Inc

LEMMA IncEmpty ==
  ASSUME NEW id, Inc(id) = {}
  PROVE  LiveAs(id) = {} /\ DeadOf(id) = {} /\ Holders(id) = {}
BY DEF Inc

(* An id with an incarnation has it alone.                                 *)
LEMMA Alone ==
  ASSUME AtMostOne, NEW id
  PROVE  /\ \A u \in LiveAs(id) : LiveAs(id) = {u} /\ DeadOf(id) = {} /\ Holders(id) = {}
         /\ \A d \in DeadOf(id) : LiveAs(id) = {} /\ DeadOf(id) = {d} /\ Holders(id) = {}
         /\ \A a \in Holders(id) : LiveAs(id) = {} /\ DeadOf(id) = {} /\ Holders(id) = {a}
<1>1. PICK y : Inc(id) \subseteq {y}
  BY DEF AtMostOne
<1>2. /\ \A u \in LiveAs(id) : y = <<"live", u>>
      /\ \A d \in DeadOf(id) : y = <<"dead", d>>
      /\ \A a \in Holders(id) : y = <<"held", a>>
  BY <1>1 DEF Inc
<1>3. \A x, z : <<"live", x>> # <<"dead", z>> /\ <<"live", x>> # <<"held", z>>
               /\ <<"dead", x>> # <<"held", z>>
  OBVIOUS
<1>4. \A x, z : /\ <<"live", x>> = <<"live", z>> => x = z
                /\ <<"dead", x>> = <<"dead", z>> => x = z
                /\ <<"held", x>> = <<"held", z>> => x = z
  OBVIOUS
<1> QED BY <1>2, <1>3, <1>4

LEMMA RefsKnown ==
  ASSUME IInv
  PROVE  /\ \A d \in dead : d.env \in Envelopes /\ d # None
         /\ \A a \in Admins : admin[a].held # None => admin[a].held.env \in Envelopes
         /\ \A t \in Tokens : execution[t].env \in Envelopes
         /\ seq \in Nat /\ admin \in [Admins -> AdminState(Envelopes, Tokens)]
<1>1. /\ dead \subseteq DeadLetterRecord(Envelopes, Tokens) /\ seq \in Nat /\ token \in Nat
      /\ admin \in [Admins -> AdminState(Envelopes, Tokens)]
      /\ execution \in [Tokens -> Execution(Envelopes)]
  BY DEF IInv, TypeOK, DriverTypeOK, FacadeTypeOK, WorkerTypeOK
<1>2. DeadLetterRecord(Envelopes, Tokens) \subseteq [token: Nat, env: Nat, attempts: Int]
  BY <1>1 DEF DeadLetterRecord, Envelopes, Tokens
<1>3. \A d \in dead : d.env \in Envelopes /\ d # None
  BY <1>1, <1>2, NoneAssumption DEF DeadLetterRecord
<1>4. \A a \in Admins : admin[a].held # None => admin[a].held.env \in Envelopes
  BY <1>1 DEF AdminState, DeadLetterRecord
<1> QED BY <1>1, <1>3, <1>4 DEF Execution

(* Steps that neither add nor take a dead letter.                          *)
LEMMA DriverIncStep ==
  ASSUME UNCHANGED <<seq, env, admin>>, dead' \subseteq dead,
         \A u \in Envelopes : Live(u)' => Live(u), NEW id
  PROVE  IncStep(id)
<1>1. LiveAs(id)' \subseteq LiveAs(id)
  BY DEF LiveAs, Envelopes
<1>2. DeadOf(id)' \subseteq DeadOf(id) /\ Holders(id)' \subseteq Holders(id)
  BY DEF DeadOf, Holders, HeldBy
<1> QED BY <1>1, <1>2, IncShrinks DEF IncStep

(* A retry takes a dead letter out of the driver.                          *)
LEMMA TakeIncStep ==
  ASSUME IInv, AtMostOne, NEW a \in Admins, NEW d \in dead, admin[a].held = None,
         UNCHANGED <<seq, env>>, \A u \in Envelopes : Live(u)' <=> Live(u),
         dead' = dead \ {d}, admin'[a].held = d,
         \A b \in Admins \ {a} : admin'[b] = admin[b], NEW id
  PROVE  IncStep(id)
<1>1. LiveAs(id)' = LiveAs(id)
  BY DEF LiveAs, Envelopes
<1>2. DeadOf(id)' = DeadOf(id) \ {d}
  BY DEF DeadOf
<1>3. CASE env[d.env].id # id
  <2>1. Holders(id)' \subseteq Holders(id)
    BY <1>3 DEF Holders, HeldBy
  <2> QED BY <1>1, <1>2, <2>1, IncShrinks DEF IncStep
<1>4. CASE env[d.env].id = id
  <2>1. d \in DeadOf(id)
    BY <1>4 DEF DeadOf
  <2>2. LiveAs(id) = {} /\ DeadOf(id) = {d} /\ Holders(id) = {}
    BY <2>1, Alone
  <2>3. Holders(id)' \subseteq {a}
    BY <2>2 DEF Holders, HeldBy
  <2>4. Inc(id)' \subseteq {<<"held", a>>}
    BY <1>1, <1>2, <2>2, <2>3 DEF Inc
  <2>5. Inc(id) # {}
    BY <2>1 DEF Inc
  <2> QED BY <2>4, <2>5 DEF IncStep
<1> QED BY <1>3, <1>4

LEMMA ApiIncStep ==
  ASSUME IInv, AtMostOne, Calm, DeadLetterApi, NEW id
  PROVE  IncStep(id)
<1>t. seq \in Nat /\ admin \in [Admins -> AdminState(Envelopes, Tokens)]
  BY RefsKnown
<1>c. UNCHANGED <<seq, env>> /\ \A u \in Envelopes : Live(u)' <=> Live(u)
  BY DEF Calm
<1>1. PICK a \in Admins :
        \/ \E d \in dead : DeadLetterRetry(a, d)
        \/ \E qs : DeadLetterRetryAll(a, qs)
        \/ \E r \in admin[a].todo : RetryAllTake(a, r)
  <2>1. \A a \in Admins : ~RetryEnqueue(a)
    BY <1>t, <1>c DEF RetryEnqueue, AddEnvelope
  <2> QED BY <2>1 DEF DeadLetterApi
<1>2. ASSUME UNCHANGED dead, \A b \in Admins : admin'[b].held = admin[b].held
      PROVE  IncStep(id)
  <2>1. LiveAs(id)' = LiveAs(id)
    BY <1>c DEF LiveAs, Envelopes
  <2>2. DeadOf(id)' = DeadOf(id) /\ Holders(id)' = Holders(id)
    BY <1>c, <1>2 DEF DeadOf, Holders, HeldBy
  <2> QED BY <2>1, <2>2, IncShrinks DEF IncStep
<1>3. ASSUME NEW d \in dead, DeadLetterRetry(a, d) PROVE IncStep(id)
  <2>1. /\ admin[a].held = None /\ dead' = dead \ {d} /\ admin'[a].held = d
        /\ \A b \in Admins \ {a} : admin'[b] = admin[b]
    BY <1>3, <1>t DEF DeadLetterRetry, removeDeadLetter, Idle, AdminState
  <2> QED BY <1>c, <2>1, TakeIncStep
<1>4. ASSUME NEW qs, DeadLetterRetryAll(a, qs) PROVE IncStep(id)
  <2>1. \A b \in Admins : admin'[b].held = admin[b].held
    BY <1>4, <1>t DEF DeadLetterRetryAll, AdminState
  <2> QED BY <1>2, <1>4, <2>1 DEF DeadLetterRetryAll, driverVars
<1>5. ASSUME NEW r \in admin[a].todo, RetryAllTake(a, r) PROVE IncStep(id)
  <2>1. CASE /\ admin' = [admin EXCEPT ![a].todo = @ \ {r}]
             /\ UNCHANGED driverVars
    <3>1. \A b \in Admins : admin'[b].held = admin[b].held
      BY <2>1, <1>t DEF AdminState
    <3> QED BY <1>2, <2>1, <3>1 DEF driverVars
  <2>2. ASSUME NEW d \in dead, removeDeadLetter(d),
               admin' = [admin EXCEPT ![a] = [todo |-> @.todo \ {r}, held |-> d]]
        PROVE  IncStep(id)
    <3>1. /\ dead' = dead \ {d} /\ admin'[a].held = d
          /\ \A b \in Admins \ {a} : admin'[b] = admin[b]
      BY <2>2, <1>t DEF removeDeadLetter
    <3>2. admin[a].held = None
      BY <1>5 DEF RetryAllTake
    <3> QED BY <1>c, <3>1, <3>2, TakeIncStep
  <2> QED BY <1>5, <2>1, <2>2 DEF RetryAllTake, DeadOf
<1> QED BY <1>1, <1>3, <1>4, <1>5

(* A new envelope: of a new id, or of the record its retry held.           *)
LEMMA DispatchIncStep ==
  ASSUME IInv, IdsKnown, NEW o \in JobOptions, Dispatch(o), UNCHANGED <<workerVars, systemVars>>,
         NEW id
  PROVE  IncStep(id)
<1>1. PICK e \in Envelope : Adds(e) /\ e = buildEnvelope(o)
  BY DispatchAddsThis
<1>2. /\ Envelopes' = Envelopes \cup {seq} /\ seq \notin Envelopes
      /\ env'[seq] = e /\ \A u \in Envelopes : env'[u] = env[u]
      /\ \A u \in Envelopes : Live(u)' <=> Live(u)
      /\ UNCHANGED <<dead, token, execution>>
  BY <1>1, AddLives
<1>3. e.id = seq /\ UNCHANGED admin
  BY <1>1 DEF buildEnvelope, Dispatch
<1>4. DeadOf(id)' = DeadOf(id) /\ Holders(id)' = Holders(id)
  BY <1>2, <1>3, RefsKnown DEF DeadOf, Holders, HeldBy
<1>5. CASE id # seq
  <2>1. LiveAs(id)' \subseteq LiveAs(id)
    BY <1>2, <1>3, <1>5 DEF LiveAs
  <2> QED BY <1>4, <2>1, IncShrinks DEF IncStep
<1>6. CASE id = seq
  <2>1. LiveAs(id)' \subseteq {seq}
    BY <1>2, <1>6 DEF LiveAs, IdsKnown
  <2>2. DeadOf(id) = {} /\ Holders(id) = {}
    BY <1>2, <1>6, RefsKnown DEF DeadOf, Holders, HeldBy, IdsKnown
  <2>3. Inc(id)' \subseteq {<<"live", seq>>}
    BY <1>4, <2>1, <2>2 DEF Inc
  <2> QED BY <1>2, <1>6, <2>3 DEF IncStep
<1> QED BY <1>5, <1>6

LEMMA RetryIncStep ==
  ASSUME IInv, IdsKnown, AtMostOne, NEW a \in Admins, RetryEnqueue(a),
         UNCHANGED <<workerVars, systemVars>>, NEW id
  PROVE  IncStep(id)
<1>1. PICK e \in Envelope : Adds(e) /\ e = rebuildEnvelope(admin[a].held)
  BY RetryEnqueueAddsThis
<1>2. /\ Envelopes' = Envelopes \cup {seq} /\ seq \notin Envelopes
      /\ env'[seq] = e /\ \A u \in Envelopes : env'[u] = env[u]
      /\ \A u \in Envelopes : Live(u)' <=> Live(u)
      /\ UNCHANGED <<dead, token, execution>>
  BY <1>1, AddLives
<1>t. seq \in Nat /\ admin \in [Admins -> AdminState(Envelopes, Tokens)]
  BY RefsKnown
<1>3. /\ e.id = env[admin[a].held.env].id /\ admin[a].held # None /\ admin'[a].held = None
      /\ \A b \in Admins \ {a} : admin'[b] = admin[b]
  BY <1>1, <1>t DEF rebuildEnvelope, RetryEnqueue, AdminState
<1>4. DeadOf(id)' = DeadOf(id) /\ Holders(id)' \subseteq Holders(id) \ {a}
  BY <1>2, <1>3, RefsKnown DEF DeadOf, Holders, HeldBy
<1>5. CASE id # e.id
  <2>1. LiveAs(id)' \subseteq LiveAs(id)
    BY <1>2, <1>5 DEF LiveAs
  <2> QED BY <1>4, <2>1, IncShrinks DEF IncStep
<1>6. CASE id = e.id
  <2>1. a \in Holders(id)
    BY <1>3, <1>6 DEF Holders, HeldBy
  <2>2. LiveAs(id) = {} /\ DeadOf(id) = {} /\ Holders(id) = {a}
    BY <2>1, Alone
  <2>3. LiveAs(id)' \subseteq {seq}
    BY <1>2, <2>2 DEF LiveAs
  <2>4. Inc(id)' \subseteq {<<"live", seq>>}
    BY <1>4, <2>2, <2>3 DEF Inc
  <2>5. Inc(id) # {}
    BY <2>1 DEF Inc
  <2> QED BY <2>4, <2>5 DEF IncStep
<1> QED BY <1>5, <1>6

(* A settled execution: the job is acked away, kept, or its one            *)
(* incarnation becomes a dead letter.                                      *)
LEMMA SettleIncStep ==
  ASSUME IInv, AtMostOne, NEW t \in Tokens, NEW s \in Envelopes, Settles(t, s), NEW id
  PROVE  /\ IncStep(id)
         /\ id = env[s].id /\ execution'[t].phase = "acking" => Inc(id)' = {}
<1>1. UNCHANGED <<seq, env, admin>> /\ Envelopes' = Envelopes
      /\ \A u \in Envelopes : Live(u)' => Live(u)
  BY DEF Settles, Envelopes
<1>2. LiveAs(id)' \subseteq LiveAs(id) /\ Holders(id)' = Holders(id)
  BY <1>1 DEF LiveAs, Holders, HeldBy
<1>3. id = env[s].id => LiveAs(id) = {s} /\ DeadOf(id) = {} /\ Holders(id) = {}
  <2>1. id = env[s].id => s \in LiveAs(id)
    BY DEF Settles, LiveAs
  <2> QED BY <2>1, Alone
<1>4. CASE dead' = dead
  <2>1. DeadOf(id)' = DeadOf(id)
    BY <1>1, <1>4 DEF DeadOf
  <2>2. IncStep(id)
    BY <1>2, <2>1, IncShrinks DEF IncStep
  <2>3. ASSUME id = env[s].id, execution'[t].phase = "acking" PROVE Inc(id)' = {}
    <3>1. ~Live(s)'
      BY <2>3 DEF Settles
    <3>2. LiveAs(id)' = {}
      BY <1>2, <1>3, <2>3, <3>1 DEF LiveAs
    <3> QED BY <1>2, <1>3, <2>1, <2>3, <3>2 DEF Inc
  <2> QED BY <2>2, <2>3
<1>5. CASE /\ execution'[t].phase = "deadLettering" /\ ~Live(s)'
           /\ \E n : dead' = dead \cup {[token |-> t, env |-> s, attempts |-> n]}
  <2>1. PICK d : dead' = dead \cup {d} /\ d.env = s
    <3>1. PICK n : dead' = dead \cup {[token |-> t, env |-> s, attempts |-> n]}
      BY <1>5
    <3>2. [token |-> t, env |-> s, attempts |-> n].env = s
      OBVIOUS
    <3> QED BY <3>1, <3>2
  <2>2. CASE id # env[s].id
    <3>1. DeadOf(id)' \subseteq DeadOf(id)
      BY <1>1, <2>1, <2>2 DEF DeadOf
    <3> QED BY <1>2, <2>2, <3>1, IncShrinks DEF IncStep
  <2>3. CASE id = env[s].id
    <3>1. LiveAs(id)' = {}
      BY <1>2, <1>3, <1>5, <2>3 DEF LiveAs
    <3>2. DeadOf(id)' \subseteq {d}
      BY <1>1, <1>3, <2>1, <2>3 DEF DeadOf
    <3>3. Inc(id)' \subseteq {<<"dead", d>>}
      BY <1>2, <1>3, <2>3, <3>1, <3>2 DEF Inc
    <3>4. Inc(id) # {}
      BY <1>3, <2>3 DEF Inc
    <3> QED BY <1>5, <3>3, <3>4 DEF IncStep
  <2> QED BY <2>2, <2>3
<1> QED BY <1>4, <1>5 DEF Settles

LEMMA NextInc ==
  ASSUME IInv, PromptInv, IdsKnown, AtMostOne, [Next]_vars, NEW id
  PROVE  IncStep(id)
<1>1. CASE Calm /\ UNCHANGED <<dead, admin>>
  BY <1>1, DriverIncStep DEF Calm
<1>2. ASSUME Calm, NEW qs, Flush(qs) PROVE IncStep(id)
  <2>1. dead' \subseteq dead /\ UNCHANGED admin
    BY <1>2 DEF Flush, DeadLetterFlush, flushDeadLetters
  <2> QED BY <1>2, <2>1, DriverIncStep DEF Calm
<1>3. ASSUME NEW t \in Tokens, Finish(t) PROVE IncStep(id)
  <2>1. UNCHANGED <<seq, env, admin, driverVars>>
    BY <1>3 DEF Finish
  <2>2. \A u : Live(u)' = Live(u)
    BY <2>1 DEF driverVars, Live, Leased, Queued
  <2> QED BY <2>1, <2>2, DriverIncStep DEF driverVars
<1>4. ASSUME NEW qs, Purge(qs) PROVE IncStep(id)
  <2>1. UNCHANGED <<seq, env, admin, dead>>
    BY <1>4 DEF Purge, purge, facadeVars
  <2>2. \A u : Live(u)' => Live(u)
    BY <1>4 DEF Purge, purge, Live, Leased, Queued
  <2> QED BY <2>1, <2>2, DriverIncStep
<1>5. ASSUME NEW t \in Tokens, NEW s \in Envelopes, Settles(t, s) PROVE IncStep(id)
  BY <1>5, SettleIncStep
<1> QED BY <1>1, <1>2, <1>3, <1>4, <1>5, StepKinds, ApiIncStep, DispatchIncStep, RetryIncStep

LEMMA IdsStayKnown ==
  ASSUME IInv, PromptInv, IdsKnown, [Next]_vars
  PROVE  IdsKnown'
<1>1. CASE UNCHANGED <<seq, env>>
  BY <1>1 DEF IdsKnown, Envelopes
<1>2. ASSUME NEW e, Adds(e), e.id \in Envelopes \cup {seq} PROVE IdsKnown'
  BY <1>2, AddLives DEF IdsKnown
<1>3. ASSUME NEW o \in JobOptions, Dispatch(o), UNCHANGED <<workerVars, systemVars>>
      PROVE  IdsKnown'
  <2>1. PICK e \in Envelope : Adds(e) /\ e = buildEnvelope(o)
    BY <1>3, DispatchAddsThis
  <2>2. e.id = seq
    BY <2>1 DEF buildEnvelope
  <2> QED BY <1>2, <2>1, <2>2
<1>4. ASSUME NEW a \in Admins, RetryEnqueue(a), UNCHANGED <<workerVars, systemVars>>
      PROVE  IdsKnown'
  <2>1. PICK e \in Envelope : Adds(e) /\ e = rebuildEnvelope(admin[a].held)
    BY <1>4, RetryEnqueueAddsThis
  <2>2. e.id = env[admin[a].held.env].id /\ admin[a].held # None
    BY <1>4, <2>1 DEF rebuildEnvelope, RetryEnqueue
  <2>3. e.id \in Envelopes
    BY <2>2, RefsKnown DEF IdsKnown
  <2> QED BY <1>2, <2>1, <2>3
<1>5. ASSUME NEW t \in Tokens, Finish(t) PROVE UNCHANGED <<seq, env>>
  BY <1>5 DEF Finish
<1>6. ASSUME NEW qs, Purge(qs) PROVE UNCHANGED <<seq, env>>
  BY <1>6 DEF Purge, facadeVars
<1> QED BY <1>1, <1>3, <1>4, <1>5, <1>6, StepKinds DEF Calm, Settles

(* A job that succeeded before the step has no incarnation after it; one   *)
(* that succeeds in the step loses its only incarnation there.             *)
LEMMA DoneStaysGone ==
  ASSUME IInv, PromptInv, IncarnationInv, [Next]_vars
  PROVE  DoneIsGone'
<1> DEFINE Done == {"acking", "completed"}
<1> SUFFICES ASSUME NEW t \in Tokens', execution'[t].phase \in Done
             PROVE  \E id : id = env'[execution'[t].env].id /\ Inc(id)' = {}
  BY DEF DoneIsGone, Succeeded, Ran
<1>t. execution \in [Tokens -> Execution(Envelopes)] /\ \A u \in Tokens : execution[u].env \in Envelopes
  BY DEF IInv, TypeOK, WorkerTypeOK, Execution
<1>0. Done \cap Unsettled = {}
  BY DEF Unsettled, WaitPhase
<1>1. ASSUME t \in Tokens, execution[t].phase \in Done
      PROVE  \E id : id = env'[execution'[t].env].id /\ Inc(id)' = {}
  <2>1. PICK s \in Envelopes : s = execution[t].env
    BY <1>t, <1>1
  <2>2. PICK id \in Envelopes : id = env[s].id
    BY DEF IncarnationInv, IdsKnown
  <2>3. Inc(id) = {}
    <3>1. Succeeded(s)
      BY <1>1, <2>1 DEF Succeeded, Ran
    <3> QED BY <2>2, <3>1 DEF IncarnationInv, DoneIsGone
  <2>4. IncStep(id)
    BY NextInc DEF IncarnationInv
  <2>5. Inc(id)' = {}
    BY <2>2, <2>3, <2>4 DEF IncStep
  <2>6. execution'[t].env = s /\ env'[s] = env[s]
    BY <1>1, <2>1, ExecutionsLive, EnvelopesGrow DEF Lives
  <2> QED BY <2>2, <2>5, <2>6
<1>2. CASE Calm
  BY <1>0, <1>1, <1>2 DEF Calm
<1>3. CASE UNCHANGED <<token, execution>>
  BY <1>1, <1>3 DEF Tokens
<1>4. ASSUME NEW u \in Tokens, NEW s \in Envelopes, Settles(u, s)
      PROVE  \E id : id = env'[execution'[t].env].id /\ Inc(id)' = {}
  <2>1. Tokens' = Tokens
    BY <1>4 DEF Settles, Tokens
  <2>2. CASE t # u
    BY <1>1, <1>4, <2>1, <2>2 DEF Settles, Moves
  <2>3. CASE t = u
    <3>1. execution'[t].phase = "acking" /\ execution'[t].env = s /\ env'[s] = env[s]
      BY <1>4, <2>3 DEF Settles, Moves
    <3>2. PICK id : id = env[s].id
      OBVIOUS
    <3>3. Inc(id)' = {}
      BY <1>4, <2>3, <3>1, <3>2, SettleIncStep DEF IncarnationInv
    <3> QED BY <3>1, <3>2, <3>3
  <2> QED BY <2>2, <2>3
<1>5. ASSUME NEW u \in Tokens, Finish(u)
      PROVE  \E id : id = env'[execution'[t].env].id /\ Inc(id)' = {}
  <2>1. Tokens' = Tokens
    BY <1>5 DEF Finish, Tokens
  <2>2. CASE t # u
    BY <1>1, <1>5, <1>t, <2>1, <2>2 DEF Finish, To
  <2>3. CASE t = u
    <3>1. execution'[t].phase = Finished(execution[t].phase) /\ execution[t].phase \in CallPhase
      BY <1>5, <1>t, <2>3 DEF Finish, To, Execution
    <3>2. execution[t].phase \in Done
      BY <3>1 DEF Finished, CallPhase
    <3> QED BY <1>1, <2>1, <3>2
  <2> QED BY <2>2, <2>3
<1>6. ASSUME NEW qs, Purge(qs) PROVE UNCHANGED <<token, execution>>
  BY <1>6 DEF Purge, workerVars
<1>7. CASE UNCHANGED <<workerVars, systemVars>>
  BY <1>3, <1>7 DEF workerVars
<1> QED BY <1>2, <1>3, <1>4, <1>5, <1>6, <1>7, StepKinds

(* While handlers settle within their lease, a job id is in one place at   *)
(* most - one live envelope, one dead letter, or one retry that holds its  *)
(* record - and nowhere once a handler of it succeeded: no retry, refused  *)
(* or repeated, doubles a job or revives one that is done.                 *)
THEOREM OneIncarnationPerJob ==
  ASSUME ~SlowHandlers, VisibilityMs > 0
  PROVE  Spec => []OneIncarnation
<1>1. Prompt
  BY DEF Prompt
<1>2. Init => IncarnationInv
  <2> SUFFICES ASSUME Init PROVE IncarnationInv
    OBVIOUS
  <2>1. Envelopes = {} /\ dead = {} /\ \A a \in Admins : admin[a].held = None
    BY DEF Init, Idle, Envelopes
  <2>2. \A id : Inc(id) = {}
    BY <2>1 DEF Inc, LiveAs, DeadOf, Holders, HeldBy
  <2> QED BY <2>1, <2>2 DEF IncarnationInv, IdsKnown, AtMostOne, DoneIsGone
<1>3. IInv /\ PromptInv /\ IncarnationInv /\ [Next]_vars => IncarnationInv'
  <2> SUFFICES ASSUME IInv, PromptInv, IncarnationInv, [Next]_vars PROVE IncarnationInv'
    OBVIOUS
  <2>1. ASSUME NEW id PROVE \E y : Inc(id)' \subseteq {y}
    <3>1. IncStep(id) /\ \E y : Inc(id) \subseteq {y}
      BY NextInc DEF IncarnationInv, AtMostOne
    <3> QED BY <3>1 DEF IncStep
  <2>2. AtMostOne'
    BY <2>1 DEF AtMostOne
  <2> QED BY <2>2, IdsStayKnown, DoneStaysGone DEF IncarnationInv
<1>4. IncarnationInv => OneIncarnation
  <2> SUFFICES ASSUME IncarnationInv, NEW s \in Envelopes
               PROVE  LET same == {u \in Envelopes : env[u].id = env[s].id}
                      IN  Cardinality({u \in same : Live(u)}) + Cardinality(DeadOf(env[s].id))
                            + Cardinality({a \in Admins : HeldBy(a, env[s].id)})
                            <= IF \E u \in same : Succeeded(u) THEN 0 ELSE 1
    BY DEF OneIncarnation
  <2> DEFINE id == env[s].id
             same == {u \in Envelopes : env[u].id = id}
             live == {u \in same : Live(u)}
             some == \E u \in same : Succeeded(u)
  <2>1. live = LiveAs(id)
    BY DEF LiveAs
  <2>2. {a \in Admins : HeldBy(a, id)} = Holders(id)
    BY DEF Holders
  <2>3. Cardinality({}) = 0 /\ \A x : Cardinality({x}) = 1
    BY FS_EmptySet, FS_Singleton
  <2>4. ASSUME Inc(id) = {}
        PROVE  Cardinality(LiveAs(id)) + Cardinality(DeadOf(id)) + Cardinality(Holders(id))
                 <= IF some THEN 0 ELSE 1
    <3> HIDE DEF id, some
    <3>1. LiveAs(id) = {} /\ DeadOf(id) = {} /\ Holders(id) = {}
      BY <2>4, IncEmpty
    <3>2. Cardinality(LiveAs(id)) = 0 /\ Cardinality(DeadOf(id)) = 0 /\ Cardinality(Holders(id)) = 0
      BY <2>3, <3>1
    <3> QED BY <3>2
  <2>5. ASSUME Inc(id) # {}
        PROVE  Cardinality(LiveAs(id)) + Cardinality(DeadOf(id)) + Cardinality(Holders(id))
                 <= IF some THEN 0 ELSE 1
    <3>1. ~some
      BY <2>5 DEF IncarnationInv, DoneIsGone
    <3> HIDE DEF id, some
    <3>2. (\E u : u \in LiveAs(id)) \/ (\E d : d \in DeadOf(id)) \/ (\E a : a \in Holders(id))
      BY <2>5 DEF Inc
    <3>3. CASE \E u : u \in LiveAs(id)
      <4>1. Cardinality(LiveAs(id)) = 1 /\ Cardinality(DeadOf(id)) = 0 /\ Cardinality(Holders(id)) = 0
        BY <2>3, <3>3, Alone DEF IncarnationInv
      <4> QED BY <3>1, <4>1
    <3>4. CASE \E d : d \in DeadOf(id)
      <4>1. Cardinality(LiveAs(id)) = 0 /\ Cardinality(DeadOf(id)) = 1 /\ Cardinality(Holders(id)) = 0
        BY <2>3, <3>4, Alone DEF IncarnationInv
      <4> QED BY <3>1, <4>1
    <3>5. CASE \E a : a \in Holders(id)
      <4>1. Cardinality(LiveAs(id)) = 0 /\ Cardinality(DeadOf(id)) = 0 /\ Cardinality(Holders(id)) = 1
        BY <2>3, <3>5, Alone DEF IncarnationInv
      <4> QED BY <3>1, <4>1
    <3> QED BY <3>2, <3>3, <3>4, <3>5
  <2>6. Cardinality(LiveAs(id)) + Cardinality(DeadOf(id)) + Cardinality(Holders(id))
          <= IF some THEN 0 ELSE 1
    BY <2>4, <2>5
  <2> HIDE DEF live, some
  <2>7. Cardinality(live) + Cardinality(DeadOf(id)) + Cardinality({a \in Admins : HeldBy(a, id)})
          <= IF some THEN 0 ELSE 1
    BY <2>1, <2>2, <2>6
  <2> QED BY <2>7 DEF live, some
<1> QED BY <1>1, <1>2, <1>3, <1>4, PromptInvariance, PTL DEF Spec
=============================================================================
