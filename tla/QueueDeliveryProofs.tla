------------------------ MODULE QueueDeliveryProofs ------------------------
(***************************************************************************)
(* What the queue promises about every job and every worker, whatever the  *)
(* handlers do: no job is lost, the attempts cell counts what it should, a *)
(* resolved stop() leaves at most one job behind, and the rate limiter of  *)
(* one worker keeps its quotas.  Each invariant is proved relative to IInv *)
(* of QueueProofs.                                                         *)
(***************************************************************************)
EXTENDS QueueProofs, WellFoundedInduction

----------------------------------------------------------------------------
(***************************************************************************)
(* The life of an execution.  Its phases follow one another as below, and  *)
(* it keeps its worker and its job.                                        *)
(***************************************************************************)
PhaseSteps ==
  {<<"reserved", "admitting">>,
   <<"admitting", "underQuota">>, <<"admitting", "overQuota">>,
   <<"admitting", "running">>, <<"admitting", "deadLettering">>,
   <<"underQuota", "admitted">>, <<"overQuota", "deferring">>,
   <<"admitted", "running">>, <<"admitted", "deadLettering">>,
   <<"running", "acking">>, <<"running", "nacking">>,
   <<"running", "deadLettering">>,
   <<"acking", "completed">>, <<"nacking", "retried">>,
   <<"deferring", "deferred">>, <<"deadLettering", "failed">>}

Lives(t) ==
  /\ t \in Tokens'
  /\ execution'[t].env = execution[t].env
  /\ execution'[t].worker = execution[t].worker
  /\ \/ execution'[t].phase = execution[t].phase
     \/ <<execution[t].phase, execution'[t].phase>> \in PhaseSteps

LEMMA StepLives ==
  ASSUME IInv, NEW t \in Tokens, UNCHANGED systemVars, Proceed(t) \/ HandlerStep(t)
  PROVE  \A u \in Tokens : Lives(u)
<1>t. /\ execution \in [Tokens -> Execution(Envelopes)]
      /\ execution[t] \in Execution(Envelopes)
  BY DEF IInv, TypeOK, WorkerTypeOK
<1>1. UNCHANGED token /\ \A u \in Tokens \ {t} : execution'[u] = execution[u]
  BY <1>t DEF Proceed, HandlerStep, HandlerReturns, RateCount, RateHit, RateDefer, StartHandler,
         NoHandler, Finish, HandlerSucceeds, HandlerFails, HandlerTimesOut, LateReturn,
         handleFailure, To
<1>2. Tokens' = Tokens
  BY <1>1 DEF Tokens
<1>3. /\ execution'[t].env = execution[t].env
      /\ execution'[t].worker = execution[t].worker
      /\ \/ execution'[t].phase = execution[t].phase
         \/ <<execution[t].phase, execution'[t].phase>> \in PhaseSteps
  <2> USE <1>t DEF Execution, PhaseSteps, To
  <2>1. CASE RateCount(t)
    BY <2>1 DEF RateCount
  <2>2. CASE RateHit(t) \/ RateDefer(t)
    BY <2>2 DEF RateHit, RateDefer
  <2>3. CASE StartHandler(t) \/ NoHandler(t)
    BY <2>3 DEF StartHandler, NoHandler, Admitted
  <2>4. CASE Finish(t)
    BY <2>4 DEF Finish, Finished, CallPhase
  <2>5. CASE HandlerSucceeds(t) \/ LateReturn(t)
    BY <2>5 DEF HandlerSucceeds, LateReturn
  <2>6. CASE HandlerFails(t) \/ HandlerTimesOut(t)
    BY <2>6 DEF HandlerFails, HandlerTimesOut, handleFailure
  <2> QED BY <2>1, <2>2, <2>3, <2>4, <2>5, <2>6 DEF Proceed, HandlerStep, HandlerReturns
<1> QED BY <1>1, <1>2, <1>3 DEF Lives

(* What one turn of pump's loop does to the executions: those there were   *)
(* stay, but for the awaited one, which is admitted by PumpJob.            *)
LEMMA PumpLives ==
  ASSUME IInv, NEW w \in Workers, PumpReady(w) \/ PumpPass(w) \/ PumpJob(w)
  PROVE  \A u \in Tokens : Lives(u)
<1>t. /\ execution \in [Tokens -> Execution(Envelopes)] /\ token \in Nat
      /\ pending \in [Workers -> Tokens \cup {None}]
  BY DEF IInv, TypeOK, WorkerTypeOK
<1>1. PICK exs, n :
        /\ PumpLoop(w, n, exs)
        /\ \A u \in Tokens :
             /\ exs[u].env = execution[u].env /\ exs[u].worker = execution[u].worker
             /\ \/ exs[u].phase = execution[u].phase
                \/ <<execution[u].phase, exs[u].phase>> \in PhaseSteps
  <2>1. CASE PumpReady(w) \/ PumpPass(w)
    BY <2>1 DEF PumpReady, PumpPass
  <2>2. CASE PumpJob(w)
    <3>1. pending[w] \in Tokens /\ execution[pending[w]].phase = "reserved"
      BY <2>2, <1>t DEF PumpJob, IInv, WorkerInv, Awaited
    <3>2. \A u \in Tokens :
             /\ To(pending[w], "admitting")[u].env = execution[u].env
             /\ To(pending[w], "admitting")[u].worker = execution[u].worker
             /\ \/ To(pending[w], "admitting")[u].phase = execution[u].phase
                \/ <<execution[u].phase, To(pending[w], "admitting")[u].phase>> \in PhaseSteps
      BY <3>1, <1>t DEF To, PhaseSteps, Execution
    <3> QED BY <2>2, <3>2 DEF PumpJob
  <2> QED BY <2>1, <2>2
<1>2. \A u \in Tokens : u \in Tokens' /\ execution'[u] = exs[u]
  <2>1. CASE token' = token + 1 /\ \A u \in Tokens : execution'[u] = exs[u]
    BY <1>t, <2>1 DEF Tokens
  <2>2. CASE UNCHANGED token /\ execution' = exs
    BY <2>2 DEF Tokens
  <2> QED BY <1>1, <1>t, <2>1, <2>2 DEF PumpLoop, Tokens
<1> QED BY <1>1, <1>2 DEF Lives

LEMMA ExecutionsLive == IInv /\ [Next]_vars => \A t \in Tokens : Lives(t)
<1> SUFFICES ASSUME IInv, [Next]_vars PROVE \A t \in Tokens : Lives(t)
  OBVIOUS
<1>1. CASE UNCHANGED <<token, execution>>
  BY <1>1 DEF Lives, Tokens
<1>2. ASSUME NEW w \in Workers, Pump(w) \/ Start(w) \/ Stop(w)
      PROVE  \A t \in Tokens : Lives(t)
  <2>1. CASE PumpGate(w) \/ PumpNull(w) \/ Start(w) \/ Stop(w)
    BY <1>1, <2>1 DEF PumpGate, PumpNull, Start, Stop
  <2> QED BY <1>2, <2>1, PumpLives DEF Pump
<1>3. ASSUME NEW t \in Tokens, UNCHANGED systemVars, Proceed(t) \/ HandlerStep(t)
      PROVE  \A u \in Tokens : Lives(u)
  BY <1>3, StepLives
<1> QED
  BY <1>1, <1>2, <1>3
     DEF Next, Tick, PromotionTick, Close, CloseDrained, Dispatch, DeadLetterApi, Flush, Purge,
         workerVars, vars

(* Envelope objects are immutable but for the attempts cell.               *)
LEMMA EnvelopesGrow ==
  IInv /\ [Next]_vars => \A s \in Envelopes : s \in Envelopes' /\ env'[s] = env[s]
<1> SUFFICES ASSUME IInv, [Next]_vars
             PROVE  \A s \in Envelopes : s \in Envelopes' /\ env'[s] = env[s]
  OBVIOUS
<1>1. seq \in Nat
  BY DEF IInv, TypeOK, FacadeTypeOK
<1>2. ASSUME NEW e, AddEnvelope(e)
      PROVE  \A s \in Envelopes : s \in Envelopes' /\ env'[s] = env[s]
  BY <1>1, <1>2 DEF AddEnvelope, Envelopes
<1>3. CASE UNCHANGED <<seq, env>>
  BY <1>3 DEF Envelopes
<1>4. CASE DeadLetterApi
  BY <1>2, <1>3, <1>4 DEF DeadLetterApi, DeadLetterRetry, DeadLetterRetryAll, RetryAllTake,
                          RetryEnqueue
<1>5. ASSUME NEW o \in JobOptions, Dispatch(o)
      PROVE  \A s \in Envelopes : s \in Envelopes' /\ env'[s] = env[s]
  BY <1>2, <1>5 DEF Dispatch
<1>6. ASSUME NEW w \in Workers, Pump(w) \/ Start(w) \/ Stop(w)
      PROVE  UNCHANGED <<seq, env>>
  BY <1>6 DEF Pump, PumpGate, PumpReady, PumpPass, PumpJob, PumpNull, Start, Stop, facadeVars
<1>7. ASSUME NEW t \in Tokens, Proceed(t) \/ HandlerStep(t)
      PROVE  UNCHANGED <<seq, env>>
  BY <1>7 DEF Proceed, HandlerStep, HandlerReturns, RateCount, RateHit, RateDefer, StartHandler,
              NoHandler, Finish, HandlerSucceeds, HandlerFails, HandlerTimesOut, LateReturn,
              handleFailure, facadeVars
<1>8. ASSUME NEW qs, Flush(qs) \/ Purge(qs) PROVE UNCHANGED <<seq, env>>
  BY <1>8 DEF Flush, Purge, DeadLetterFlush, facadeVars
<1>9. CASE Tick \/ PromotionTick \/ Close \/ CloseDrained \/ UNCHANGED vars
  BY <1>3, <1>9 DEF Tick, PromotionTick, Close, CloseDrained, vars, facadeVars
<1> QED BY <1>3, <1>4, <1>5, <1>6, <1>7, <1>8, <1>9 DEF Next

----------------------------------------------------------------------------
(***************************************************************************)
(* No job is lost.  NoJobLost says of every envelope that its id is still  *)
(* accounted for; what a step has to show is that an id accounted for      *)
(* stays so, whichever of the four ways it is.                             *)
(***************************************************************************)
Kept(id) ==
  \/ id \in discarded
  \/ \E u \in Envelopes : env[u].id = id /\ (Live(u) \/ Succeeded(u))
  \/ DeadOf(id) # {}
  \/ \E a \in Admins : HeldBy(a, id)

LEMMA SuccessStays ==
  ASSUME IInv, [Next]_vars, NEW u \in Envelopes, Succeeded(u)
  PROVE  Succeeded(u)'
<1>1. PICK t \in Tokens : /\ execution[t].env = u
                          /\ execution[t].phase \in {"acking", "completed"}
  BY DEF Succeeded, Ran
<1>2. Lives(t)
  BY ExecutionsLive
<1>3. execution'[t].phase \in {"acking", "completed"}
  BY <1>1, <1>2 DEF Lives, PhaseSteps
<1> QED BY <1>1, <1>2, <1>3 DEF Succeeded, Ran, Lives

(* pump moves jobs between ready and the lease table, and drops none.      *)
LEMMA PumpKeepsLive ==
  ASSUME IInv, NEW w \in Workers, NEW n, NEW exs, PumpLoop(w, n, exs),
         NEW u \in Envelopes, Live(u)
  PROVE  Live(u)'
<1>1. /\ reclaimExpiredLeases.ready = ready \cup {r.env : r \in Expired}
      /\ reclaimExpiredLeases.reserved = reserved \ Expired
      /\ Expired \subseteq reserved
  BY DEF reclaimExpiredLeases, Expired
<1>2. ASSUME NEW s \in Envelopes, reserveJob(WorkerQueues[w], VisibilityMs, token + 1, s)
      PROVE  Live(u)'
  <2>1. PICK new : new = [token |-> token + 1, env |-> s, leaseExpiresAt |-> now + VisibilityMs]
    OBVIOUS
  <2>2. /\ new.env = s /\ new \in reserved'
        /\ reserved \ Expired \subseteq reserved'
        /\ ready' = (ready \cup {r.env : r \in Expired}) \ {s}
        /\ delayed' = delayed
    BY <1>1, <1>2, <2>1 DEF reserveJob
  <2> QED BY <2>2 DEF Live, Leased, Queued
<1>3. CASE reserveNull(WorkerQueues[w])
  BY <1>1, <1>3 DEF reserveNull, Live, Leased, Queued
<1>4. CASE UNCHANGED driverVars
  BY <1>4 DEF driverVars, Live, Leased, Queued
<1> QED BY <1>2, <1>3, <1>4 DEF PumpLoop

(* The driver calls of a worker: a job that was leased under t is acked by *)
(* a successful handler, goes back to the delayed heap or is dead-lettered. *)
LEMMA CallKeepsJob ==
  ASSUME IInv, NEW t \in Tokens, UNCHANGED systemVars,
         \/ RateDefer(t) \/ NoHandler(t) \/ HandlerSucceeds(t)
         \/ HandlerFails(t) \/ HandlerTimesOut(t),
         NEW u \in Envelopes, Live(u)
  PROVE  \/ Live(u)' \/ Succeeded(u)'
         \/ \E d \in dead' : d.env = u
<1>0. Releases(t)
  BY DriverCallReleases
<1>t. /\ execution \in [Tokens -> Execution(Envelopes)]
      /\ execution[t] \in Execution(Envelopes) /\ Tokens' = Tokens
  BY <1>0 DEF IInv, TypeOK, WorkerTypeOK, Releases, Tokens
<1>1. CASE ~Leased(u) \/ u # execution[t].env
  <2>1. \A r \in reserved : r.env = u => r.token # t
    BY <1>1 DEF Leased, IInv, LeaseAgrees
  <2>2. \A r \in reserved : r.env = u => r \in reserved'
    BY <1>0, <2>1 DEF Releases, WithoutToken
  <2>3. ready' = ready /\ delayed \subseteq delayed'
    BY <1>0 DEF Releases
  <2> QED BY <2>2, <2>3 DEF Live, Leased, Queued
<1>2. CASE Leased(u) /\ u = execution[t].env
  <2>1. PICK r \in reserved : r.env = u
    BY <1>2 DEF Leased
  <2>2. CASE r.token # t
    <3>1. r \in reserved'
      BY <1>0, <2>2 DEF Releases, WithoutToken
    <3> QED BY <2>1, <3>1 DEF Live, Leased
  <2>3. CASE r.token = t
    <3>1. Holds(t)
      BY <2>3 DEF Holds
    <3>2. ASSUME NEW n, nack(t, u, n) PROVE Live(u)'
      <4>1. PICK e : e = [env |-> u, runAt |-> n]
        OBVIOUS
      <4>2. e \in delayed' /\ e.env = u
        BY <3>1, <3>2, <4>1 DEF nack
      <4> QED BY <4>2 DEF Live, Queued
    <3>3. ASSUME moveToDeadLetter(t, u) PROVE \E d \in dead' : d.env = u
      <4>1. PICK e : e = [token |-> t, env |-> u, attempts |-> attempts[u]]
        OBVIOUS
      <4>2. e \in dead' /\ e.env = u
        BY <3>3, <4>1 DEF moveToDeadLetter
      <4> QED BY <4>2
    <3>4. CASE RateDefer(t)
      BY <1>2, <3>2, <3>4 DEF RateDefer
    <3>5. CASE NoHandler(t)
      BY <1>2, <3>3, <3>5 DEF NoHandler
    <3>6. CASE HandlerSucceeds(t)
      <4>1. execution'[t].env = u /\ execution'[t].phase = "acking"
        BY <1>t, <1>2, <3>6 DEF HandlerSucceeds, Execution
      <4> QED BY <1>t, <4>1 DEF Succeeded, Ran
    <3>7. CASE HandlerFails(t) \/ HandlerTimesOut(t)
      <4>1. \E alive : handleFailure(t, alive)
        BY <3>7 DEF HandlerFails, HandlerTimesOut
      <4> QED BY <1>2, <3>2, <3>3, <4>1 DEF handleFailure
    <3> QED BY <3>4, <3>5, <3>6, <3>7
  <2> QED BY <2>2, <2>3
<1> QED BY <1>1, <1>2

(* A live job stays live, succeeds, becomes a dead letter or is purged.    *)
LEMMA LiveFate ==
  ASSUME IInv, [Next]_vars, NEW u \in Envelopes, Live(u)
  PROVE  \/ Live(u)' \/ Succeeded(u)'
         \/ \E d \in dead' : d.env = u
         \/ env[u].id \in discarded'
<1> DEFINE Goal == \/ Live(u)' \/ Succeeded(u)'
                   \/ \E d \in dead' : d.env = u
                   \/ env[u].id \in discarded'
<1>1. ASSUME ready \subseteq ready', delayed \subseteq delayed', reserved \subseteq reserved'
      PROVE  Live(u)'
  BY <1>1 DEF Live, Leased, Queued
<1>2. CASE Tick \/ Close \/ CloseDrained \/ UNCHANGED vars
  BY <1>1, <1>2 DEF Tick, Close, CloseDrained, vars, driverVars
<1>3. CASE PromotionTick
  BY <1>3 DEF PromotionTick, promoteDue, Live, Leased, Queued
<1>4. ASSUME NEW o \in JobOptions, Dispatch(o), UNCHANGED <<workerVars, systemVars>>
      PROVE  Goal
  <2>1. \E e \in Envelope : Adds(e)
    BY <1>4, DispatchAdds
  <2> QED BY <1>1, <2>1 DEF Adds
<1>5. CASE DeadLetterApi
  BY <1>1, <1>5 DEF DeadLetterApi, DeadLetterRetry, DeadLetterRetryAll, RetryAllTake,
                    RetryEnqueue, removeDeadLetter, driverVars, enqueue
<1>6. ASSUME NEW qs, Flush(qs) PROVE Goal
  BY <1>1, <1>6 DEF Flush, DeadLetterFlush, flushDeadLetters
<1>7. ASSUME NEW qs, Purge(qs) PROVE Goal
  <2>1. CASE u \in ready
    BY <1>7, <2>1 DEF Purge, purge, Live, Queued
  <2>2. CASE \E d \in delayed : d.env = u
    BY <1>7, <2>2 DEF Purge, purge, Live, Queued
  <2>3. CASE Leased(u)
    BY <1>7, <2>3 DEF Purge, purge, Live, Leased
  <2> QED BY <2>1, <2>2, <2>3 DEF Live, Queued
<1>8. ASSUME NEW w \in Workers, Pump(w) \/ Start(w) \/ Stop(w) PROVE Goal
  <2>1. CASE PumpGate(w) \/ PumpNull(w) \/ Start(w) \/ Stop(w)
    BY <1>1, <2>1 DEF PumpGate, PumpNull, Start, Stop, driverVars
  <2>2. CASE PumpReady(w) \/ PumpPass(w) \/ PumpJob(w)
    <3>1. \E n, exs : PumpLoop(w, n, exs)
      BY <2>2 DEF PumpReady, PumpPass, PumpJob
    <3> QED BY <3>1, PumpKeepsLive
  <2> QED BY <1>8, <2>1, <2>2 DEF Pump
<1>9. ASSUME NEW t \in Tokens, UNCHANGED systemVars, Proceed(t) \/ HandlerStep(t)
      PROVE  Goal
  <2>1. CASE RateCount(t) \/ RateHit(t) \/ StartHandler(t) \/ LateReturn(t) \/ Finish(t)
    BY <1>1, <2>1 DEF RateCount, RateHit, StartHandler, LateReturn, Finish, driverVars
  <2>2. CASE \/ RateDefer(t) \/ NoHandler(t) \/ HandlerSucceeds(t)
             \/ HandlerFails(t) \/ HandlerTimesOut(t)
    BY <1>9, <2>2, CallKeepsJob
  <2> QED BY <1>9, <2>1, <2>2 DEF Proceed, HandlerStep, HandlerReturns
<1> HIDE DEF Goal
<1>a. Goal
  BY <1>2, <1>3, <1>4, <1>5, <1>6, <1>7, <1>8, <1>9 DEF Next, Goal
<1> QED BY <1>a DEF Goal

(* A dead letter stays, is taken by a retry, or is flushed.                *)
LEMMA DeadFate ==
  ASSUME IInv, [Next]_vars, NEW d \in dead
  PROVE  \/ d \in dead'
         \/ \E a \in Admins : admin'[a].held = d
         \/ env[d.env].id \in discarded'
<1> DEFINE Goal == \/ d \in dead'
                   \/ \E a \in Admins : admin'[a].held = d
                   \/ env[d.env].id \in discarded'
<1>t. admin \in [Admins -> AdminState(Envelopes, Tokens)]
  BY DEF IInv, TypeOK, FacadeTypeOK
<1>1. CASE \/ Tick \/ PromotionTick \/ Close \/ CloseDrained \/ UNCHANGED vars
           \/ \E qs : Purge(qs)
  BY <1>1 DEF Tick, PromotionTick, promoteDue, Close, CloseDrained, vars, driverVars, Purge, purge
<1>2. ASSUME NEW o \in JobOptions, Dispatch(o), UNCHANGED <<workerVars, systemVars>>
      PROVE  Goal
  <2>1. \E e \in Envelope : Adds(e)
    BY <1>2, DispatchAdds
  <2> QED BY <2>1 DEF Adds
<1>3. CASE DeadLetterApi
  <2>1. PICK a \in Admins :
          \/ \E x \in dead : DeadLetterRetry(a, x)
          \/ \E qs : DeadLetterRetryAll(a, qs)
          \/ \E r \in admin[a].todo : RetryAllTake(a, r)
          \/ RetryEnqueue(a)
    BY <1>3 DEF DeadLetterApi
  <2>2. CASE \E qs : DeadLetterRetryAll(a, qs) \/ RetryEnqueue(a)
    BY <2>2 DEF DeadLetterRetryAll, RetryEnqueue, enqueue, driverVars
  <2>3. ASSUME NEW x \in dead, removeDeadLetter(x), admin'[a].held = x PROVE Goal
    BY <2>3 DEF removeDeadLetter
  <2>4. CASE \E x \in dead : DeadLetterRetry(a, x)
    <3>1. PICK x \in dead : DeadLetterRetry(a, x)
      BY <2>4
    <3>2. admin'[a].held = x
      BY <3>1, <1>t DEF DeadLetterRetry, AdminState
    <3> QED BY <2>3, <3>1, <3>2 DEF DeadLetterRetry
  <2>5. CASE \E r \in admin[a].todo : RetryAllTake(a, r)
    <3>1. PICK r \in admin[a].todo : RetryAllTake(a, r)
      BY <2>5
    <3>2. CASE UNCHANGED driverVars
      BY <3>2 DEF driverVars
    <3>3. CASE \E x \in DeadOf(env[r.env].id) :
                /\ removeDeadLetter(x)
                /\ admin' = [admin EXCEPT ![a] = [todo |-> @.todo \ {r}, held |-> x]]
      <4>1. PICK x \in dead :
                /\ removeDeadLetter(x)
                /\ admin' = [admin EXCEPT ![a] = [todo |-> @.todo \ {r}, held |-> x]]
        BY <3>3 DEF DeadOf
      <4>2. admin'[a].held = x
        BY <4>1, <1>t
      <4> QED BY <2>3, <4>1, <4>2
    <3> QED BY <3>1, <3>2, <3>3 DEF RetryAllTake
  <2> QED BY <2>1, <2>2, <2>4, <2>5
<1>4. ASSUME NEW qs, Flush(qs) PROVE Goal
  BY <1>4 DEF Flush
<1>5. ASSUME NEW w \in Workers, Pump(w) \/ Start(w) \/ Stop(w) PROVE Goal
  BY <1>5 DEF Pump, PumpGate, PumpReady, PumpPass, PumpJob, PumpNull, Start, Stop, PumpLoop,
              reserveJob, reserveNull, driverVars
<1>6. ASSUME NEW t \in Tokens, UNCHANGED systemVars, Proceed(t) \/ HandlerStep(t)
      PROVE  Goal
  <2>1. CASE RateCount(t) \/ RateHit(t) \/ StartHandler(t) \/ LateReturn(t) \/ Finish(t)
    BY <2>1 DEF RateCount, RateHit, StartHandler, LateReturn, Finish, driverVars
  <2>2. CASE \/ RateDefer(t) \/ NoHandler(t) \/ HandlerSucceeds(t)
             \/ HandlerFails(t) \/ HandlerTimesOut(t)
    <3>1. Releases(t)
      BY <1>6, <2>2, DriverCallReleases
    <3> QED BY <3>1 DEF Releases
  <2> QED BY <1>6, <2>1, <2>2 DEF Proceed, HandlerStep, HandlerReturns
<1> HIDE DEF Goal
<1>a. Goal
  BY <1>1, <1>2, <1>3, <1>4, <1>5, <1>6 DEF Next, Goal
<1> QED BY <1>a DEF Goal

(* What a retry holds it goes on holding until it has enqueued it again.   *)
LEMMA HeldFate ==
  ASSUME IInv, [Next]_vars, NEW a \in Admins, admin[a].held # None
  PROVE  \/ admin'[a].held = admin[a].held
         \/ \E u \in Envelopes' : /\ env'[u].id = env[admin[a].held.env].id
                                  /\ Live(u)'
<1> DEFINE Goal == \/ admin'[a].held = admin[a].held
                   \/ \E u \in Envelopes' : /\ env'[u].id = env[admin[a].held.env].id
                                            /\ Live(u)'
<1>t. admin \in [Admins -> AdminState(Envelopes, Tokens)] /\ seq \in Nat
  BY DEF IInv, TypeOK, FacadeTypeOK
<1>1. CASE UNCHANGED admin
  BY <1>1
<1>2. CASE \/ Tick \/ PromotionTick \/ Close \/ CloseDrained \/ UNCHANGED vars
           \/ \E qs : Flush(qs) \/ Purge(qs)
           \/ \E o \in JobOptions : Dispatch(o)
  BY <1>1, <1>2 DEF Tick, PromotionTick, Close, CloseDrained, vars, facadeVars, Flush,
                    DeadLetterFlush, Purge, Dispatch
<1>3. CASE DeadLetterApi
  <2>1. PICK b \in Admins :
          \/ \E x \in dead : DeadLetterRetry(b, x)
          \/ \E qs : DeadLetterRetryAll(b, qs)
          \/ \E r \in admin[b].todo : RetryAllTake(b, r)
          \/ RetryEnqueue(b)
    BY <1>3 DEF DeadLetterApi
  <2>2. CASE a # b
    BY <1>t, <2>1, <2>2 DEF DeadLetterRetry, DeadLetterRetryAll, RetryAllTake, RetryEnqueue
  <2>3. CASE a = b /\ ~RetryEnqueue(b)
    BY <1>t, <2>1, <2>3 DEF DeadLetterRetry, DeadLetterRetryAll, RetryAllTake, Idle
  <2>4. CASE a = b /\ RetryEnqueue(b)
    <3>1. env'[seq] = rebuildEnvelope(admin[a].held) /\ seq \in Envelopes' /\ seq \in ready'
      BY <1>t, <2>4 DEF RetryEnqueue, AddEnvelope, enqueue, Envelopes
    <3>2. env'[seq].id = env[admin[a].held.env].id
      BY <3>1 DEF rebuildEnvelope
    <3>3. PICK u : u = seq
      OBVIOUS
    <3>4. Live(u)'
      BY <3>1, <3>3 DEF Live, Queued
    <3> QED BY <3>1, <3>2, <3>3, <3>4
  <2> QED BY <2>2, <2>3, <2>4
<1>4. ASSUME NEW w \in Workers, Pump(w) \/ Start(w) \/ Stop(w) PROVE Goal
  BY <1>1, <1>4 DEF Pump, PumpGate, PumpReady, PumpPass, PumpJob, PumpNull, Start, Stop,
              facadeVars
<1>5. ASSUME NEW t \in Tokens, UNCHANGED systemVars, Proceed(t) \/ HandlerStep(t)
      PROVE  Goal
  BY <1>1, <1>5 DEF Proceed, HandlerStep, HandlerReturns, RateCount, RateHit, RateDefer,
              StartHandler, NoHandler, Finish, HandlerSucceeds, HandlerFails, HandlerTimesOut,
              LateReturn, handleFailure, facadeVars
<1> HIDE DEF Goal
<1>a. Goal
  BY <1>2, <1>3, <1>4, <1>5 DEF Next, Goal
<1> QED BY <1>a DEF Goal

LEMMA DiscardedGrows ==
  ASSUME [Next]_vars
  PROVE  discarded \subseteq discarded'
BY DEF Next, vars, Tick, PromotionTick, Close, CloseDrained, DeadLetterApi, Flush, Purge, systemVars

LEMMA KeptStays ==
  ASSUME IInv, [Next]_vars, NEW id, Kept(id)
  PROVE  Kept(id)'
<1>g. \A s \in Envelopes : s \in Envelopes' /\ env'[s] = env[s]
  BY EnvelopesGrow
<1>t. /\ \A d \in dead : d.env \in Envelopes
      /\ \A a \in Admins : admin[a].held # None => admin[a].held.env \in Envelopes
  <2>1. /\ dead \subseteq DeadLetterRecord(Envelopes, Tokens)
        /\ admin \in [Admins -> AdminState(Envelopes, Tokens)]
    BY DEF IInv, TypeOK, DriverTypeOK, FacadeTypeOK
  <2> QED BY <2>1 DEF AdminState, DeadLetterRecord
<1>n. \A d \in dead : d # None
  <2>1. dead \subseteq DeadLetterRecord(Envelopes, Tokens) /\ seq \in Nat /\ token \in Nat
    BY DEF IInv, TypeOK, DriverTypeOK, FacadeTypeOK, WorkerTypeOK
  <2>2. DeadLetterRecord(Envelopes, Tokens) \subseteq [token: Nat, env: Nat, attempts: Int]
    BY <2>1 DEF DeadLetterRecord, Envelopes, Tokens
  <2> QED BY <2>1, <2>2, NoneAssumption
<1>1. CASE id \in discarded
  <2>1. discarded \subseteq discarded'
    BY DiscardedGrows
  <2> QED BY <1>1, <2>1 DEF Kept
<1>2. ASSUME NEW d \in dead, d \in dead', env[d.env].id = id PROVE Kept(id)'
  BY <1>2, <1>g, <1>t DEF Kept, DeadOf
<1>3. ASSUME NEW u \in Envelopes, env[u].id = id, Live(u) PROVE Kept(id)'
  <2>1. \/ Live(u)' \/ Succeeded(u)'
        \/ \E d \in dead' : d.env = u
        \/ env[u].id \in discarded'
    BY <1>3, LiveFate
  <2>2. CASE Live(u)' \/ Succeeded(u)'
    BY <1>3, <1>g, <2>2 DEF Kept
  <2>3. CASE \E d \in dead' : d.env = u
    BY <1>3, <1>g, <2>3 DEF Kept, DeadOf
  <2> QED BY <1>3, <2>1, <2>2, <2>3 DEF Kept
<1>4. ASSUME NEW u \in Envelopes, env[u].id = id, Succeeded(u) PROVE Kept(id)'
  <2>1. Succeeded(u)'
    BY <1>4, SuccessStays
  <2> QED BY <1>4, <1>g, <2>1 DEF Kept
<1>5. ASSUME NEW d \in dead, env[d.env].id = id PROVE Kept(id)'
  <2>1. \/ d \in dead'
        \/ \E a \in Admins : admin'[a].held = d
        \/ env[d.env].id \in discarded'
    BY DeadFate
  <2>2. CASE \E a \in Admins : admin'[a].held = d
    BY <1>5, <1>g, <1>t, <1>n, <2>2 DEF Kept, HeldBy
  <2> QED BY <1>2, <1>5, <2>1, <2>2 DEF Kept
<1>6. ASSUME NEW a \in Admins, HeldBy(a, id) PROVE Kept(id)'
  <2>1. /\ admin[a].held # None /\ env[admin[a].held.env].id = id
        /\ admin[a].held.env \in Envelopes
    BY <1>6, <1>t DEF HeldBy
  <2>2. \/ admin'[a].held = admin[a].held
        \/ \E u \in Envelopes' : /\ env'[u].id = env[admin[a].held.env].id
                                 /\ Live(u)'
    BY <2>1, HeldFate
  <2>3. CASE admin'[a].held = admin[a].held
    BY <1>g, <2>1, <2>3 DEF Kept, HeldBy
  <2>4. CASE \E u \in Envelopes' : env'[u].id = id /\ Live(u)'
    BY <2>4 DEF Kept
  <2> QED BY <2>1, <2>2, <2>3, <2>4
<1> QED BY <1>1, <1>3, <1>4, <1>5, <1>6 DEF Kept, DeadOf

(* An envelope that was not there before is the one a dispatch or a retry  *)
(* has just enqueued.                                                      *)
LEMMA NewEnvelopeLives ==
  ASSUME IInv, [Next]_vars, NEW s \in Envelopes', s \notin Envelopes
  PROVE  Live(s)'
<1>t. seq \in Nat
  BY DEF IInv, TypeOK, FacadeTypeOK
<1>1. ASSUME NEW e, Adds(e) PROVE Live(s)'
  <2>1. s = seq
    BY <1>t, <1>1 DEF Adds, AddEnvelope, Envelopes
  <2>2. CASE seq \in ready'
    BY <2>1, <2>2 DEF Live, Queued
  <2>3. CASE \E n \in Nat : delayed' = delayed \cup {[env |-> seq, runAt |-> n]}
    <3>1. PICK n \in Nat : [env |-> seq, runAt |-> n] \in delayed'
      BY <2>3
    <3>2. [env |-> seq, runAt |-> n].env = seq
      OBVIOUS
    <3>3. \E d \in delayed' : d.env = s
      BY <2>1, <3>1, <3>2
    <3> QED BY <3>3 DEF Live, Queued
  <2> QED BY <1>1, <2>2, <2>3 DEF Adds
<1>2. CASE UNCHANGED seq
  BY <1>2 DEF Envelopes
<1>3. ASSUME NEW o \in JobOptions, Dispatch(o), UNCHANGED <<workerVars, systemVars>>
      PROVE  Live(s)'
  BY <1>1, <1>3, DispatchAdds
<1>4. CASE DeadLetterApi
  <2>1. UNCHANGED <<workerVars, systemVars>>
    BY <1>4 DEF DeadLetterApi
  <2>2. ASSUME NEW a \in Admins, RetryEnqueue(a) PROVE Live(s)'
    BY <1>1, <2>1, <2>2, RetryEnqueueAdds
  <2>3. CASE UNCHANGED seq
    BY <1>2, <2>3
  <2> QED BY <1>4, <2>2, <2>3 DEF DeadLetterApi, DeadLetterRetry, DeadLetterRetryAll, RetryAllTake
<1>5. ASSUME NEW w \in Workers, Pump(w) \/ Start(w) \/ Stop(w) PROVE UNCHANGED seq
  BY <1>5 DEF Pump, PumpGate, PumpReady, PumpPass, PumpJob, PumpNull, Start, Stop, facadeVars
<1>6. ASSUME NEW t \in Tokens, Proceed(t) \/ HandlerStep(t) PROVE UNCHANGED seq
  BY <1>6 DEF Proceed, HandlerStep, HandlerReturns, RateCount, RateHit, RateDefer, StartHandler,
              NoHandler, Finish, HandlerSucceeds, HandlerFails, HandlerTimesOut, LateReturn,
              handleFailure, facadeVars
<1>7. ASSUME NEW qs, Flush(qs) \/ Purge(qs) PROVE UNCHANGED seq
  BY <1>7 DEF Flush, Purge, DeadLetterFlush, facadeVars
<1>8. CASE Tick \/ PromotionTick \/ Close \/ CloseDrained \/ UNCHANGED vars
  BY <1>2, <1>8 DEF Tick, PromotionTick, Close, CloseDrained, vars, facadeVars
<1> QED BY <1>2, <1>3, <1>4, <1>5, <1>6, <1>7, <1>8 DEF Next

(* At-least-once delivery: through retries, expired leases, rate deferrals, *)
(* late calls, dead-letter retries and close(), a dispatched job is always *)
(* queued, leased, done, a dead letter or in the hands of a retry, unless  *)
(* an operator purged or flushed it.                                       *)
THEOREM NothingLost == Spec => []NoJobLost
<1>1. Init => NoJobLost
  BY DEF Init, NoJobLost, Envelopes
<1>2. IInv /\ NoJobLost /\ [Next]_vars => NoJobLost'
  <2> SUFFICES ASSUME IInv, NoJobLost, [Next]_vars, NEW s \in Envelopes'
               PROVE  \E id : id = env'[s].id /\ Kept(id)'
    BY DEF NoJobLost, Kept
  <2>1. CASE s \in Envelopes
    <3>1. PICK id : id = env[s].id
      OBVIOUS
    <3>2. Kept(id)
      BY <2>1, <3>1 DEF NoJobLost, Kept
    <3>3. env'[s] = env[s]
      BY <2>1, EnvelopesGrow
    <3> QED BY <3>1, <3>2, <3>3, KeptStays
  <2>2. CASE s \notin Envelopes
    <3>1. PICK id : id = env'[s].id
      OBVIOUS
    <3>2. Live(s)'
      BY <2>2, NewEnvelopeLives
    <3>3. Kept(id)'
      BY <3>1, <3>2 DEF Kept
    <3> QED BY <3>1, <3>3
  <2> QED BY <2>1, <2>2
<1> QED BY <1>1, <1>2, Invariance, PTL DEF Spec

----------------------------------------------------------------------------
(***************************************************************************)
(* The attempts cell.  Every holder of an envelope shares it, so what it   *)
(* counts is the size of a set: the reservations of the envelope that were *)
(* not deferred.                                                           *)
(***************************************************************************)
Charged(s) == {t \in Tokens : /\ execution[t].env = s
                              /\ execution[t].phase \notin {"deferring", "deferred"}}

LEMMA ChargedFinite ==
  ASSUME IInv, NEW s
  PROVE  IsFiniteSet(Charged(s))
<1>1. token \in Nat
  BY DEF IInv, TypeOK, WorkerTypeOK
<1>2. IsFiniteSet(1..token)
  BY <1>1, FS_Interval
<1> QED BY <1>2, FS_Subset DEF Charged, Tokens

(* Steps after which the same reservations are charged as before.          *)
LEMMA SameCharge ==
  ASSUME RetryBudget, UNCHANGED <<seq, attempts>>, Tokens' = Tokens,
         \A t \in Tokens :
           /\ execution'[t].env = execution[t].env
           /\ execution'[t].phase \in {"deferring", "deferred"} <=>
                execution[t].phase \in {"deferring", "deferred"}
  PROVE  RetryBudget'
<1>1. \A s : Charged(s)' = Charged(s)
  BY DEF Charged
<1>2. Envelopes' = Envelopes
  BY DEF Envelopes
<1> QED BY <1>1, <1>2 DEF RetryBudget, Charged

LEMMA ReservationCharges ==
  ASSUME IInv, RetryBudget, NEW s \in Envelopes, NEW w, NEW exs,
         attempts' = [attempts EXCEPT ![s] = @ + 1],
         token' = token + 1, UNCHANGED seq,
         \A t \in Tokens :
           /\ exs[t].env = execution[t].env
           /\ exs[t].phase \in {"deferring", "deferred"} <=>
                execution[t].phase \in {"deferring", "deferred"},
         execution' = [t \in 1..(token + 1) |->
                         IF t = token + 1
                         THEN [worker |-> w, env |-> s, phase |-> "reserved",
                               at |-> 0, handler |-> FALSE]
                         ELSE exs[t]]
  PROVE  RetryBudget'
<1>t. token \in Nat /\ attempts \in [Envelopes -> Int]
  BY DEF IInv, TypeOK, WorkerTypeOK, DriverTypeOK
<1>1. /\ Tokens' = Tokens \cup {token + 1} /\ token + 1 \notin Tokens
      /\ \A t \in Tokens : execution'[t] = exs[t]
      /\ execution'[token + 1].env = s /\ execution'[token + 1].phase = "reserved"
  BY <1>t DEF Tokens
<1>2. Envelopes' = Envelopes
  BY DEF Envelopes
<1>3. \A u \in Envelopes \ {s} : Charged(u)' = Charged(u)
  BY <1>1 DEF Charged
<1>4. Charged(s)' = Charged(s) \cup {token + 1} /\ token + 1 \notin Charged(s)
  BY <1>1 DEF Charged
<1>5. Cardinality(Charged(s)') = Cardinality(Charged(s)) + 1
  BY <1>4, ChargedFinite, FS_AddElement
<1>6. \A u \in Envelopes : attempts[u] = Cardinality(Charged(u))
  BY DEF RetryBudget, Charged
<1>7. \A u \in Envelopes : attempts'[u] = Cardinality(Charged(u)')
  <2> SUFFICES ASSUME NEW u \in Envelopes PROVE attempts'[u] = Cardinality(Charged(u)')
    OBVIOUS
  <2>1. CASE u = s
    BY <1>t, <1>5, <1>6, <2>1
  <2>2. CASE u # s
    BY <1>t, <1>3, <1>6, <2>2
  <2> QED BY <2>1, <2>2
<1> QED BY <1>2, <1>7 DEF RetryBudget, Charged

LEMMA DeferUncharges ==
  ASSUME IInv, RetryBudget, NEW t \in Tokens, RateDefer(t)
  PROVE  RetryBudget'
<1>s. PICK s : s = execution[t].env
  OBVIOUS
<1>t. /\ execution \in [Tokens -> Execution(Envelopes)] /\ s \in Envelopes
      /\ attempts \in [Envelopes -> Int]
  BY <1>s DEF IInv, TypeOK, WorkerTypeOK, DriverTypeOK, Execution
<1>1. /\ Tokens' = Tokens /\ Envelopes' = Envelopes
      /\ \A u \in Tokens \ {t} : execution'[u] = execution[u]
      /\ execution'[t].env = s /\ execution'[t].phase = "deferring"
      /\ execution[t].phase = "overQuota"
      /\ attempts' = [attempts EXCEPT ![s] = @ - 1]
  BY <1>s, <1>t DEF RateDefer, To, Tokens, Envelopes, facadeVars, Execution
<1>2. \A u \in Envelopes \ {s} : Charged(u)' = Charged(u)
  BY <1>1, <1>s DEF Charged
<1>3. Charged(s)' = Charged(s) \ {t} /\ t \in Charged(s)
  BY <1>1, <1>s DEF Charged
<1>4. Cardinality(Charged(s)') = Cardinality(Charged(s)) - 1
  BY <1>3, ChargedFinite, FS_RemoveElement
<1>5. \A u \in Envelopes : attempts[u] = Cardinality(Charged(u))
  BY DEF RetryBudget, Charged
<1>6. \A u \in Envelopes : attempts'[u] = Cardinality(Charged(u)')
  <2> SUFFICES ASSUME NEW u \in Envelopes PROVE attempts'[u] = Cardinality(Charged(u)')
    OBVIOUS
  <2>1. CASE u = s
    BY <1>t, <1>1, <1>4, <1>5, <2>1
  <2>2. CASE u # s
    BY <1>t, <1>1, <1>2, <1>5, <2>2
  <2> QED BY <2>1, <2>2
<1> QED BY <1>1, <1>6 DEF RetryBudget, Charged

LEMMA AddUncharged ==
  ASSUME IInv, RetryBudget, NEW e, Adds(e)
  PROVE  RetryBudget'
<1>t. /\ seq \in Nat /\ execution \in [Tokens -> Execution(Envelopes)]
  BY DEF IInv, TypeOK, WorkerTypeOK, FacadeTypeOK
<1>1. /\ Envelopes' = Envelopes \cup {seq} /\ seq \notin Envelopes
      /\ attempts'[seq] = 0 /\ \A s \in Envelopes : attempts'[s] = attempts[s]
      /\ UNCHANGED <<token, execution>>
  BY <1>t DEF Adds, AddEnvelope, Envelopes, workerVars
<1>2. \A s : Charged(s)' = Charged(s)
  BY <1>1 DEF Charged, Tokens
<1>3. Charged(seq) = {}
  BY <1>t, <1>1 DEF Charged, Execution
<1>4. \A s \in Envelopes : attempts'[s] = Cardinality(Charged(s)')
  BY <1>1, <1>2 DEF RetryBudget, Charged
<1>5. attempts'[seq] = Cardinality(Charged(seq))
  BY <1>1, <1>3, FS_EmptySet
<1>6. PICK n : n = seq
  OBVIOUS
<1>7. attempts'[n] = Cardinality(Charged(n)')
  BY <1>2, <1>5, <1>6
<1> QED BY <1>1, <1>4, <1>6, <1>7 DEF RetryBudget, Charged

LEMMA PumpBudget ==
  ASSUME IInv, RetryBudget, NEW w \in Workers, PumpReady(w) \/ PumpPass(w) \/ PumpJob(w)
  PROVE  RetryBudget'
<1>t. /\ execution \in [Tokens -> Execution(Envelopes)] /\ token \in Nat
      /\ pending \in [Workers -> Tokens \cup {None}]
  BY DEF IInv, TypeOK, WorkerTypeOK
<1>1. PICK exs, n :
        /\ PumpLoop(w, n, exs)
        /\ \A u \in Tokens :
             /\ exs[u].env = execution[u].env
             /\ exs[u].phase \in {"deferring", "deferred"} <=>
                  execution[u].phase \in {"deferring", "deferred"}
  <2>1. CASE PumpReady(w) \/ PumpPass(w)
    BY <2>1 DEF PumpReady, PumpPass
  <2>2. CASE PumpJob(w)
    <3>1. pending[w] \in Tokens /\ execution[pending[w]].phase = "reserved"
      BY <2>2, <1>t DEF PumpJob, IInv, WorkerInv, Awaited
    <3>2. \A u \in Tokens :
             /\ To(pending[w], "admitting")[u].env = execution[u].env
             /\ To(pending[w], "admitting")[u].phase \in {"deferring", "deferred"} <=>
                  execution[u].phase \in {"deferring", "deferred"}
      BY <3>1, <1>t DEF To, Execution
    <3> QED BY <2>2, <3>2 DEF PumpJob
  <2> QED BY <2>1, <2>2
<1>2. UNCHANGED seq
  BY DEF PumpReady, PumpPass, PumpJob, facadeVars
<1>3. CASE UNCHANGED <<token, attempts>> /\ execution' = exs
  BY <1>1, <1>2, <1>3, SameCharge DEF Tokens
<1>4. CASE \E s \in Envelopes :
             /\ reserveJob(WorkerQueues[w], VisibilityMs, token + 1, s)
             /\ token' = token + 1
             /\ execution' =
                  [t \in 1..(token + 1) |->
                     IF t = token + 1
                     THEN [worker |-> w, env |-> s, phase |-> "reserved",
                           at |-> 0, handler |-> FALSE]
                     ELSE exs[t]]
  <2>1. PICK s \in Envelopes :
             /\ reserveJob(WorkerQueues[w], VisibilityMs, token + 1, s)
             /\ token' = token + 1
             /\ execution' =
                  [t \in 1..(token + 1) |->
                     IF t = token + 1
                     THEN [worker |-> w, env |-> s, phase |-> "reserved",
                           at |-> 0, handler |-> FALSE]
                     ELSE exs[t]]
    BY <1>4
  <2>2. attempts' = [attempts EXCEPT ![s] = @ + 1]
    BY <2>1 DEF reserveJob
  <2> QED BY <1>1, <1>2, <2>1, <2>2, ReservationCharges
<1> QED BY <1>1, <1>3, <1>4 DEF PumpLoop, reserveNull, driverVars

LEMMA NextBudget == IInv /\ RetryBudget /\ [Next]_vars => RetryBudget'
<1> SUFFICES ASSUME IInv, RetryBudget, [Next]_vars PROVE RetryBudget'
  OBVIOUS
<1>1. CASE UNCHANGED <<seq, attempts, token, execution>>
  BY <1>1, SameCharge DEF Tokens
<1>2. CASE \/ Tick \/ PromotionTick \/ Close \/ CloseDrained \/ UNCHANGED vars
           \/ \E qs : Flush(qs) \/ Purge(qs)
  BY <1>1, <1>2 DEF Tick, PromotionTick, promoteDue, Close, CloseDrained, vars, facadeVars,
         driverVars, workerVars, Flush, DeadLetterFlush, flushDeadLetters, Purge, purge
<1>3. ASSUME NEW o \in JobOptions, Dispatch(o), UNCHANGED <<workerVars, systemVars>>
      PROVE  RetryBudget'
  BY <1>3, DispatchAdds, AddUncharged
<1>4. CASE DeadLetterApi
  <2>1. UNCHANGED <<workerVars, systemVars>>
    BY <1>4 DEF DeadLetterApi
  <2>2. ASSUME NEW a \in Admins, RetryEnqueue(a) PROVE RetryBudget'
    BY <2>1, <2>2, RetryEnqueueAdds, AddUncharged
  <2>3. CASE UNCHANGED <<seq, attempts>>
    BY <1>1, <2>1, <2>3 DEF workerVars
  <2> QED BY <1>4, <2>2, <2>3 DEF DeadLetterApi, DeadLetterRetry, DeadLetterRetryAll,
                                  RetryAllTake, removeDeadLetter, driverVars
<1>5. ASSUME NEW w \in Workers, Pump(w) \/ Start(w) \/ Stop(w) PROVE RetryBudget'
  <2>1. CASE PumpGate(w) \/ PumpNull(w) \/ Start(w) \/ Stop(w)
    BY <1>1, <2>1 DEF PumpGate, PumpNull, Start, Stop, facadeVars, driverVars
  <2>2. CASE PumpReady(w) \/ PumpPass(w) \/ PumpJob(w)
    BY <2>2, PumpBudget
  <2> QED BY <1>5, <2>1, <2>2 DEF Pump
<1>6. ASSUME NEW t \in Tokens, UNCHANGED systemVars, Proceed(t) \/ HandlerStep(t)
      PROVE  RetryBudget'
  <2>1. CASE RateDefer(t)
    BY <2>1, DeferUncharges
  <2>2. CASE ~RateDefer(t)
    <3>t. execution \in [Tokens -> Execution(Envelopes)]
      BY DEF IInv, TypeOK, WorkerTypeOK
    <3>1. UNCHANGED <<seq, attempts, token>>
      BY <1>6, <2>2 DEF Proceed, HandlerStep, HandlerReturns, RateCount, RateHit, StartHandler,
              NoHandler, Finish, HandlerSucceeds, HandlerFails, HandlerTimesOut, LateReturn,
              handleFailure, facadeVars, driverVars, ack, moveToDeadLetter
    <3>2. \A u \in Tokens \ {t} : execution'[u] = execution[u]
      BY <1>6, <2>2, <3>t DEF Proceed, HandlerStep, HandlerReturns, RateCount, RateHit, StartHandler,
              NoHandler, Finish, HandlerSucceeds, HandlerFails, HandlerTimesOut, LateReturn,
              handleFailure, To
    <3>3. Lives(t)
      BY ExecutionsLive
    <3>4. execution[t].phase = "overQuota" => execution'[t].phase # "deferring"
      <4> USE <3>t DEF Execution, To
      <4>1. CASE LateReturn(t)
        BY <4>1 DEF LateReturn
      <4>2. CASE ~LateReturn(t)
        BY <1>6, <2>2, <4>2 DEF Proceed, HandlerStep, HandlerReturns, RateCount, RateHit,
              StartHandler, NoHandler, Finish, HandlerSucceeds, HandlerFails, HandlerTimesOut,
              Admitted, CallPhase
      <4> QED BY <4>1, <4>2
    <3>5. /\ execution'[t].env = execution[t].env
          /\ execution'[t].phase \in {"deferring", "deferred"} <=>
                execution[t].phase \in {"deferring", "deferred"}
      BY <3>3, <3>4 DEF Lives, PhaseSteps
    <3> QED BY <3>1, <3>2, <3>5, SameCharge DEF Tokens
  <2> QED BY <2>1, <2>2
<1> QED BY <1>2, <1>3, <1>4, <1>5, <1>6 DEF Next

(* The attempts cell of an envelope is always the number of reservations   *)
(* of it that the rate limiter did not give back, though every holder      *)
(* writes it: no increment is lost and none is undone twice.               *)
THEOREM AttemptsCounted == Spec => []RetryBudget
<1>1. Init => RetryBudget
  BY DEF Init, RetryBudget, Envelopes
<1> QED BY <1>1, NextBudget, Invariance, PTL DEF Spec

----------------------------------------------------------------------------
(***************************************************************************)
(* What stop() leaves behind.  Once it has been called, pump may still     *)
(* bring in the one reservation it was awaiting, and no other.             *)
(***************************************************************************)
Straggling ==
  \A w \in Workers : stopped[w] # None =>
    /\ ~running[w]
    /\ pending[w] # None => InFlight(w) \subseteq stopped[w]
    /\ \E x : InFlight(w) \subseteq stopped[w] \cup {x}

(* Steps that bring no execution in flight.                                *)
LEMMA NoneEnters ==
  ASSUME Straggling, UNCHANGED <<running, stopped, pending>>,
         \A w \in Workers : InFlight(w)' \subseteq InFlight(w)
  PROVE  Straggling'
BY DEF Straggling

LEMMA PumpStraggling ==
  ASSUME IInv, Straggling, NEW w \in Workers, PumpReady(w) \/ PumpPass(w) \/ PumpJob(w)
  PROVE  Straggling'
<1>t. /\ execution \in [Tokens -> Execution(Envelopes)] /\ token \in Nat
      /\ pending \in [Workers -> Tokens \cup {None}]
      /\ \A v \in Workers : pending[v] # None => pump[v] = "reserving"
  BY DEF IInv, TypeOK, WorkerTypeOK, WorkerInv, Awaited
<1>u. UNCHANGED <<running, stopped>>
  BY DEF PumpReady, PumpPass, PumpJob
<1>p. PICK p : p = pending[w]
  OBVIOUS
<1>1. PICK exs, n :
        /\ PumpLoop(w, n, exs)
        /\ \A u \in Tokens \ {p} : exs[u] = execution[u]
        /\ p \in Tokens => exs[p].worker = w
        /\ pending[w] = None => exs = execution
  <2>1. CASE PumpReady(w) \/ PumpPass(w)
    <3>1. pending[w] = None
      BY <1>t, <2>1 DEF PumpReady, PumpPass
    <3>2. \E n : PumpLoop(w, n, execution)
      BY <2>1 DEF PumpReady, PumpPass
    <3>3. p \in Tokens => execution[p].worker = w
      BY <1>p, <1>t, <3>1, NoneAssumption DEF Tokens
    <3> QED BY <1>p, <3>1, <3>2, <3>3
  <2>2. CASE PumpJob(w)
    <3>1. /\ pending[w] # None /\ pending[w] \in Tokens
          /\ execution[pending[w]].worker = w
      BY <2>2, <1>t DEF PumpJob, IInv, WorkerInv, Awaited
    <3>2. /\ \A u \in Tokens \ {p} : To(pending[w], "admitting")[u] = execution[u]
          /\ To(pending[w], "admitting")[p].worker = w
      BY <3>1, <1>p, <1>t DEF To, Execution
    <3>3. \E n : PumpLoop(w, n, To(pending[w], "admitting"))
      BY <2>2 DEF PumpJob
    <3> QED BY <3>1, <3>2, <3>3
  <2> QED BY <2>1, <2>2
<1>2. /\ \A t \in Tokens : t \in Tokens' /\ execution'[t] = exs[t]
      /\ \A t \in Tokens' \ Tokens : execution'[t].phase = "reserved"
      /\ \A v \in Workers \ {w} : pending'[v] = pending[v]
      /\ ~running[w] => pending'[w] = None
  <2>1. ASSUME NEW s \in Envelopes, token' = token + 1, running[w],
               pending' = [pending EXCEPT ![w] = token + 1],
               execution' = [t \in 1..(token + 1) |->
                     IF t = token + 1
                     THEN [worker |-> w, env |-> s, phase |-> "reserved",
                           at |-> 0, handler |-> FALSE]
                     ELSE exs[t]]
        PROVE  <1>2!1 /\ <1>2!2 /\ <1>2!3 /\ <1>2!4
    <3>1. Tokens' = Tokens \cup {token + 1} /\ token + 1 \notin Tokens
      BY <1>t, <2>1 DEF Tokens
    <3> QED BY <1>t, <2>1, <3>1 DEF Tokens
  <2>2. CASE UNCHANGED token /\ execution' = exs /\ pending' = [pending EXCEPT ![w] = None]
    BY <1>t, <2>2 DEF Tokens
  <2> QED BY <1>1, <2>1, <2>2 DEF PumpLoop, MayReserve
<1>3. /\ \A v \in Workers \ {w} : InFlight(v)' \subseteq InFlight(v)
      /\ InFlight(w)' \subseteq InFlight(w) \cup {p}
      /\ pending[w] = None => InFlight(w)' \subseteq InFlight(w)
  BY <1>1, <1>2 DEF InFlight, InFlightPhase, WaitPhase, CallPhase
<1> SUFFICES ASSUME NEW v \in Workers, stopped'[v] # None
             PROVE  /\ ~running'[v]
                    /\ pending'[v] # None => InFlight(v)' \subseteq stopped'[v]
                    /\ \E x : InFlight(v)' \subseteq stopped'[v] \cup {x}
  BY DEF Straggling
<1>4. /\ ~running[v]
      /\ pending[v] # None => InFlight(v) \subseteq stopped[v]
      /\ \E x : InFlight(v) \subseteq stopped[v] \cup {x}
  BY <1>u DEF Straggling
<1>5. CASE v = w
  BY <1>u, <1>2, <1>3, <1>4, <1>5
<1>6. CASE v # w
  BY <1>u, <1>2, <1>3, <1>4, <1>6
<1> QED BY <1>5, <1>6

LEMMA NextStraggling == IInv /\ Straggling /\ [Next]_vars => Straggling'
<1> SUFFICES ASSUME IInv, Straggling, [Next]_vars PROVE Straggling'
  OBVIOUS
<1>1. CASE UNCHANGED <<running, stopped, pending, token, execution>>
  <2>1. \A w : InFlight(w)' = InFlight(w)
    BY <1>1 DEF InFlight, Tokens
  <2> QED BY <1>1, <2>1, NoneEnters
<1>2. CASE \/ Tick \/ PromotionTick \/ CloseDrained \/ UNCHANGED vars \/ DeadLetterApi
           \/ \E qs : Flush(qs) \/ Purge(qs)
           \/ \E o \in JobOptions : Dispatch(o) /\ UNCHANGED <<workerVars, systemVars>>
  BY <1>1, <1>2 DEF Tick, PromotionTick, CloseDrained, vars, workerVars, Flush, Purge,
                    DeadLetterApi
<1>3. CASE Close
  <2>1. \A w : InFlight(w)' = InFlight(w)
    BY <1>3 DEF Close, InFlight, Tokens
  <2> QED BY <1>3, <2>1 DEF Close, Straggling
<1>4. ASSUME NEW w \in Workers, Pump(w) \/ Start(w) \/ Stop(w) PROVE Straggling'
  <2>t. /\ running \in [Workers -> BOOLEAN]
        /\ stopped \in [Workers -> (SUBSET Tokens) \cup {None}]
    BY DEF IInv, TypeOK, WorkerTypeOK
  <2>1. CASE PumpGate(w)
    BY <1>1, <2>1 DEF PumpGate
  <2>2. CASE PumpReady(w) \/ PumpPass(w) \/ PumpJob(w)
    BY <2>2, PumpStraggling
  <2>3. CASE Start(w) \/ Stop(w)
    <3>1. \A v : InFlight(v)' = InFlight(v)
      BY <2>3 DEF Start, Stop, InFlight, Tokens
    <3>2. CASE Start(w)
      BY <3>1, <3>2, <2>t DEF Start, Straggling
    <3>3. CASE Stop(w)
      <4>1. /\ stopped'[w] = InFlight(w) /\ ~running'[w] /\ UNCHANGED pending
            /\ \A v \in Workers \ {w} : stopped'[v] = stopped[v] /\ running'[v] = running[v]
        BY <3>3, <2>t DEF Stop
      <4> QED BY <3>1, <4>1 DEF Straggling
    <3> QED BY <2>3, <3>2, <3>3
  <2>4. CASE PumpNull(w)
    <3>1. \A v : InFlight(v)' = InFlight(v)
      BY <2>4 DEF PumpNull, InFlight, Tokens
    <3>2. CASE UNCHANGED <<running, stopped>>
      BY <1>1, <2>4, <3>2 DEF PumpNull
    <3>3. CASE /\ inFlight[w] = 0
               /\ running' = [running EXCEPT ![w] = FALSE]
               /\ stopped' = [stopped EXCEPT ![w] = {}]
      <4>1. InFlight(w) = {}
        <5>1. Cardinality(InFlight(w)) = 0
          BY <3>3 DEF IInv, WorkerInv, Counted
        <5>2. IsFiniteSet(InFlight(w))
          BY InFlightFinite DEF IInv, TypeOK, WorkerTypeOK
        <5> QED BY <5>1, <5>2, FS_EmptySet
      <4>2. /\ stopped'[w] = {} /\ ~running'[w] /\ UNCHANGED pending
            /\ \A v \in Workers \ {w} : stopped'[v] = stopped[v] /\ running'[v] = running[v]
        BY <2>4, <3>3, <2>t DEF PumpNull
      <4> QED BY <3>1, <4>1, <4>2 DEF Straggling
    <3> QED BY <2>4, <3>2, <3>3 DEF PumpNull
  <2> QED BY <1>4, <2>1, <2>2, <2>3, <2>4 DEF Pump
<1>5. ASSUME NEW t \in Tokens, UNCHANGED systemVars, Proceed(t) \/ HandlerStep(t)
      PROVE  Straggling'
  <2>1. UNCHANGED <<running, stopped, pending, token>>
    BY <1>5 DEF Proceed, HandlerStep, HandlerReturns, RateCount, RateHit, RateDefer, StartHandler,
              NoHandler, Finish, HandlerSucceeds, HandlerFails, HandlerTimesOut, LateReturn,
              handleFailure
  <2>2. \A u \in Tokens : Lives(u)
    BY ExecutionsLive
  <2>3. execution[t].phase # "reserved" \/ execution'[t].phase = "reserved"
    <3>t. execution \in [Tokens -> Execution(Envelopes)]
      BY DEF IInv, TypeOK, WorkerTypeOK
    <3>1. CASE LateReturn(t)
      BY <3>t, <3>1 DEF LateReturn, Execution
    <3>2. CASE ~LateReturn(t)
      BY <1>5, <3>2 DEF Proceed, HandlerStep, HandlerReturns, RateCount, RateHit, RateDefer,
              StartHandler, NoHandler, Finish, HandlerSucceeds, HandlerFails, HandlerTimesOut,
              Admitted, CallPhase
    <3> QED BY <3>1, <3>2
  <2>4. \A u \in Tokens \ {t} : execution'[u] = execution[u]
    BY <1>5 DEF IInv, TypeOK, WorkerTypeOK, Proceed, HandlerStep, HandlerReturns, RateCount,
              RateHit, RateDefer, StartHandler, NoHandler, Finish, HandlerSucceeds, HandlerFails,
              HandlerTimesOut, LateReturn, handleFailure, To
  <2>5. Tokens' = Tokens
    BY <2>1 DEF Tokens
  <2>6. execution'[t].phase \in InFlightPhase => execution[t].phase \in InFlightPhase
    BY <2>2, <2>3 DEF Lives, PhaseSteps, InFlightPhase, WaitPhase, CallPhase
  <2>7. \A w \in Workers : InFlight(w)' \subseteq InFlight(w)
    BY <2>2, <2>4, <2>5, <2>6 DEF InFlight, Lives
  <2> QED BY <2>1, <2>7, NoneEnters
<1> QED BY <1>2, <1>3, <1>4, <1>5 DEF Next

(* A stop() that has resolved leaves at most one execution in flight, the  *)
(* reservation pump was awaiting when it was called, for any concurrency   *)
(* and any interleaving with start(), close() and StopWhenEmpty.           *)
THEOREM StopLeavesOne == Spec => []AtMostOneStraggler
<1>1. Init => Straggling
  BY DEF Init, Straggling
<1>2. IInv /\ Straggling => AtMostOneStraggler
  <2> SUFFICES ASSUME IInv, Straggling, NEW w \in Workers, StopResolved(w)
               PROVE  Cardinality(InFlight(w)) <= 1
    BY DEF AtMostOneStraggler
  <2>1. PICK x : InFlight(w) \subseteq stopped[w] \cup {x}
    BY DEF Straggling, StopResolved
  <2>2. \A t \in stopped[w] : t \notin InFlight(w)
    BY DEF StopResolved, InFlight, InFlightPhase, WaitPhase, CallPhase, DonePhase
  <2>3. InFlight(w) \subseteq {x}
    BY <2>1, <2>2
  <2>4. IsFiniteSet({x}) /\ Cardinality({x}) = 1
    BY FS_Singleton
  <2> QED BY <2>3, <2>4, FS_Subset
<1> QED BY <1>1, <1>2, NextStraggling, Invariance, PTL DEF Spec
----------------------------------------------------------------------------
(***************************************************************************)
(* The rate limiter.  hits[q] is sorted, so what hit prunes is what fell   *)
(* out of the window, and what it keeps is what count counted.             *)
(***************************************************************************)
Sorted(ts) == \A i, j \in DOMAIN ts : i <= j => ts[i] <= ts[j]
HitsSince(ts, a) == {i \in DOMAIN ts : ts[i] >= a}

LEMMA HitsFinite ==
  ASSUME NEW ts \in Seq(Nat), NEW a
  PROVE  /\ IsFiniteSet(HitsSince(ts, a)) /\ Cardinality(HitsSince(ts, a)) \in Nat
         /\ DOMAIN ts = 1..Len(ts) /\ Len(ts) \in Nat
<1>1. DOMAIN ts = 1..Len(ts) /\ Len(ts) \in Nat
  OBVIOUS
<1>2. IsFiniteSet(1..Len(ts))
  BY <1>1, FS_Interval
<1>3. HitsSince(ts, a) \in SUBSET (1..Len(ts))
  BY <1>1 DEF HitsSince
<1>4. IsFiniteSet(HitsSince(ts, a))
  BY <1>2, <1>3, FS_Subset
<1> QED BY <1>1, <1>4, FS_CardinalityType

(* prune(ts, c) drops the first m timestamps, those before c.              *)
LEMMA PruneKeeps ==
  ASSUME NEW ts \in Seq(Nat), Sorted(ts), NEW c \in Int
  PROVE  \E m \in 0..Len(ts) : /\ prune(ts, c) = SubSeq(ts, m + 1, Len(ts))
                               /\ HitsSince(ts, c) = (m + 1)..Len(ts)
<1> DEFINE n == Len(ts)
           kept == {i \in DOMAIN ts : \E j \in 1..i : ts[j] >= c}
<1>1. n \in Nat /\ DOMAIN ts = 1..n /\ \A i \in 1..n : ts[i] \in Nat
  OBVIOUS
<1>2. kept = HitsSince(ts, c)
  <2>1. ASSUME NEW i \in 1..n, NEW j \in 1..i PROVE ts[j] <= ts[i]
    <3>1. j \in 1..n /\ j <= i
      BY <1>1
    <3> QED BY <1>1, <3>1 DEF Sorted
  <2>2. ASSUME NEW i \in 1..n, NEW j \in 1..i, ts[j] >= c PROVE ts[i] >= c
    <3>1. j \in 1..n
      BY <1>1
    <3> QED BY <1>1, <2>1, <2>2, <3>1
  <2>3. \A i \in 1..n : i \in 1..i
    BY <1>1
  <2> QED BY <1>1, <2>2, <2>3 DEF HitsSince
<1>3. prune(ts, c) = SubSeq(ts, n - Cardinality(kept) + 1, n)
  BY DEF prune
<1> HIDE DEF n, kept
<1>4. CASE HitsSince(ts, c) = {}
  <2>1. Cardinality(kept) = 0
    BY <1>2, <1>4, FS_EmptySet
  <2>2. n \in 0..n /\ (n + 1)..n = {}
    BY <1>1
  <2>3. prune(ts, c) = SubSeq(ts, n + 1, n)
    BY <1>1, <1>3, <2>1
  <2> QED BY <1>4, <2>2, <2>3 DEF n
<1>5. CASE HitsSince(ts, c) # {}
  <2>1. PICK k \in HitsSince(ts, c) : \A h \in HitsSince(ts, c) : k <= h
    <3>1. HitsSince(ts, c) \in SUBSET Nat
      BY <1>1 DEF HitsSince
    <3>2. PICK k \in HitsSince(ts, c) : \A h \in HitsSince(ts, c) : ~(<<h, k>> \in OpToRel(<, Nat))
      BY <1>5, <3>1, NatLessThanWellFounded, WFMin, Zenon
    <3>3. \A h \in HitsSince(ts, c) : ~(h < k)
      BY <3>1, <3>2 DEF OpToRel
    <3>4. \A h \in HitsSince(ts, c) : k <= h
      BY <3>1, <3>3
    <3> QED BY <3>4
  <2>2. k \in 1..n /\ ts[k] >= c
    BY <1>1, <2>1 DEF HitsSince
  <2>3. HitsSince(ts, c) = k..n
    <3>1. ASSUME NEW i \in k..n PROVE i \in HitsSince(ts, c)
      <4>1. i \in 1..n /\ k <= i
        BY <1>1, <2>2
      <4>2. ts[k] <= ts[i]
        BY <1>1, <2>2, <4>1 DEF Sorted
      <4> QED BY <1>1, <2>2, <4>1, <4>2 DEF HitsSince
    <3>2. ASSUME NEW i \in HitsSince(ts, c) PROVE i \in k..n
      <4>1. i \in 1..n /\ k <= i
        BY <1>1, <2>1 DEF HitsSince
      <4> QED BY <1>1, <2>2, <4>1
    <3> QED BY <3>1, <3>2
  <2>4. Cardinality(kept) = n - k + 1
    BY <1>1, <1>2, <2>2, <2>3, FS_Interval
  <2>5. k - 1 \in 0..n /\ (k - 1) + 1 = k /\ n - Cardinality(kept) + 1 = k
    BY <1>1, <2>2, <2>4
  <2> QED BY <1>3, <2>3, <2>5 DEF n
<1> QED BY <1>4, <1>5

(* A hit at x, the latest so far, in a window that has room: nothing of    *)
(* the window ending at x is forgotten, and x is added.                    *)
LEMMA HitRecords ==
  ASSUME NEW ts \in Seq(Nat), Sorted(ts), NEW x \in Nat, NEW w \in Nat,
         \A i \in DOMAIN ts : ts[i] <= x,
         Cardinality(HitsSince(ts, x - w)) < MaxRequestsPerKey,
         NEW new, new = hit(ts, x, w)
  PROVE  /\ new \in Seq(Nat) /\ Sorted(new) /\ \A i \in DOMAIN new : new[i] <= x
         /\ \A a \in Int : x - w <= a =>
              Cardinality(HitsSince(ts, a)) + (IF a <= x THEN 1 ELSE 0)
                <= Cardinality(HitsSince(new, a))
<1>1. PICK m \in 0..Len(ts) : /\ prune(ts, x - w) = SubSeq(ts, m + 1, Len(ts))
                              /\ HitsSince(ts, x - w) = (m + 1)..Len(ts)
  <2>1. x - w \in Int
    OBVIOUS
  <2> QED BY <2>1, PruneKeeps
<1> DEFINE n == Len(ts) p == SubSeq(ts, m + 1, n) l == n - m
<1>2. n \in Nat /\ DOMAIN ts = 1..n /\ (\A i \in 1..n : ts[i] \in Nat /\ ts[i] <= x)
      /\ m \in Nat /\ m <= n /\ l \in Nat
  OBVIOUS
<1> HIDE DEF n, l
<1>3. p \in Seq(Nat) /\ Len(p) = l /\ \A i \in 1..l : p[i] = ts[m + i]
  <2>1. \A i \in (m + 1)..n : ts[i] \in Nat
    BY <1>2
  <2>2. /\ SubSeq(ts, m + 1, n) \in Seq(Nat)
        /\ Len(SubSeq(ts, m + 1, n)) = IF m + 1 <= n THEN n - (m + 1) + 1 ELSE 0
        /\ \A i \in 1..(n - (m + 1) + 1) : SubSeq(ts, m + 1, n)[i] = ts[(m + 1) + i - 1]
    <3>1. m + 1 \in Int /\ n \in Int
      BY <1>2
    <3> QED BY <2>1, <3>1, SubSeqProperties
  <2> QED BY <1>2, <2>2 DEF l
<1> HIDE DEF p
<1>4. Cardinality(HitsSince(ts, x - w)) = l
  <2>1. Cardinality((m + 1)..n) = IF m + 1 > n THEN 0 ELSE n - (m + 1) + 1
    BY <1>2, FS_Interval
  <2> QED BY <1>1, <1>2, <2>1 DEF l, n
<1>5. new = Append(p, x)
  BY <1>1, <1>3, <1>4 DEF hit, p, n
<1>6. /\ new \in Seq(Nat) /\ Len(new) = l + 1 /\ DOMAIN new = 1..(l + 1)
      /\ \A i \in 1..l : new[i] = ts[m + i]
      /\ new[l + 1] = x
  <2>1. new \in Seq(Nat) /\ Len(new) = l + 1 /\ new[l + 1] = x /\ \A i \in 1..l : new[i] = p[i]
    BY <1>3, <1>5, AppendProperties
  <2> QED BY <1>3, <2>1, SMTT(30)
<1>7. \A i \in 1..l : m + i \in 1..n
  BY <1>2 DEF l
<1>8. \A i \in DOMAIN new : new[i] \in Nat /\ new[i] <= x
  <2> SUFFICES ASSUME NEW i \in 1..(l + 1) PROVE new[i] \in Nat /\ new[i] <= x
    BY <1>6
  <2>1. CASE i = l + 1
    BY <1>6, <2>1
  <2>2. CASE i # l + 1
    <3>1. i \in 1..l
      BY <1>2, <2>2
    <3> QED BY <1>2, <1>6, <1>7, <3>1
  <2> QED BY <2>1, <2>2
<1>9. Sorted(new)
  <2> SUFFICES ASSUME NEW i \in 1..(l + 1), NEW j \in 1..(l + 1), i <= j PROVE new[i] <= new[j]
    BY <1>6 DEF Sorted
  <2>1. CASE j = l + 1
    BY <1>6, <1>8, <2>1
  <2>2. CASE j # l + 1
    <3>1. i \in 1..l /\ j \in 1..l /\ m + i <= m + j
      BY <1>2, <2>2
    <3>2. ts[m + i] <= ts[m + j]
      BY <1>2, <1>7, <3>1 DEF Sorted
    <3> QED BY <1>6, <3>1, <3>2
  <2> QED BY <2>1, <2>2
<1>10. ASSUME NEW a \in Int, x - w <= a
       PROVE  Cardinality(HitsSince(ts, a)) + (IF a <= x THEN 1 ELSE 0)
                <= Cardinality(HitsSince(new, a))
  <2> DEFINE old == HitsSince(ts, a)
             moved == {i \in 1..l : ts[m + i] >= a}
             f == [i \in old |-> i - m]
  <2>1. old \subseteq (m + 1)..n
    <3>1. \A i \in old : i \in 1..n /\ ts[i] >= x - w
      BY <1>2, <1>10 DEF HitsSince
    <3>2. old \subseteq HitsSince(ts, x - w)
      BY <1>2, <3>1 DEF HitsSince
    <3> QED BY <1>1, <3>2 DEF n
  <2>2. \A i \in old : i \in Int /\ i - m \in moved
    <3> SUFFICES ASSUME NEW i \in old PROVE i \in Int /\ i - m \in moved
      OBVIOUS
    <3>1. i \in (m + 1)..n /\ ts[i] >= a
      BY <2>1 DEF HitsSince
    <3>2. i \in Int /\ i - m \in 1..l /\ m + (i - m) = i
      BY <1>2, <3>1 DEF l
    <3> QED BY <3>1, <3>2
  <2>3. f \in Injection(old, moved)
    <3>1. f \in [old -> moved]
      BY <2>2
    <3>2. \A i, j \in old : f[i] = f[j] => i = j
      BY <1>2, <2>2
    <3> QED BY <3>1, <3>2 DEF Injection, IsInjective
  <2> HIDE DEF old, f
  <2>4. IsFiniteSet(moved) /\ Cardinality(moved) \in Nat /\ l + 1 \notin moved
    <3>1. IsFiniteSet(1..l)
      BY <1>2, FS_Interval
    <3>2. IsFiniteSet(moved)
      BY <3>1, FS_Subset
    <3> QED BY <1>2, <3>2, FS_CardinalityType
  <2>5. Cardinality(old) <= Cardinality(moved)
    BY <2>3, <2>4, FS_Injection
  <2>6. HitsSince(new, a) = moved \cup (IF a <= x THEN {l + 1} ELSE {})
    <3>1. \A i \in 1..(l + 1) : i \in 1..l \/ i = l + 1
      BY <1>2
    <3>2. \A i \in 1..l : i \in 1..(l + 1) /\ i # l + 1
      BY <1>2
    <3>3. l + 1 \in 1..(l + 1)
      BY <1>2
    <3> QED BY <1>6, <3>1, <3>2, <3>3 DEF HitsSince
  <2>7. Cardinality(old) \in Nat
    BY HitsFinite DEF old
  <2> HIDE DEF moved
  <2>8. CASE a <= x
    <3>1. Cardinality(HitsSince(new, a)) = Cardinality(moved) + 1
      BY <2>4, <2>6, <2>8, FS_AddElement
    <3> QED BY <2>4, <2>5, <2>7, <2>8, <3>1 DEF old
  <2>9. CASE ~(a <= x)
    <3>1. HitsSince(new, a) = moved
      BY <2>6, <2>9
    <3> QED BY <2>4, <2>5, <2>7, <2>9, <3>1 DEF old
  <2> QED BY <2>8, <2>9
<1> QED BY <1>6, <1>8, <1>9, <1>10

----------------------------------------------------------------------------
(***************************************************************************)
(* The quota.  The rate checks of a worker are chained, so between count   *)
(* and hit nothing is recorded: the window that count saw is the one hit   *)
(* adds to.  Clock readings of admissions never go back, and every         *)
(* admission in the window of the latest one is still in the store.        *)
(***************************************************************************)
BeforeStart == {"reserved", "admitting", "underQuota", "overQuota", "deferring", "deferred"}
StartedOn(q) == {t \in Tokens : QueueOf(t) = q /\ execution[t].phase \notin BeforeStart}
StartedSince(q, a) == {t \in StartedOn(q) : execution[t].at >= a}
StartedIn(q, a, b) == {t \in StartedOn(q) : execution[t].at \in a..b}

(* The check under way has seen the hits there are, with room for its own. *)
Checked(q, t) ==
  /\ \A i \in DOMAIN hits[q] : hits[q][i] <= execution[t].at
  /\ \A u \in StartedOn(q) : execution[u].at <= execution[t].at
  /\ Cardinality(HitsSince(hits[q], execution[t].at - RateLimits[q].windowMs))
       < RateLimits[q].requests

Remembered(q) ==
  \A a \in Int : (\A u \in StartedOn(q) : execution[u].at - RateLimits[q].windowMs <= a) =>
    Cardinality(StartedSince(q, a)) <= Cardinality(HitsSince(hits[q], a))

WithinQuota(q) ==
  \A t \in StartedOn(q) :
    Cardinality(StartedIn(q, execution[t].at - RateLimits[q].windowMs, execution[t].at))
      <= RateLimits[q].requests

RateOK(q) ==
  /\ Sorted(hits[q]) /\ \A i \in DOMAIN hits[q] : hits[q][i] <= now
  /\ \A t \in Tokens : QueueOf(t) = q /\ execution[t].phase = "underQuota" => Checked(q, t)
  /\ Remembered(q) /\ WithinQuota(q)

QuotaInv ==
  /\ \A t, u \in Tokens :
       execution[t].phase = "underQuota" /\ execution[u].phase = "underQuota" => t = u
  /\ \A t \in Tokens : execution[t].at <= now
  /\ \A q \in Queues : RateLimits[q] # None => RateOK(q)

(* One worker, and no quota above what the store keeps of a key.           *)
OneChain == \A v, w \in Workers : v = w
QuotasFit == \A q \in Queues : RateLimits[q] # None => RateLimits[q].requests <= MaxRequestsPerKey

LEMMA RateTypes ==
  ASSUME IInv
  PROVE  /\ now \in Nat /\ token \in Nat /\ execution \in [Tokens -> Execution(Envelopes)]
         /\ \A t \in Tokens : /\ execution[t].at \in Nat /\ execution[t].env \in Envelopes
                              /\ execution[t].worker \in Workers /\ QueueOf(t) \in Queues
         /\ hits \in [Queues -> Seq(Nat)]
         /\ \A q \in Queues : RateLimits[q] # None =>
              RateLimits[q].requests \in Nat /\ RateLimits[q].windowMs \in Nat
<1>1. /\ now \in Nat /\ token \in Nat /\ execution \in [Tokens -> Execution(Envelopes)]
      /\ env \in [Envelopes -> Envelope] /\ hits \in [Queues -> Seq(Nat)]
  BY DEF IInv, TypeOK, DriverTypeOK, FacadeTypeOK, WorkerTypeOK
<1>2. \A t \in Tokens : /\ execution[t].at \in Nat /\ execution[t].env \in Envelopes
                        /\ execution[t].worker \in Workers
  BY <1>1 DEF Execution
<1>3. \A t \in Tokens : QueueOf(t) \in Queues
  BY <1>1, <1>2 DEF QueueOf, Envelope
<1> QED BY <1>1, <1>2, <1>3, WorkerAssumption

LEMMA StartedFinite ==
  ASSUME token \in Nat, NEW q, NEW a, NEW b
  PROVE  /\ IsFiniteSet(StartedSince(q, a)) /\ Cardinality(StartedSince(q, a)) \in Nat
         /\ IsFiniteSet(StartedIn(q, a, b)) /\ Cardinality(StartedIn(q, a, b)) \in Nat
<1>1. IsFiniteSet(Tokens)
  BY FS_Interval DEF Tokens
<1>2. StartedSince(q, a) \in SUBSET Tokens /\ StartedIn(q, a, b) \in SUBSET Tokens
  BY DEF StartedSince, StartedIn, StartedOn
<1> QED BY <1>1, <1>2, FS_Subset, FS_CardinalityType

(* A step in which nobody is checked or admitted.                          *)
LEMMA QuotaFrame ==
  ASSUME IInv, IInv', QuotaInv, now <= now', UNCHANGED hits,
         \A s \in Envelopes : env'[s] = env[s],
         \A t \in Tokens : /\ t \in Tokens' /\ execution'[t].env = execution[t].env
                           /\ execution'[t].at = execution[t].at
                           /\ \/ execution'[t].phase = execution[t].phase
                              \/ /\ execution[t].phase \in BeforeStart
                                 /\ execution'[t].phase \in BeforeStart \ {"underQuota"}
                              \/ /\ execution[t].phase \notin BeforeStart
                                 /\ execution'[t].phase \notin BeforeStart
                              \/ ~Limited(t) /\ execution'[t].phase # "underQuota",
         \A t \in Tokens' \ Tokens : execution'[t].phase = "reserved" /\ execution'[t].at = 0
  PROVE  QuotaInv'
<1>1. \A t \in Tokens : QueueOf(t)' = QueueOf(t) /\ QueueOf(t) \in Queues
  BY RateTypes DEF QueueOf
<1>2. \A t \in Tokens' : execution'[t].phase = "underQuota" =>
        t \in Tokens /\ execution[t].phase = "underQuota"
  BY DEF BeforeStart
<1>3. \A t \in Tokens' : execution'[t].at <= now'
  <2>1. now \in Nat /\ now' \in Nat /\ \A t \in Tokens : execution[t].at \in Nat /\ execution[t].at <= now
    BY RateTypes DEF QuotaInv, IInv, TypeOK, DriverTypeOK
  <2>2. \A t \in Tokens : execution'[t].at <= now'
    BY <2>1
  <2> QED BY <2>1, <2>2
<1>4. ASSUME NEW q \in Queues, RateLimits[q] # None PROVE RateOK(q)'
  <2>1. StartedOn(q)' = StartedOn(q)
    BY <1>1, <1>4 DEF StartedOn, BeforeStart, Limited
  <2>2. \A u \in StartedOn(q) : u \in Tokens /\ execution'[u].at = execution[u].at
    BY DEF StartedOn
  <2>3. /\ \A a : StartedSince(q, a)' = StartedSince(q, a)
        /\ \A a, b : StartedIn(q, a, b)' = StartedIn(q, a, b)
    BY <2>1, <2>2 DEF StartedSince, StartedIn
  <2>4. RateOK(q)
    BY <1>4 DEF QuotaInv
  <2>5. \A i \in DOMAIN hits'[q] : hits'[q][i] <= now'
    <3>1. now \in Nat /\ now' \in Nat /\ hits[q] \in Seq(Nat)
      BY RateTypes DEF IInv, TypeOK, DriverTypeOK
    <3>2. \A i \in DOMAIN hits[q] : hits[q][i] \in Nat /\ hits[q][i] <= now
      BY <2>4, <3>1 DEF RateOK
    <3> QED BY <3>1, <3>2
  <2>6. \A t \in Tokens' : QueueOf(t)' = q /\ execution'[t].phase = "underQuota" => Checked(q, t)'
    <3> SUFFICES ASSUME NEW t \in Tokens', QueueOf(t)' = q, execution'[t].phase = "underQuota"
                 PROVE  Checked(q, t)'
      OBVIOUS
    <3>1. t \in Tokens /\ execution[t].phase = "underQuota" /\ QueueOf(t) = q
      BY <1>1, <1>2
    <3>2. Checked(q, t)
      BY <2>4, <3>1 DEF RateOK
    <3> QED BY <2>1, <2>2, <3>1, <3>2 DEF Checked
  <2>7. Remembered(q)'
    BY <2>1, <2>2, <2>3, <2>4 DEF RateOK, Remembered
  <2>8. WithinQuota(q)'
    BY <2>1, <2>2, <2>3, <2>4 DEF RateOK, WithinQuota
  <2> QED BY <2>4, <2>5, <2>6, <2>7, <2>8 DEF RateOK
<1>5. \A t, u \in Tokens' :
        execution'[t].phase = "underQuota" /\ execution'[u].phase = "underQuota" => t = u
  BY <1>2 DEF QuotaInv
<1> QED BY <1>3, <1>4, <1>5 DEF QuotaInv

(* count: what the store remembers is at or before now, and nobody else of *)
(* the one worker is being checked.                                        *)
LEMMA CountChecks ==
  ASSUME OneChain, IInv, QuotaInv, NEW t \in Tokens, RateCount(t)
  PROVE  QuotaInv'
<1> DEFINE k == QueueOf(t)
<1>t. /\ now \in Nat /\ execution \in [Tokens -> Execution(Envelopes)]
      /\ k \in Queues /\ RateLimits[k] # None /\ hits[k] \in Seq(Nat)
  BY RateTypes DEF RateCount, Limited
<1>1. /\ UNCHANGED <<now, env, token, hits>> /\ Tokens' = Tokens
      /\ \A u \in Tokens \ {t} : execution'[u] = execution[u]
      /\ execution'[t].env = execution[t].env /\ execution'[t].at = now
      /\ execution[t].phase = "admitting"
      /\ execution'[t].phase = "underQuota" \/ execution'[t].phase = "overQuota"
      /\ execution'[t].phase = "underQuota" =>
           ~(count(hits[k], now, RateLimits[k].windowMs) >= RateLimits[k].requests)
  BY <1>t DEF RateCount, Tokens, facadeVars, Execution
<1>2. \A u \in Tokens \ {t} : execution[u].phase # "underQuota"
  <2> SUFFICES ASSUME NEW u \in Tokens \ {t}, execution[u].phase = "underQuota" PROVE FALSE
    OBVIOUS
  <2>1. execution[u].worker = execution[t].worker
    BY RateTypes DEF OneChain
  <2>2. u \in InFlight(execution[t].worker)
    BY <2>1 DEF InFlight, InFlightPhase, WaitPhase
  <2>3. Limited(u)
    BY DEF IInv, WorkerInv, CheckedLimited
  <2> QED BY <2>2, <2>3 DEF RateCount, ChainFree
<1>3. \A u \in Tokens : QueueOf(u)' = QueueOf(u)
  BY <1>1 DEF QueueOf
<1>4. ASSUME NEW q \in Queues, RateLimits[q] # None PROVE RateOK(q)'
  <2>1. StartedOn(q)' = StartedOn(q) /\ t \notin StartedOn(q)
    BY <1>1, <1>3 DEF StartedOn, BeforeStart
  <2>2. \A u \in StartedOn(q) : u \in Tokens /\ execution'[u].at = execution[u].at
    BY <1>1, <2>1 DEF StartedOn
  <2>3. /\ \A a : StartedSince(q, a)' = StartedSince(q, a)
        /\ \A a, b : StartedIn(q, a, b)' = StartedIn(q, a, b)
    BY <2>1, <2>2 DEF StartedSince, StartedIn
  <2>4. RateOK(q)
    BY <1>4 DEF QuotaInv
  <2>5. ASSUME NEW u \in Tokens, QueueOf(u) = q, execution'[u].phase = "underQuota"
        PROVE  Checked(q, u)'
    <3>1. u = t /\ q = k
      BY <1>1, <1>2, <2>5
    <3>2. \A v \in StartedOn(q) : execution'[v].at <= execution'[t].at
      BY <1>1, <2>2 DEF QuotaInv
    <3>3. Cardinality(HitsSince(hits[q], now - RateLimits[q].windowMs)) < RateLimits[q].requests
      <4>1. count(hits[q], now, RateLimits[q].windowMs)
              = Cardinality(HitsSince(hits[q], now - RateLimits[q].windowMs))
        BY DEF count, HitsSince
      <4>2. Cardinality(HitsSince(hits[q], now - RateLimits[q].windowMs)) \in Nat
        BY <1>t, <3>1, HitsFinite
      <4>3. RateLimits[q].requests \in Nat
        BY <1>4, RateTypes
      <4> QED BY <1>1, <2>5, <3>1, <4>1, <4>2, <4>3
    <3> QED BY <1>1, <2>1, <2>4, <3>1, <3>2, <3>3 DEF Checked, RateOK
  <2>7. Remembered(q)'
    BY <1>1, <2>1, <2>2, <2>3, <2>4 DEF RateOK, Remembered
  <2>8. WithinQuota(q)'
    BY <2>1, <2>2, <2>3, <2>4 DEF RateOK, WithinQuota
  <2> QED BY <1>1, <1>3, <2>4, <2>5, <2>7, <2>8 DEF RateOK
<1>5. \A u \in Tokens' : execution'[u].at <= now'
  BY <1>t, <1>1 DEF QuotaInv
<1>6. \A u, v \in Tokens' :
        execution'[u].phase = "underQuota" /\ execution'[v].phase = "underQuota" => u = v
  BY <1>1, <1>2
<1> QED BY <1>4, <1>5, <1>6 DEF QuotaInv

(* hit: the admission is recorded in a window that still has room.         *)
LEMMA HitAdmits ==
  ASSUME QuotasFit, IInv, QuotaInv, NEW t \in Tokens, RateHit(t)
  PROVE  QuotaInv'
<1>k. PICK k : k = QueueOf(t)
  OBVIOUS
<1>x. PICK x : x = execution[t].at
  OBVIOUS
<1>w. PICK w : w = RateLimits[k].windowMs
  OBVIOUS
<1>t. /\ now \in Nat /\ token \in Nat /\ execution \in [Tokens -> Execution(Envelopes)]
      /\ x \in Nat /\ k \in Queues /\ RateLimits[k] # None /\ w \in Nat /\ x <= now
      /\ hits \in [Queues -> Seq(Nat)] /\ RateLimits[k].requests \in Nat
      /\ \A u \in Tokens : execution[u].at \in Nat
  <2>1. Limited(t)
    BY DEF IInv, WorkerInv, CheckedLimited, RateHit
  <2> QED BY <1>k, <1>x, <1>w, <2>1, RateTypes DEF Limited, QuotaInv
<1>1. /\ UNCHANGED <<now, env, token>> /\ Tokens' = Tokens
      /\ \A u \in Tokens \ {t} : execution'[u] = execution[u]
      /\ execution'[t].env = execution[t].env /\ execution'[t].at = x
      /\ execution[t].phase = "underQuota" /\ execution'[t].phase = "admitted"
      /\ hits'[k] = hit(hits[k], x, w)
      /\ \A q \in Queues \ {k} : hits'[q] = hits[q]
  BY <1>t, <1>k, <1>x, <1>w DEF RateHit, To, Tokens, facadeVars, Execution
<1>2. \A u \in Tokens : execution'[u].phase # "underQuota"
  BY <1>1 DEF QuotaInv
<1>3. \A u \in Tokens : QueueOf(u)' = QueueOf(u) /\ execution'[u].at = execution[u].at
  BY <1>1, <1>x DEF QueueOf
<1>4. ASSUME NEW q \in Queues \ {k}, RateLimits[q] # None PROVE RateOK(q)'
  <2>1. StartedOn(q)' = StartedOn(q)
    BY <1>1, <1>3, <1>k DEF StartedOn
  <2>2. \A u \in StartedOn(q) : u \in Tokens /\ execution'[u].at = execution[u].at
    BY <1>3 DEF StartedOn
  <2>3. /\ \A a : StartedSince(q, a)' = StartedSince(q, a)
        /\ \A a, b : StartedIn(q, a, b)' = StartedIn(q, a, b)
    BY <2>1, <2>2 DEF StartedSince, StartedIn
  <2>4. RateOK(q)
    BY <1>4 DEF QuotaInv
  <2>5. Remembered(q)'
    BY <1>1, <2>1, <2>2, <2>3, <2>4 DEF RateOK, Remembered
  <2>6. WithinQuota(q)'
    BY <2>1, <2>2, <2>3, <2>4 DEF RateOK, WithinQuota
  <2> QED BY <1>1, <1>2, <2>4, <2>5, <2>6 DEF RateOK
<1>5. RateOK(k)'
  <2>1. RateOK(k) /\ Checked(k, t)
    BY <1>t, <1>1, <1>k DEF QuotaInv, RateOK
  <2>2. /\ \A i \in DOMAIN hits[k] : hits[k][i] <= x
        /\ \A u \in StartedOn(k) : execution[u].at <= x
        /\ Cardinality(HitsSince(hits[k], x - w)) < RateLimits[k].requests
    BY <2>1, <1>x, <1>w DEF Checked
  <2>3. hits[k] \in Seq(Nat) /\ Sorted(hits[k])
        /\ Cardinality(HitsSince(hits[k], x - w)) < MaxRequestsPerKey
    <3>1. hits[k] \in Seq(Nat) /\ Cardinality(HitsSince(hits[k], x - w)) \in Nat
      BY <1>t, HitsFinite
    <3>2. RateLimits[k].requests <= MaxRequestsPerKey /\ MaxRequestsPerKey \in Nat
      BY <1>t, StoreAssumption DEF QuotasFit
    <3> QED BY <1>t, <2>1, <2>2, <3>1, <3>2 DEF RateOK
  <2>4. /\ hits'[k] \in Seq(Nat) /\ Sorted(hits'[k]) /\ \A i \in DOMAIN hits'[k] : hits'[k][i] <= x
        /\ \A a \in Int : x - w <= a =>
             Cardinality(HitsSince(hits[k], a)) + (IF a <= x THEN 1 ELSE 0)
               <= Cardinality(HitsSince(hits'[k], a))
    BY <1>t, <1>1, <2>2, <2>3, HitRecords
  <2>5. /\ StartedOn(k)' = StartedOn(k) \cup {t} /\ t \notin StartedOn(k)
        /\ \A u \in StartedOn(k) \cup {t} : u \in Tokens /\ execution'[u].at = execution[u].at
    BY <1>1, <1>3, <1>k DEF StartedOn, BeforeStart
  <2>6. ASSUME NEW a \in Int
        PROVE  StartedSince(k, a)' = StartedSince(k, a) \cup (IF a <= x THEN {t} ELSE {})
    <3>1. \A u \in StartedOn(k) \cup {t} : execution'[u].at >= a <=> execution[u].at >= a
      BY <2>5
    <3>2. execution[t].at >= a <=> a <= x
      BY <1>t, <1>x
    <3> QED BY <2>5, <3>1, <3>2 DEF StartedSince
  <2>7. ASSUME NEW a \in Int
        PROVE  /\ IsFiniteSet(StartedSince(k, a)) /\ Cardinality(StartedSince(k, a)) \in Nat
               /\ Cardinality(StartedSince(k, a)') =
                    Cardinality(StartedSince(k, a)) + (IF a <= x THEN 1 ELSE 0)
    <3>1. IsFiniteSet(StartedSince(k, a)) /\ Cardinality(StartedSince(k, a)) \in Nat
      BY <1>t, StartedFinite
    <3>2. t \notin StartedSince(k, a)
      BY <2>5 DEF StartedSince
    <3>3. CASE a <= x
      <4>1. StartedSince(k, a)' = StartedSince(k, a) \cup {t}
        BY <2>6, <3>3
      <4> QED BY <3>1, <3>2, <3>3, <4>1, FS_AddElement
    <3>4. CASE ~(a <= x)
      BY <2>6, <3>1, <3>4
    <3> QED BY <3>1, <3>3, <3>4
  <2>8. Remembered(k)'
    <3> SUFFICES ASSUME NEW a \in Int, \A u \in StartedOn(k)' : execution'[u].at - w <= a
                 PROVE  Cardinality(StartedSince(k, a)') <= Cardinality(HitsSince(hits'[k], a))
      BY <1>w DEF Remembered
    <3>1. x - w <= a /\ \A u \in StartedOn(k) : execution[u].at - w <= a
      BY <1>x, <2>5
    <3>2. Cardinality(StartedSince(k, a)) <= Cardinality(HitsSince(hits[k], a))
      BY <1>w, <2>1, <3>1 DEF RateOK, Remembered
    <3>3. Cardinality(HitsSince(hits[k], a)) \in Nat /\ Cardinality(HitsSince(hits'[k], a)) \in Nat
      BY <2>3, <2>4, HitsFinite
    <3>4. Cardinality(HitsSince(hits[k], a)) + (IF a <= x THEN 1 ELSE 0)
            <= Cardinality(HitsSince(hits'[k], a))
      BY <2>4, <3>1
    <3>5. /\ Cardinality(StartedSince(k, a)) \in Nat
          /\ Cardinality(StartedSince(k, a)') =
               Cardinality(StartedSince(k, a)) + (IF a <= x THEN 1 ELSE 0)
      BY <2>7
    <3> QED BY <3>2, <3>3, <3>4, <3>5
  <2>9. WithinQuota(k)'
    <3> SUFFICES ASSUME NEW v \in StartedOn(k)'
                 PROVE  Cardinality(StartedIn(k, execution[v].at - w, execution[v].at)')
                          <= RateLimits[k].requests
      BY <1>w, <2>5 DEF WithinQuota
    <3>1. execution[v].at \in Nat /\ v \in Tokens
      BY <1>t, <2>5
    <3>2. CASE execution[v].at = x
      <4>1. x - w \in Int /\ \A u \in StartedOn(k) : execution[u].at - w <= x - w
        BY <1>t, <2>2, <2>5
      <4>2. Cardinality(StartedSince(k, x - w)) <= Cardinality(HitsSince(hits[k], x - w))
        BY <1>w, <2>1, <4>1 DEF RateOK, Remembered
      <4>3. Cardinality(StartedSince(k, x - w)') <= RateLimits[k].requests
        <5>1. Cardinality(HitsSince(hits[k], x - w)) \in Nat
          BY <2>3, HitsFinite
        <5> QED BY <1>t, <2>2, <2>7, <4>1, <4>2, <5>1
      <4>4. StartedIn(k, x - w, x)' \in SUBSET (StartedSince(k, x - w)')
        <5>1. \A u \in StartedOn(k)' : execution'[u].at \in (x - w)..x => execution'[u].at >= x - w
          BY <1>t
        <5> QED BY <5>1 DEF StartedIn, StartedSince
      <4>5. IsFiniteSet(StartedSince(k, x - w)') /\ Cardinality(StartedSince(k, x - w)') \in Nat
        <5>1. IsFiniteSet(StartedSince(k, x - w) \cup {t})
          BY <2>7, <4>1, FS_AddElement
        <5>2. StartedSince(k, x - w)' \in SUBSET (StartedSince(k, x - w) \cup {t})
          BY <2>6, <4>1
        <5>3. IsFiniteSet(StartedSince(k, x - w)')
          BY <5>1, <5>2, FS_Subset
        <5> QED BY <5>3, FS_CardinalityType
      <4>6. /\ Cardinality(StartedIn(k, x - w, x)') <= Cardinality(StartedSince(k, x - w)')
            /\ Cardinality(StartedIn(k, x - w, x)') \in Nat
        BY <4>4, <4>5, FS_Subset, FS_CardinalityType
      <4>7. StartedIn(k, execution[v].at - w, execution[v].at)' = StartedIn(k, x - w, x)'
        BY <1>3, <3>1, <3>2
      <4>8. Cardinality(StartedIn(k, x - w, x)') <= RateLimits[k].requests
        BY <1>t, <4>3, <4>5, <4>6
      <4> QED BY <4>7, <4>8
    <3>3. CASE execution[v].at # x
      <4>1. v \in StartedOn(k) /\ execution[v].at < x
        BY <1>t, <1>x, <2>2, <2>5, <3>1, <3>3
      <4>2. StartedIn(k, execution[v].at - w, execution[v].at)' =
              StartedIn(k, execution[v].at - w, execution[v].at)
        <5>1. x \notin (execution[v].at - w)..execution[v].at
          BY <1>t, <3>1, <4>1
        <5>2. PICK a, b : a = execution[v].at - w /\ b = execution[v].at
          OBVIOUS
        <5>3. execution'[v].at = b /\ execution'[v].at - w = a
          BY <1>3, <3>1, <5>2
        <5>4. {u \in StartedOn(k)' : execution'[u].at \in a..b} =
                {u \in StartedOn(k) : execution[u].at \in a..b}
          BY <1>x, <2>5, <5>1, <5>2
        <5> QED BY <5>2, <5>3, <5>4 DEF StartedIn
      <4>3. Cardinality(StartedIn(k, execution[v].at - w, execution[v].at))
              <= RateLimits[k].requests
        BY <1>w, <2>1, <4>1 DEF RateOK, WithinQuota
      <4> QED BY <4>2, <4>3
    <3> QED BY <3>2, <3>3
  <2>10. \A i \in DOMAIN hits'[k] : hits'[k][i] <= now'
    BY <1>t, <1>1, <2>4
  <2> QED BY <1>1, <1>2, <2>4, <2>8, <2>9, <2>10 DEF RateOK
<1> QED BY <1>t, <1>1, <1>2, <1>3, <1>4, <1>5 DEF QuotaInv

LEMMA PumpQuota ==
  ASSUME IInv, IInv', QuotaInv, NEW w \in Workers, PumpReady(w) \/ PumpPass(w) \/ PumpJob(w)
  PROVE  QuotaInv'
<1>t. /\ execution \in [Tokens -> Execution(Envelopes)] /\ token \in Nat /\ now \in Nat
      /\ pending \in [Workers -> Tokens \cup {None}]
  BY DEF IInv, TypeOK, WorkerTypeOK, DriverTypeOK
<1>0. UNCHANGED <<now, env, hits>> /\ now <= now'
  BY <1>t DEF PumpReady, PumpPass, PumpJob, facadeVars
<1>1. PICK exs, n :
        /\ PumpLoop(w, n, exs)
        /\ \A u \in Tokens :
             /\ exs[u].env = execution[u].env /\ exs[u].at = execution[u].at
             /\ \/ exs[u].phase = execution[u].phase
                \/ execution[u].phase = "reserved" /\ exs[u].phase = "admitting"
  <2>1. CASE PumpReady(w) \/ PumpPass(w)
    BY <2>1 DEF PumpReady, PumpPass
  <2>2. CASE PumpJob(w)
    <3>1. pending[w] \in Tokens /\ execution[pending[w]].phase = "reserved"
      BY <2>2, <1>t DEF PumpJob, IInv, WorkerInv, Awaited
    <3>2. \A u \in Tokens :
             /\ To(pending[w], "admitting")[u].env = execution[u].env
             /\ To(pending[w], "admitting")[u].at = execution[u].at
             /\ \/ To(pending[w], "admitting")[u].phase = execution[u].phase
                \/ execution[u].phase = "reserved" /\ To(pending[w], "admitting")[u].phase = "admitting"
      BY <3>1, <1>t DEF To, Execution
    <3> QED BY <2>2, <3>2 DEF PumpJob
  <2> QED BY <2>1, <2>2
<1>2. /\ \A u \in Tokens : u \in Tokens' /\ execution'[u] = exs[u]
      /\ \A u \in Tokens' \ Tokens : execution'[u].phase = "reserved" /\ execution'[u].at = 0
  <2>1. ASSUME NEW s \in Envelopes, token' = token + 1,
               execution' = [t \in 1..(token + 1) |->
                     IF t = token + 1
                     THEN [worker |-> w, env |-> s, phase |-> "reserved",
                           at |-> 0, handler |-> FALSE]
                     ELSE exs[t]]
        PROVE  <1>2!1 /\ <1>2!2
    <3>1. Tokens' = Tokens \cup {token + 1} /\ token + 1 \notin Tokens
      BY <1>t, <2>1 DEF Tokens
    <3> QED BY <1>t, <2>1, <3>1 DEF Tokens
  <2>2. CASE UNCHANGED token /\ execution' = exs
    BY <1>t, <2>2 DEF Tokens
  <2> QED BY <1>1, <2>1, <2>2 DEF PumpLoop
<1>3. \A u \in Tokens : \/ execution'[u].phase = execution[u].phase
                        \/ /\ execution[u].phase \in BeforeStart
                           /\ execution'[u].phase \in BeforeStart \ {"underQuota"}
  BY <1>1, <1>2 DEF BeforeStart
<1>4. \A u \in Tokens : /\ u \in Tokens' /\ execution'[u].env = execution[u].env
                        /\ execution'[u].at = execution[u].at
  BY <1>1, <1>2
<1> QED BY <1>0, <1>2, <1>3, <1>4, QuotaFrame

LEMMA StepQuota ==
  ASSUME OneChain, QuotasFit, IInv, IInv', QuotaInv, NEW t \in Tokens,
         UNCHANGED systemVars, Proceed(t) \/ HandlerStep(t)
  PROVE  QuotaInv'
<1>t. /\ execution \in [Tokens -> Execution(Envelopes)] /\ now \in Nat
      /\ execution[t] \in Execution(Envelopes)
  BY DEF IInv, TypeOK, WorkerTypeOK, DriverTypeOK
<1>1. CASE RateCount(t)
  BY <1>1, CountChecks
<1>2. CASE RateHit(t)
  BY <1>2, HitAdmits
<1>3. CASE ~RateCount(t) /\ ~RateHit(t)
  <2>1. /\ UNCHANGED <<now, env, hits, token>>
        /\ \A u \in Tokens \ {t} : execution'[u] = execution[u]
    BY <1>t, <1>3 DEF Proceed, HandlerStep, HandlerReturns, RateDefer, StartHandler, NoHandler,
           Finish, HandlerSucceeds, HandlerFails, HandlerTimesOut, LateReturn, handleFailure, To,
           facadeVars
  <2>2. /\ execution'[t].at = execution[t].at /\ execution'[t].env = execution[t].env
        /\ \/ execution'[t].phase = execution[t].phase
           \/ /\ execution[t].phase \in BeforeStart
              /\ execution'[t].phase \in BeforeStart \ {"underQuota"}
           \/ execution[t].phase \notin BeforeStart /\ execution'[t].phase \notin BeforeStart
           \/ ~Limited(t) /\ execution'[t].phase # "underQuota"
    <3> USE <1>t DEF Execution, BeforeStart, To
    <3>1. CASE RateDefer(t)
      BY <3>1 DEF RateDefer
    <3>2. CASE StartHandler(t) \/ NoHandler(t)
      BY <3>2 DEF StartHandler, NoHandler, Admitted
    <3>3. CASE Finish(t)
      BY <3>3 DEF Finish, Finished, CallPhase
    <3>4. CASE HandlerSucceeds(t) \/ LateReturn(t)
      BY <3>4 DEF HandlerSucceeds, LateReturn
    <3>5. CASE HandlerFails(t) \/ HandlerTimesOut(t)
      BY <3>5 DEF HandlerFails, HandlerTimesOut, handleFailure
    <3> QED BY <1>3, <3>1, <3>2, <3>3, <3>4, <3>5 DEF Proceed, HandlerStep, HandlerReturns
  <2>3. Tokens' = Tokens /\ now <= now'
    BY <1>t, <2>1 DEF Tokens
  <2> QED BY <2>1, <2>2, <2>3, QuotaFrame
<1> QED BY <1>1, <1>2, <1>3

LEMMA NextQuota ==
  ASSUME OneChain, QuotasFit
  PROVE  IInv /\ QuotaInv /\ [Next]_vars => QuotaInv'
<1> SUFFICES ASSUME IInv, QuotaInv, [Next]_vars PROVE QuotaInv'
  OBVIOUS
<1>i. IInv'
  BY NextIInv
<1>e. \A s \in Envelopes : env'[s] = env[s]
  BY EnvelopesGrow
<1>n. now \in Nat
  BY DEF IInv, TypeOK, DriverTypeOK
<1>1. CASE UNCHANGED <<hits, token, execution>> /\ now <= now'
  <2>1. Tokens' = Tokens
    BY <1>1 DEF Tokens
  <2> QED BY <1>1, <1>i, <1>e, <2>1, QuotaFrame
<1>2. CASE Tick
  BY <1>1, <1>2, <1>n DEF Tick, workerVars
<1>3. CASE \/ PromotionTick \/ Close \/ CloseDrained \/ UNCHANGED vars \/ DeadLetterApi
           \/ \E qs : Flush(qs) \/ Purge(qs)
           \/ \E o \in JobOptions : Dispatch(o) /\ UNCHANGED <<workerVars, systemVars>>
  <2>1. UNCHANGED <<hits, token, execution>> /\ UNCHANGED now
    BY <1>3 DEF PromotionTick, Close, CloseDrained, vars, workerVars, Flush, Purge, DeadLetterApi,
                Dispatch, DeadLetterRetry, DeadLetterRetryAll, RetryAllTake, RetryEnqueue,
                DeadLetterFlush, AddEnvelope
  <2> QED BY <1>1, <1>n, <2>1
<1>4. ASSUME NEW w \in Workers, Pump(w) \/ Start(w) \/ Stop(w) PROVE QuotaInv'
  <2>1. CASE PumpGate(w) \/ PumpNull(w) \/ Start(w) \/ Stop(w)
    BY <1>1, <1>n, <2>1 DEF PumpGate, PumpNull, Start, Stop
  <2> QED BY <1>4, <1>i, <2>1, PumpQuota DEF Pump
<1>5. ASSUME NEW t \in Tokens, UNCHANGED systemVars, Proceed(t) \/ HandlerStep(t)
      PROVE  QuotaInv'
  BY <1>5, <1>i, StepQuota
<1> QED BY <1>2, <1>3, <1>4, <1>5 DEF Next

(* With one worker and quotas within what the store keeps of a key, in any *)
(* window ending at an admission the limiter of executeReservation admits  *)
(* no more jobs of a queue than the quota, whatever time passes between    *)
(* count and hit and however stop() and start() interleave.                *)
THEOREM QuotaIsRespected ==
  ASSUME OneChain, QuotasFit
  PROVE  Spec => []QuotaRespected
<1>1. Init => QuotaInv
  <2> SUFFICES ASSUME Init PROVE QuotaInv
    OBVIOUS
  <2>1. Tokens = {} /\ \A q \in Queues : hits[q] = <<>>
    BY DEF Init, Tokens
  <2>2. \A q : StartedOn(q) = {}
    BY <2>1 DEF StartedOn
  <2>3. ASSUME NEW q \in Queues PROVE Remembered(q)
    <3> SUFFICES ASSUME NEW a \in Int
                 PROVE  Cardinality(StartedSince(q, a)) <= Cardinality(HitsSince(hits[q], a))
      BY DEF Remembered
    <3>1. StartedSince(q, a) = {} /\ HitsSince(hits[q], a) = {}
      BY <2>1, <2>2 DEF StartedSince, HitsSince
    <3> QED BY <3>1, FS_EmptySet
  <2> QED BY <2>1, <2>2, <2>3 DEF QuotaInv, RateOK, Sorted, WithinQuota
<1>2. IInv /\ QuotaInv => QuotaRespected
  <2> SUFFICES ASSUME IInv, QuotaInv PROVE QuotaRespected
    OBVIOUS
  <2> DEFINE started == {t \in Tokens : /\ Limited(t)
                                        /\ execution[t].phase \notin BeforeStart}
  <2>1. ASSUME NEW t \in started
        PROVE  Cardinality({u \in started :
                 /\ QueueOf(u) = QueueOf(t)
                 /\ execution[u].at \in
                      (execution[t].at - RateLimits[QueueOf(t)].windowMs)..execution[t].at})
               <= RateLimits[QueueOf(t)].requests
    <3>1. QueueOf(t) \in Queues /\ RateLimits[QueueOf(t)] # None /\ t \in StartedOn(QueueOf(t))
      BY RateTypes DEF Limited, StartedOn
    <3>2. {u \in started :
             /\ QueueOf(u) = QueueOf(t)
             /\ execution[u].at \in
                  (execution[t].at - RateLimits[QueueOf(t)].windowMs)..execution[t].at}
          = StartedIn(QueueOf(t), execution[t].at - RateLimits[QueueOf(t)].windowMs,
                      execution[t].at)
      BY <3>1 DEF StartedIn, StartedOn, Limited
    <3>3. WithinQuota(QueueOf(t))
      BY <3>1 DEF QuotaInv, RateOK
    <3> QED BY <3>1, <3>2, <3>3 DEF WithinQuota
  <2> QED BY <2>1 DEF QuotaRespected, BeforeStart
<1> QED BY <1>1, <1>2, NextQuota, Invariance, PTL DEF Spec
=============================================================================
