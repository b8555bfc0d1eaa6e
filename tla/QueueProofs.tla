---------------------------- MODULE QueueProofs ----------------------------
(***************************************************************************)
(* Proofs about QueueSystem.                                               *)
(***************************************************************************)
EXTENDS QueueSystem, FiniteSetTheorems, SequenceTheorems, TLAPS

(* Records that refer to envelopes and tokens keep their type when more of *)
(* these exist.                                                            *)
LEMMA TypeMonotone ==
  ASSUME NEW E, NEW E2, E \subseteq E2, NEW T, NEW T2, T \subseteq T2
  PROVE  /\ DelayedEntry(E) \subseteq DelayedEntry(E2)
         /\ LeaseRecord(E, T) \subseteq LeaseRecord(E2, T2)
         /\ DeadLetterRecord(E, T) \subseteq DeadLetterRecord(E2, T2)
         /\ Execution(E) \subseteq Execution(E2)
         /\ AdminState(E, T) \subseteq AdminState(E2, T2)
<1>1. DeadLetterRecord(E, T) \subseteq DeadLetterRecord(E2, T2)
  BY DEF DeadLetterRecord
<1>2. AdminState(E, T) \subseteq AdminState(E2, T2)
  BY <1>1 DEF AdminState
<1>3. DelayedEntry(E) \subseteq DelayedEntry(E2)
  BY DEF DelayedEntry
<1>4. LeaseRecord(E, T) \subseteq LeaseRecord(E2, T2)
  BY DEF LeaseRecord
<1>5. Execution(E) \subseteq Execution(E2)
  BY DEF Execution
<1> QED BY <1>1, <1>2, <1>3, <1>4, <1>5

----------------------------------------------------------------------------
(***************************************************************************)
(* The inductive invariant.  TypeOK is not inductive: that inFlight stays  *)
(* a natural number when an execution finishes rests on its being the      *)
(* number of executions in flight, and that a rate deferral computes a due *)
(* time rests on its queue having a limit.  ConcurrencyBound rests on what *)
(* pump remembers across its await, OneHome on a lease and the execution   *)
(* that holds it agreeing on the job.                                      *)
(***************************************************************************)
Counted ==
  \A w \in Workers : /\ inFlight[w] = Cardinality(InFlight(w))
                     /\ inFlight[w] <= Concurrency[w]

Awaited ==
  \A w \in Workers : pending[w] # None =>
    /\ pump[w] = "reserving"
    /\ execution[pending[w]].phase = "reserved"
    /\ execution[pending[w]].worker = w
    /\ inFlight[w] < Concurrency[w]

CheckedLimited ==
  \A t \in Tokens : execution[t].phase \in {"underQuota", "overQuota"} => Limited(t)

WorkerInv == Counted /\ Awaited /\ CheckedLimited

LeaseAgrees ==
  \A r \in reserved : /\ execution[r.token].env = r.env
                      /\ execution[r.token].phase \in Unsettled

IInv == TypeOK /\ WorkerInv /\ LeaseAgrees /\ OneHome

----------------------------------------------------------------------------
(* Execution t moves on; it stays with its worker and its job.             *)
Moves(t) ==
  /\ execution' \in [Tokens -> Execution(Envelopes)]
  /\ \A u \in Tokens \ {t} : execution'[u] = execution[u]
  /\ execution'[t].worker = execution[t].worker
  /\ execution'[t].env = execution[t].env

(* The sets whose size is counted are finite.                              *)
LEMMA InFlightFinite ==
  ASSUME token \in Nat, NEW w
  PROVE  IsFiniteSet(InFlight(w))
<1>1. IsFiniteSet(1..token)
  BY FS_Interval
<1> QED BY <1>1, FS_Subset DEF InFlight, Tokens

(* A move that neither enters nor leaves the executions in flight keeps    *)
(* the worker's invariant.                                                 *)
LEMMA MoveKeeps ==
  ASSUME TypeOK, WorkerInv, NEW t \in Tokens, Moves(t),
         UNCHANGED <<seq, env, token, pump, pending, inFlight>>,
         execution[t].phase \in InFlightPhase <=> execution'[t].phase \in InFlightPhase,
         execution[t].phase = "reserved" <=> execution'[t].phase = "reserved",
         execution'[t].phase \in {"underQuota", "overQuota"} => Limited(t)
  PROVE  WorkerInv'
<1>1. Tokens' = Tokens
  BY DEF Tokens
<1>2. \A w \in Workers : InFlight(w)' = InFlight(w)
  BY <1>1 DEF InFlight, Moves
<1>3. Counted'
  BY <1>2 DEF WorkerInv, Counted
<1>4. Awaited'
  BY SMTT(30) DEF WorkerInv, Awaited, Moves, TypeOK, WorkerTypeOK
<1>5. CheckedLimited'
  BY <1>1 DEF WorkerInv, CheckedLimited, Limited, QueueOf, Moves
<1> QED BY <1>3, <1>4, <1>5 DEF WorkerInv

(* Nothing the worker's invariant speaks of changes.                       *)
LEMMA FrameKeeps ==
  ASSUME WorkerInv,
         UNCHANGED <<env, token, pending, inFlight, execution>>,
         \A w \in Workers : pending[w] # None => pump'[w] = pump[w]
  PROVE  WorkerInv'
<1>1. Counted'
  BY DEF WorkerInv, Counted, InFlight, Tokens
<1>2. Awaited'
  BY DEF WorkerInv, Awaited
<1>3. CheckedLimited'
  BY DEF WorkerInv, CheckedLimited, Limited, QueueOf, Tokens
<1> QED BY <1>1, <1>2, <1>3 DEF WorkerInv

(* The rate-limit store keeps sequences of timestamps.                     *)
LEMMA HitType ==
  ASSUME NEW ts \in Seq(Nat), NEW at \in Nat, NEW windowMs \in Nat
  PROVE  hit(ts, at, windowMs) \in Seq(Nat)
<1> DEFINE n == Len(ts)
           kept == {i \in DOMAIN ts : \E j \in 1..i : ts[j] >= at - windowMs}
           first == n - Cardinality(kept) + 1
<1>1. n \in Nat /\ DOMAIN ts = 1..n /\ \A i \in 1..n : ts[i] \in Nat
  OBVIOUS
<1>2. Cardinality(kept) \in Nat /\ Cardinality(kept) <= n
  <2>1. kept \in SUBSET (1..n)
    BY <1>1
  <2>2. \A m \in Nat : IsFiniteSet(1..m) /\ Cardinality(1..m) = m
    BY FS_Interval
  <2> HIDE DEF kept, n
  <2>3. IsFiniteSet(1..n) /\ Cardinality(1..n) = n
    BY <1>1, <2>2
  <2>4. IsFiniteSet(kept) /\ Cardinality(kept) <= n
    BY <2>1, <2>3, FS_Subset
  <2> QED BY <2>4, FS_CardinalityType
<1>3. prune(ts, at - windowMs) = SubSeq(ts, first, n)
  BY DEF prune
<1>4. SubSeq(ts, first, n) \in Seq(Nat)
  <2> HIDE DEF kept, n
  <2>1. first \in Int /\ n \in Int /\ \A i \in first..n : ts[i] \in Nat
    BY <1>1, <1>2
  <2> HIDE DEF first
  <2> QED BY <2>1, SubSeqProperties
<1>5. prune(ts, at - windowMs) \in Seq(Nat)
  BY <1>3, <1>4
<1>6. Append(prune(ts, at - windowMs), at) \in Seq(Nat)
  BY <1>5, AppendProperties
<1> HIDE DEF kept, first, n
<1> QED BY <1>5, <1>6 DEF hit

(* The parts of the state an execution's own steps leave alone.            *)
LEMMA SameTypes ==
  ASSUME TypeOK, UNCHANGED <<now, facadeVars, driverVars, token>>
  PROVE  DriverTypeOK' /\ FacadeTypeOK'
<1>1. Envelopes' = Envelopes /\ Tokens' = Tokens
  BY DEF Envelopes, Tokens, facadeVars
<1> QED BY <1>1 DEF TypeOK, DriverTypeOK, FacadeTypeOK, facadeVars, driverVars

LEMMA SameLeases ==
  ASSUME TypeOK, LeaseAgrees, OneHome, UNCHANGED driverVars,
         NEW t \in Tokens, Moves(t),
         t \in {r.token : r \in reserved} => execution'[t].phase \in Unsettled
  PROVE  LeaseAgrees' /\ OneHome'
<1>1. reserved' = reserved /\ ready' = ready /\ delayed' = delayed
  BY DEF driverVars
<1>2. \A r \in reserved : r.token \in Tokens
  BY DEF TypeOK, DriverTypeOK, LeaseRecord
<1>3. LeaseAgrees'
  BY <1>1, <1>2 DEF LeaseAgrees, Moves
<1>4. OneHome'
  BY <1>1 DEF OneHome
<1> QED BY <1>3, <1>4

(* Steps of an execution that make no driver call.                         *)
LEMMA QuietStep ==
  ASSUME IInv, NEW t \in Tokens, UNCHANGED systemVars,
         RateCount(t) \/ RateHit(t) \/ StartHandler(t) \/ LateReturn(t)
  PROVE  IInv'
<1> USE DEF IInv
<1>t. /\ execution \in [Tokens -> Execution(Envelopes)]
      /\ execution[t] \in Execution(Envelopes)
      /\ env[execution[t].env] \in Envelope /\ QueueOf(t) \in Queues
      /\ now \in Nat /\ hits \in [Queues -> Seq(Nat)]
  BY DEF TypeOK, WorkerTypeOK, DriverTypeOK, Execution, QueueOf, Envelope
<1>u. UNCHANGED <<now, facadeVars, driverVars, running, pump, pending, inFlight,
                  token, stopped, systemVars>>
  BY DEF RateCount, RateHit, StartHandler, LateReturn
<1>v. Tokens' = Tokens /\ Envelopes' = Envelopes
  BY <1>u DEF Tokens, Envelopes, facadeVars
<1>1. /\ Moves(t)
      /\ execution[t].phase \in InFlightPhase <=> execution'[t].phase \in InFlightPhase
      /\ execution[t].phase # "reserved" => execution'[t].phase # "reserved"
      /\ execution[t].phase = "reserved" => execution'[t].phase = "reserved"
      /\ execution[t].phase \in Unsettled => execution'[t].phase \in Unsettled
      /\ execution'[t].phase \in {"underQuota", "overQuota"} => Limited(t)
      /\ hits' \in [Queues -> Seq(Nat)]
  <2> USE DEF InFlightPhase, WaitPhase, CallPhase, DonePhase, Phase, Unsettled
  <2>1. CASE RateCount(t)
    BY <2>1, <1>t DEF RateCount, Moves, Execution
  <2>2. CASE RateHit(t)
    <3>1. Limited(t) /\ RateLimits[QueueOf(t)].windowMs \in Nat /\ execution[t].at \in Nat
      BY <2>2, <1>t, WorkerAssumption DEF RateHit, WorkerInv, CheckedLimited, Limited, Execution
    <3>2. hit(hits[QueueOf(t)], execution[t].at, RateLimits[QueueOf(t)].windowMs) \in Seq(Nat)
      BY <3>1, <1>t, HitType
    <3>3. hits' \in [Queues -> Seq(Nat)]
      BY <2>2, <3>2, <1>t DEF RateHit
    <3> QED BY <2>2, <3>3, <1>t DEF RateHit, Moves, Execution, To
  <2>3. CASE StartHandler(t)
    BY <2>3, <1>t DEF StartHandler, Moves, Execution, Admitted
  <2>4. CASE LateReturn(t)
    BY <2>4, <1>t DEF LateReturn, Moves, Execution, WorkerInv, CheckedLimited
  <2> QED BY <2>1, <2>2, <2>3, <2>4
<1>2. TypeOK'
  <2>1. WorkerTypeOK'
    BY <1>1, <1>u, <1>v DEF TypeOK, WorkerTypeOK, Moves
  <2>2. DriverTypeOK' /\ FacadeTypeOK'
    BY <1>u, SameTypes
  <2> QED BY <2>1, <2>2, <1>u DEF TypeOK, SystemTypeOK, systemVars
<1>3. WorkerInv'
  BY <1>1, <1>u, MoveKeeps DEF facadeVars
<1>4. LeaseAgrees' /\ OneHome'
  <2>1. t \in {r.token : r \in reserved} => execution'[t].phase \in Unsettled
    BY <1>1 DEF LeaseAgrees
  <2> QED BY <2>1, <1>1, <1>u, SameLeases
<1> QED BY <1>2, <1>3, <1>4

(* What the steps that end in a driver call on reservation t have in       *)
(* common: the lease goes if it is still there, the job goes to the delayed *)
(* heap only if it was, and a dead letter may be written either way.       *)
Releases(t) ==
  /\ reserved' = WithoutToken(t)
  /\ ready' = ready
  /\ \/ delayed' = delayed
     \/ /\ Holds(t)
        /\ \E n \in Nat :
             delayed' = delayed \cup {[env |-> execution[t].env, runAt |-> n]}
  /\ \/ dead' = dead
     \/ dead' = dead \cup {[token |-> t, env |-> execution[t].env,
                            attempts |-> attempts[execution[t].env]]}
  /\ attempts' \in [Envelopes -> Int]
  /\ execution[t].phase \in InFlightPhase /\ execution'[t].phase \in CallPhase
  /\ Moves(t)
  /\ UNCHANGED <<now, facadeVars, running, pump, pending, inFlight, token,
                 hits, stopped, systemVars>>

LEMMA FailureReleases ==
  ASSUME IInv, NEW t \in Tokens, NEW alive \in BOOLEAN, UNCHANGED systemVars,
         execution[t].phase = "running", handleFailure(t, alive)
  PROVE  Releases(t)
<1> DEFINE s == execution[t].env
<1>t. /\ execution \in [Tokens -> Execution(Envelopes)]
      /\ execution[t] \in Execution(Envelopes) /\ s \in Envelopes
      /\ attempts \in [Envelopes -> Int] /\ now \in Nat
  BY DEF IInv, TypeOK, WorkerTypeOK, DriverTypeOK, Execution
<1>1. /\ Moves(t) /\ execution[t].phase \in InFlightPhase /\ execution'[t].phase \in CallPhase
      /\ UNCHANGED <<now, facadeVars, running, pump, pending, inFlight, token,
                     hits, stopped, systemVars>>
  BY <1>t DEF handleFailure, Moves, Execution, Phase, InFlightPhase, CallPhase
<1>2. CASE moveToDeadLetter(t, s)
  BY <1>1, <1>2, <1>t DEF Releases, moveToDeadLetter
<1>3. CASE (\E d \in computeBackoffDelay(attempts[s]) : nack(t, s, now + d)) /\ UNCHANGED attempts
  <2>1. PICK d \in computeBackoffDelay(attempts[s]) : nack(t, s, now + d)
    BY <1>3
  <2>2. d \in 0..MaxBackoff
    BY DEF computeBackoffDelay, applyJitter
  <2>3. now + d \in Nat
    BY <2>2, <1>t
  <2> QED BY <1>1, <1>3, <2>1, <2>3, <1>t DEF Releases, nack
<1> QED BY <1>2, <1>3 DEF handleFailure

LEMMA DriverCallReleases ==
  ASSUME IInv, NEW t \in Tokens, UNCHANGED systemVars,
         \/ RateDefer(t) \/ NoHandler(t) \/ HandlerSucceeds(t)
         \/ HandlerFails(t) \/ HandlerTimesOut(t)
  PROVE  Releases(t)
<1> DEFINE s == execution[t].env
<1>t. /\ execution \in [Tokens -> Execution(Envelopes)]
      /\ execution[t] \in Execution(Envelopes) /\ s \in Envelopes
      /\ attempts \in [Envelopes -> Int] /\ QueueOf(t) \in Queues
  BY DEF IInv, TypeOK, WorkerTypeOK, DriverTypeOK, Execution, QueueOf, Envelope
<1> USE DEF Phase, InFlightPhase, CallPhase, WaitPhase
<1>1. CASE RateDefer(t)
  <2>1. /\ RateLimits[QueueOf(t)].windowMs \in Nat /\ execution[t].at \in Nat
    BY <1>1, <1>t, WorkerAssumption
       DEF RateDefer, IInv, WorkerInv, CheckedLimited, Limited, Execution
  <2>2. execution[t].at + RateLimits[QueueOf(t)].windowMs \in Nat
    BY <2>1
  <2>3. attempts' \in [Envelopes -> Int]
    BY <1>1, <1>t DEF RateDefer
  <2>4. Moves(t) /\ execution'[t].phase = "deferring"
    BY <1>1, <1>t DEF RateDefer, To, Moves, Execution
  <2> QED BY <1>1, <2>2, <2>3, <2>4 DEF RateDefer, Releases, nack
<1>2. CASE NoHandler(t)
  <2>1. Moves(t) /\ execution'[t].phase = "deadLettering"
    BY <1>2, <1>t DEF NoHandler, To, Moves, Execution
  <2> QED BY <1>2, <1>t, <2>1 DEF NoHandler, Admitted, Releases, moveToDeadLetter
<1>3. CASE HandlerSucceeds(t)
  <2>1. Moves(t) /\ execution'[t].phase = "acking"
    BY <1>3, <1>t DEF HandlerSucceeds, Moves, Execution
  <2> QED BY <1>3, <1>t, <2>1 DEF HandlerSucceeds, Releases, ack
<1>4. CASE HandlerFails(t)
  BY <1>4, FailureReleases DEF HandlerFails
<1>5. CASE HandlerTimesOut(t)
  BY <1>5, FailureReleases DEF HandlerTimesOut
<1> QED BY <1>1, <1>2, <1>3, <1>4, <1>5

LEMMA ReleaseKeeps ==
  ASSUME IInv, NEW t \in Tokens, Releases(t)
  PROVE  IInv'
<1> DEFINE s == execution[t].env
<1>t. /\ Tokens' = Tokens /\ Envelopes' = Envelopes /\ s \in Envelopes /\ env' = env
      /\ attempts \in [Envelopes -> Int]
  BY DEF Releases, Tokens, Envelopes, facadeVars, IInv, TypeOK, WorkerTypeOK,
         DriverTypeOK, Execution
<1>r. reserved' \subseteq reserved /\ \A r \in reserved' : r.token # t
  BY DEF Releases, WithoutToken
<1>1. TypeOK'
  <2>1. delayed' \subseteq DelayedEntry(Envelopes)
    BY <1>t DEF Releases, IInv, TypeOK, DriverTypeOK, DelayedEntry
  <2>2. dead' \subseteq DeadLetterRecord(Envelopes, Tokens)
    <3>1. [token |-> t, env |-> s, attempts |-> attempts[s]] \in DeadLetterRecord(Envelopes, Tokens)
      BY <1>t DEF DeadLetterRecord
    <3> QED BY <3>1 DEF Releases, IInv, TypeOK, DriverTypeOK
  <2>3. DriverTypeOK'
    BY <1>t, <1>r, <2>1, <2>2 DEF Releases, IInv, TypeOK, DriverTypeOK
  <2>4. FacadeTypeOK'
    BY <1>t DEF Releases, IInv, TypeOK, FacadeTypeOK, facadeVars
  <2>5. WorkerTypeOK'
    BY <1>t DEF Releases, IInv, TypeOK, WorkerTypeOK, Moves
  <2> QED BY <2>3, <2>4, <2>5 DEF Releases, IInv, TypeOK, SystemTypeOK, systemVars
<1>2. WorkerInv'
  BY MoveKeeps DEF IInv, Releases, facadeVars, InFlightPhase, CallPhase, WaitPhase
<1>3. LeaseAgrees'
  <2>1. \A r \in reserved : r.token \in Tokens
    BY DEF IInv, TypeOK, DriverTypeOK, LeaseRecord
  <2> QED BY <1>r, <2>1 DEF IInv, LeaseAgrees, Releases, Moves
<1>4. OneHome'
  <2>1. CASE delayed' = delayed
    BY <1>r, <2>1 DEF IInv, OneHome, Releases
  <2>2. CASE Holds(t) /\ \E n \in Nat : delayed' = delayed \cup {[env |-> s, runAt |-> n]}
    <3>1. PICK r \in reserved : r.token = t
      BY <2>2 DEF Holds
    <3>2. r.env = s
      BY <3>1 DEF IInv, LeaseAgrees
    <3>3. s \notin ready /\ (\A d \in delayed : d.env # s) /\ \A x \in reserved' : x.env # s
      BY <1>r, <3>1, <3>2 DEF IInv, OneHome
    <3>4. PICK n \in Nat : delayed' = delayed \cup {[env |-> s, runAt |-> n]}
      BY <2>2
    <3> QED BY <1>r, <3>3, <3>4 DEF IInv, OneHome, Releases
  <2> QED BY <2>1, <2>2 DEF Releases
<1> QED BY <1>1, <1>2, <1>3, <1>4 DEF IInv

(* An execution that is over frees its slot.                               *)
LEMMA FinishKeeps ==
  ASSUME IInv, NEW t \in Tokens, UNCHANGED systemVars, Finish(t)
  PROVE  IInv'
<1> DEFINE e == execution[t]
<1>v. PICK v : v = execution[t].worker
  OBVIOUS
<1>t. /\ execution \in [Tokens -> Execution(Envelopes)]
      /\ e \in Execution(Envelopes) /\ v \in Workers /\ e.env \in Envelopes
      /\ inFlight \in [Workers -> Nat] /\ token \in Nat
      /\ activeDedupeKeys \in [Queues \X DedupeKeys -> Nat \cup {None}]
      /\ env \in [Envelopes -> Envelope]
  BY <1>v DEF IInv, TypeOK, WorkerTypeOK, DriverTypeOK, FacadeTypeOK, Execution
<1>u. /\ e.phase \in CallPhase
      /\ UNCHANGED <<now, seq, env, admin, driverVars, running, pump, pending,
                     token, hits, stopped, systemVars>>
      /\ inFlight' = [inFlight EXCEPT ![v] = @ - 1]
      /\ Tokens' = Tokens /\ Envelopes' = Envelopes
  BY <1>v DEF Finish, Tokens, Envelopes
<1>1. Moves(t) /\ execution'[t].phase \in DonePhase
  BY <1>t, <1>u DEF Finish, To, Finished, Moves, Execution, Phase, DonePhase, CallPhase
<1>2. /\ InFlight(v)' = InFlight(v) \ {t} /\ t \in InFlight(v)
      /\ \A w \in Workers \ {v} : InFlight(w)' = InFlight(w)
  BY <1>v, <1>t, <1>u, <1>1 DEF InFlight, Moves, InFlightPhase, CallPhase, DonePhase, WaitPhase
<1>3. Cardinality(InFlight(v)') = Cardinality(InFlight(v)) - 1
  <2>1. IsFiniteSet(InFlight(v))
    BY <1>t, InFlightFinite
  <2> QED BY <1>2, <2>1, FS_RemoveElement
<1>4. inFlight[v] \in Nat /\ inFlight[v] = Cardinality(InFlight(v)) /\ inFlight[v] - 1 \in Nat
  <2>1. IsFiniteSet(InFlight(v)) /\ InFlight(v) # {}
    BY <1>t, <1>2, InFlightFinite
  <2>2. Cardinality(InFlight(v)) # 0
    BY <2>1, FS_EmptySet
  <2>3. inFlight[v] = Cardinality(InFlight(v))
    BY <1>t DEF IInv, WorkerInv, Counted
  <2> QED BY <1>t, <2>2, <2>3
<1>5. TypeOK'
  <2>1. activeDedupeKeys' \in [Queues \X DedupeKeys -> Nat \cup {None}]
    <3>1. releaseDedupeKey(e.env) \in [Queues \X DedupeKeys -> Nat \cup {None}]
      BY <1>t DEF releaseDedupeKey
    <3> QED BY <1>t, <3>1 DEF Finish
  <2>2. WorkerTypeOK'
    <3>1. inFlight' \in [Workers -> Nat]
      BY <1>t, <1>u, <1>4
    <3> QED BY <3>1, <1>u, <1>1 DEF IInv, TypeOK, WorkerTypeOK, Moves
  <2>3. DriverTypeOK'
    BY <1>u DEF IInv, TypeOK, DriverTypeOK, driverVars
  <2>4. FacadeTypeOK'
    BY <1>u, <2>1 DEF IInv, TypeOK, FacadeTypeOK
  <2> QED BY <1>u, <2>2, <2>3, <2>4 DEF IInv, TypeOK, SystemTypeOK, systemVars
<1>6. WorkerInv'
  <2>1. Counted'
    <3> SUFFICES ASSUME NEW w \in Workers
                 PROVE  /\ inFlight'[w] = Cardinality(InFlight(w)')
                        /\ inFlight'[w] <= Concurrency[w]
      BY DEF Counted
    <3>1. Concurrency[w] \in Nat /\ inFlight[w] <= Concurrency[w]
          /\ inFlight[w] = Cardinality(InFlight(w))
      BY WorkerAssumption DEF IInv, WorkerInv, Counted
    <3>2. CASE w = v
      BY <1>t, <1>u, <1>3, <1>4, <3>1, <3>2
    <3>3. CASE w # v
      BY <1>t, <1>u, <1>2, <3>1, <3>3
    <3> QED BY <3>2, <3>3
  <2>2. Awaited'
    <3> SUFFICES ASSUME NEW w \in Workers, pending'[w] # None
                 PROVE  /\ pump'[w] = "reserving"
                        /\ execution'[pending'[w]].phase = "reserved"
                        /\ execution'[pending'[w]].worker = w
                        /\ inFlight'[w] < Concurrency[w]
      BY DEF Awaited
    <3>1. /\ pending'[w] = pending[w] /\ pump'[w] = pump[w]
          /\ pending[w] \in Tokens
          /\ pump[w] = "reserving" /\ execution[pending[w]].phase = "reserved"
          /\ execution[pending[w]].worker = w
          /\ inFlight[w] < Concurrency[w] /\ Concurrency[w] \in Nat /\ inFlight[w] \in Nat
      <4>1. pending'[w] = pending[w] /\ pump'[w] = pump[w]
        BY <1>u
      <4>2. pending[w] \in Tokens /\ Concurrency[w] \in Nat /\ inFlight[w] \in Nat
        BY <4>1, <1>t, WorkerAssumption DEF IInv, TypeOK, WorkerTypeOK
      <4> QED BY <4>1, <4>2 DEF IInv, WorkerInv, Awaited
    <3>2. pending[w] # t
      BY <1>u, <3>1 DEF CallPhase
    <3>3. inFlight'[w] <= inFlight[w]
      BY <1>t, <1>u, <3>1
    <3>4. inFlight'[w] < Concurrency[w]
      BY <1>t, <1>u, <3>1
    <3> QED BY <1>1, <3>1, <3>2, <3>4 DEF Moves
  <2>3. CheckedLimited'
    BY <1>u, <1>1 DEF IInv, WorkerInv, CheckedLimited, Limited, QueueOf, Moves, DonePhase
  <2> QED BY <2>1, <2>2, <2>3 DEF WorkerInv
<1>7. LeaseAgrees' /\ OneHome'
  <2>1. t \in {r.token : r \in reserved} => execution'[t].phase \in Unsettled
    BY <1>u DEF IInv, LeaseAgrees, Unsettled, CallPhase, WaitPhase
  <2> QED BY <1>1, <1>u, <2>1, SameLeases DEF IInv
<1> QED BY <1>5, <1>6, <1>7 DEF IInv

(* Steps that change neither executions nor envelopes: they keep the       *)
(* invariant if they keep the types, and the driver's places.              *)
LEMMA AsideKeeps ==
  ASSUME IInv, TypeOK',
         UNCHANGED <<env, token, pending, inFlight, execution>>,
         \A w \in Workers : pending[w] # None => pump'[w] = pump[w],
         UNCHANGED <<ready, delayed, reserved>>
  PROVE  IInv'
<1>1. WorkerInv'
  BY FrameKeeps DEF IInv
<1>2. LeaseAgrees' /\ OneHome'
  BY DEF IInv, LeaseAgrees, OneHome
<1> QED BY <1>1, <1>2 DEF IInv

LEMMA ControlKeeps ==
  ASSUME IInv,
         \/ Tick \/ Close \/ CloseDrained
         \/ /\ \E w \in Workers : PumpGate(w) \/ PumpNull(w) \/ Start(w) \/ Stop(w)
            /\ UNCHANGED systemVars
  PROVE  IInv'
<1>u. UNCHANGED <<facadeVars, driverVars, pending, inFlight, token, execution, hits,
                  discarded>>
  BY DEF Tick, Close, CloseDrained, PumpGate, PumpNull, Start, Stop, workerVars, systemVars
<1>v. Tokens' = Tokens /\ Envelopes' = Envelopes
  BY <1>u DEF Tokens, Envelopes, facadeVars
<1>i. \A w : InFlight(w) \in SUBSET Tokens
  BY DEF InFlight
<1>1. now' \in Nat
  BY DEF IInv, TypeOK, DriverTypeOK, Tick, Close, CloseDrained, PumpGate, PumpNull, Start, Stop
<1> DEFINE Goal ==
      /\ running' \in [Workers -> BOOLEAN]
      /\ pump' \in [Workers -> {"unready", "gate", "idle", "reserving"}]
      /\ stopped' \in [Workers -> (SUBSET Tokens) \cup {None}]
      /\ closing' \in {"open", "draining", "closed"}
      /\ \A w \in Workers : pending[w] # None => pump'[w] = pump[w]
<1>2. Goal
  <2>t. /\ running \in [Workers -> BOOLEAN]
        /\ pump \in [Workers -> {"unready", "gate", "idle", "reserving"}]
        /\ stopped \in [Workers -> (SUBSET Tokens) \cup {None}]
        /\ closing \in {"open", "draining", "closed"}
        /\ \A w \in Workers : pending[w] # None => pump[w] = "reserving"
    BY DEF IInv, TypeOK, WorkerTypeOK, SystemTypeOK, WorkerInv, Awaited
  <2>1. CASE Tick \/ CloseDrained
    BY <2>1, <2>t DEF Tick, CloseDrained, workerVars, systemVars
  <2>2. CASE Close
    BY <2>2, <2>t, <1>i DEF Close
  <2>3. ASSUME NEW w \in Workers, UNCHANGED systemVars, PumpGate(w) \/ PumpNull(w)
        PROVE  Goal
    BY <2>3, <2>t DEF PumpGate, PumpNull, systemVars
  <2>4. ASSUME NEW w \in Workers, UNCHANGED systemVars, Start(w) \/ Stop(w)
        PROVE  Goal
    <3>1. \E S \in (SUBSET Tokens) \cup {None} : stopped' = [stopped EXCEPT ![w] = S]
      BY <2>4, <1>i DEF Start, Stop
    <3>2. stopped' \in [Workers -> (SUBSET Tokens) \cup {None}]
      BY <3>1, <2>t
    <3>3. running' \in [Workers -> BOOLEAN] /\ pump' = pump /\ closing' = closing
      BY <2>4, <2>t DEF Start, Stop, systemVars
    <3> QED BY <3>2, <3>3, <2>t
  <2> QED BY <2>1, <2>2, <2>3, <2>4
<1>3. TypeOK'
  <2>1. DriverTypeOK' /\ FacadeTypeOK'
    BY <1>u, <1>v, <1>1 DEF IInv, TypeOK, DriverTypeOK, FacadeTypeOK, facadeVars, driverVars
  <2>2. WorkerTypeOK' /\ SystemTypeOK'
    BY <1>u, <1>v, <1>2 DEF IInv, TypeOK, WorkerTypeOK, SystemTypeOK
  <2> QED BY <2>1, <2>2 DEF TypeOK
<1> QED BY <1>u, <1>2, <1>3, AsideKeeps DEF facadeVars, driverVars

(* A new envelope goes to one of the heaps, where its seq cannot be yet.   *)
Adds(e) ==
  /\ seq < MaxSeq
  /\ AddEnvelope(e)
  /\ \/ ready' = ready \cup {seq} /\ delayed' = delayed
     \/ /\ ready' = ready
        /\ \E n \in Nat : delayed' = delayed \cup {[env |-> seq, runAt |-> n]}
  /\ UNCHANGED <<now, reserved, dead, workerVars, systemVars>>
  /\ activeDedupeKeys' \in [Queues \X DedupeKeys -> Nat \cup {None}]
  /\ admin' \in [Admins -> AdminState(Envelopes, Tokens)]

LEMMA AddKeeps ==
  ASSUME IInv, NEW e \in Envelope, Adds(e)
  PROVE  IInv'
<1>t. /\ seq \in Nat /\ now \in Nat /\ env \in [Envelopes -> Envelope]
      /\ attempts \in [Envelopes -> Int] /\ ready \subseteq Envelopes
      /\ delayed \subseteq DelayedEntry(Envelopes)
      /\ reserved \subseteq LeaseRecord(Envelopes, Tokens)
      /\ dead \subseteq DeadLetterRecord(Envelopes, Tokens)
      /\ execution \in [Tokens -> Execution(Envelopes)]
  BY DEF IInv, TypeOK, DriverTypeOK, FacadeTypeOK, WorkerTypeOK
<1>u. /\ Envelopes' = 0..seq /\ Envelopes \subseteq Envelopes' /\ seq \in Envelopes'
      /\ seq \notin Envelopes /\ Tokens' = Tokens /\ seq' \in Nat
  BY <1>t DEF Adds, AddEnvelope, Envelopes, Tokens, workerVars
<1>m. /\ DelayedEntry(Envelopes) \subseteq DelayedEntry(Envelopes')
      /\ LeaseRecord(Envelopes, Tokens) \subseteq LeaseRecord(Envelopes', Tokens')
      /\ DeadLetterRecord(Envelopes, Tokens) \subseteq DeadLetterRecord(Envelopes', Tokens')
      /\ Execution(Envelopes) \subseteq Execution(Envelopes')
      /\ AdminState(Envelopes, Tokens) \subseteq AdminState(Envelopes', Tokens')
  BY <1>u, TypeMonotone
<1>e. /\ env' \in [Envelopes' -> Envelope] /\ attempts' \in [Envelopes' -> Int]
      /\ \A s \in Envelopes : env'[s] = env[s]
  BY <1>t, <1>u DEF Adds, AddEnvelope, Envelopes
<1>1. DriverTypeOK'
  <2>1. \A n \in Nat : [env |-> seq, runAt |-> n] \in DelayedEntry(Envelopes')
    BY <1>u DEF DelayedEntry
  <2>2. ready' \subseteq Envelopes' /\ delayed' \subseteq DelayedEntry(Envelopes')
    BY <1>t, <1>u, <1>m, <2>1 DEF Adds
  <2> QED BY <1>t, <1>e, <1>m, <2>2 DEF DriverTypeOK, Adds
<1>2. FacadeTypeOK'
  BY <1>u, <1>m DEF FacadeTypeOK, Adds
<1>3. WorkerTypeOK' /\ SystemTypeOK'
  BY <1>t, <1>u, <1>m DEF IInv, TypeOK, WorkerTypeOK, SystemTypeOK, Adds, workerVars, systemVars
<1>4. WorkerInv'
  <2>1. Counted' /\ Awaited'
    BY SMTT(30) DEF IInv, WorkerInv, Counted, Awaited, InFlight, Tokens, Adds, workerVars
  <2>2. \A t \in Tokens : execution'[t] = execution[t] /\ env'[execution[t].env] = env[execution[t].env]
    BY <1>t, <1>e DEF Execution, Adds, workerVars
  <2>3. CheckedLimited'
    BY <1>u, <2>2 DEF IInv, WorkerInv, CheckedLimited, Limited, QueueOf
  <2> QED BY <2>1, <2>3 DEF WorkerInv
<1>5. LeaseAgrees'
  BY DEF IInv, LeaseAgrees, Adds, workerVars
<1>6. OneHome'
  <2>1. /\ seq \notin ready
        /\ \A d \in delayed : d.env # seq
        /\ \A r \in reserved : r.env # seq
    BY <1>t, <1>u DEF DelayedEntry, LeaseRecord
  <2> QED BY <2>1 DEF IInv, OneHome, Adds
<1> QED BY <1>1, <1>2, <1>3, <1>4, <1>5, <1>6 DEF IInv, TypeOK

LEMMA DispatchAddsThis ==
  ASSUME IInv, NEW o \in JobOptions, Dispatch(o), UNCHANGED <<workerVars, systemVars>>
  PROVE  \E e \in Envelope : Adds(e) /\ e = buildEnvelope(o)
<1>1. o \in JobOption
  BY FacadeAssumption
<1>t. /\ seq \in Nat /\ now \in Nat
      /\ activeDedupeKeys \in [Queues \X DedupeKeys -> Nat \cup {None}]
      /\ admin \in [Admins -> AdminState(Envelopes, Tokens)]
  BY DEF IInv, TypeOK, DriverTypeOK, FacadeTypeOK
<1>2. buildEnvelope(o) \in Envelope
  BY <1>1, <1>t DEF buildEnvelope, JobOption, Envelope
<1>3. now + o.delay \in Nat
  BY <1>1, <1>t DEF JobOption
<1>4. activeDedupeKeys' \in [Queues \X DedupeKeys -> Nat \cup {None}]
  BY <1>1, <1>t DEF Dispatch
<1>5. Adds(buildEnvelope(o))
  <2>1. CASE now + o.delay > now
    BY <1>t, <1>3, <1>4, <2>1 DEF Dispatch, Adds, enqueueEnvelope, enqueueDelayed
  <2>2. CASE ~(now + o.delay > now)
    BY <1>t, <1>4, <2>2 DEF Dispatch, Adds, enqueueEnvelope, enqueue
  <2> QED BY <2>1, <2>2
<1> QED BY <1>2, <1>5

LEMMA DispatchAdds ==
  ASSUME IInv, NEW o \in JobOptions, Dispatch(o), UNCHANGED <<workerVars, systemVars>>
  PROVE  \E e \in Envelope : Adds(e)
BY DispatchAddsThis

LEMMA RetryEnqueueAddsThis ==
  ASSUME IInv, NEW a \in Admins, RetryEnqueue(a), UNCHANGED <<workerVars, systemVars>>
  PROVE  \E e \in Envelope : Adds(e) /\ e = rebuildEnvelope(admin[a].held)
<1>t. /\ admin \in [Admins -> AdminState(Envelopes, Tokens)]
      /\ activeDedupeKeys \in [Queues \X DedupeKeys -> Nat \cup {None}]
      /\ env \in [Envelopes -> Envelope]
  BY DEF IInv, TypeOK, DriverTypeOK, FacadeTypeOK
<1>1. admin[a].held.env \in Envelopes
  BY <1>t DEF RetryEnqueue, AdminState, DeadLetterRecord
<1>2. rebuildEnvelope(admin[a].held) \in Envelope
  BY <1>t, <1>1 DEF rebuildEnvelope, Envelope, DEFAULT_PRIORITY
<1>3. admin' \in [Admins -> AdminState(Envelopes, Tokens)]
  <2>1. [admin[a] EXCEPT !.held = None] \in AdminState(Envelopes, Tokens)
    BY <1>t DEF AdminState
  <2>2. admin' = [admin EXCEPT ![a] = [admin[a] EXCEPT !.held = None]]
    BY <1>t DEF RetryEnqueue
  <2> QED BY <1>t, <2>1, <2>2
<1>4. Adds(rebuildEnvelope(admin[a].held))
  BY <1>t, <1>3 DEF RetryEnqueue, Adds, enqueue
<1> QED BY <1>2, <1>4

LEMMA RetryEnqueueAdds ==
  ASSUME IInv, NEW a \in Admins, RetryEnqueue(a), UNCHANGED <<workerVars, systemVars>>
  PROVE  \E e \in Envelope : Adds(e)
BY RetryEnqueueAddsThis

(* The dead-letter API touches dead letters and its own bookkeeping only.  *)
LEMMA DeadLetterKeeps ==
  ASSUME IInv, NEW a \in Admins, UNCHANGED <<workerVars, systemVars>>,
         \/ \E d \in dead : DeadLetterRetry(a, d)
         \/ \E qs : DeadLetterRetryAll(a, qs)
         \/ \E r \in admin[a].todo : RetryAllTake(a, r)
  PROVE  IInv'
<1>t. /\ admin \in [Admins -> AdminState(Envelopes, Tokens)]
      /\ dead \subseteq DeadLetterRecord(Envelopes, Tokens)
      /\ admin[a].todo \subseteq DeadLetterRecord(Envelopes, Tokens)
      /\ admin[a].held \in DeadLetterRecord(Envelopes, Tokens) \cup {None}
  <2>1. /\ admin \in [Admins -> AdminState(Envelopes, Tokens)]
        /\ dead \subseteq DeadLetterRecord(Envelopes, Tokens)
    BY DEF IInv, TypeOK, DriverTypeOK, FacadeTypeOK
  <2> QED BY <2>1 DEF AdminState
<1>u. UNCHANGED <<now, seq, env, activeDedupeKeys, ready, delayed, reserved, attempts,
                  workerVars, systemVars>>
  BY DEF DeadLetterRetry, DeadLetterRetryAll, RetryAllTake, removeDeadLetter, driverVars
<1>v. Tokens' = Tokens /\ Envelopes' = Envelopes
  BY <1>u DEF Tokens, Envelopes, workerVars
<1>d. dead' \subseteq dead
  BY DEF DeadLetterRetry, DeadLetterRetryAll, RetryAllTake, removeDeadLetter, driverVars
<1>1. \E todo \in SUBSET DeadLetterRecord(Envelopes, Tokens),
         held \in DeadLetterRecord(Envelopes, Tokens) \cup {None} :
        admin' = [admin EXCEPT ![a] = [todo |-> todo, held |-> held]]
  <2>0. /\ \A x : [admin EXCEPT ![a].held = x] =
                   [admin EXCEPT ![a] = [todo |-> admin[a].todo, held |-> x]]
        /\ \A x : [admin EXCEPT ![a].todo = x] =
                   [admin EXCEPT ![a] = [todo |-> x, held |-> admin[a].held]]
    BY <1>t DEF AdminState
  <2>1. CASE \E d \in dead : DeadLetterRetry(a, d)
    <3>1. PICK d \in dead : DeadLetterRetry(a, d)
      BY <2>1
    <3>2. admin' = [admin EXCEPT ![a] = [todo |-> admin[a].todo, held |-> d]]
      BY <2>0, <3>1 DEF DeadLetterRetry
    <3>3. d \in DeadLetterRecord(Envelopes, Tokens)
      BY <1>t
    <3> QED BY <1>t, <3>2, <3>3
  <2>2. CASE \E qs : DeadLetterRetryAll(a, qs)
    <3>1. PICK qs : DeadLetterRetryAll(a, qs)
      BY <2>2
    <3>2. {d \in dead : env[d.env].queue \in qs} \in SUBSET DeadLetterRecord(Envelopes, Tokens)
      BY <1>t
    <3> QED BY <1>t, <2>0, <3>1, <3>2 DEF DeadLetterRetryAll
  <2>3. CASE \E r \in admin[a].todo : RetryAllTake(a, r)
    <3>1. PICK r \in admin[a].todo : RetryAllTake(a, r)
      BY <2>3
    <3>2. admin[a].todo \ {r} \in SUBSET DeadLetterRecord(Envelopes, Tokens)
      BY <1>t
    <3>3. CASE \E d \in dead : admin' = [admin EXCEPT ![a] = [todo |-> @.todo \ {r}, held |-> d]]
      BY <1>t, <3>2, <3>3
    <3>4. CASE admin' = [admin EXCEPT ![a].todo = @ \ {r}]
      BY <1>t, <2>0, <3>2, <3>4
    <3> QED BY <3>1, <3>3, <3>4 DEF RetryAllTake, removeDeadLetter
  <2> QED BY <2>1, <2>2, <2>3
<1>2. admin' \in [Admins -> AdminState(Envelopes, Tokens)]
  BY <1>t, <1>1 DEF AdminState
<1>3. TypeOK'
  <2>1. DriverTypeOK'
    BY <1>u, <1>v, <1>d, <1>t DEF IInv, TypeOK, DriverTypeOK
  <2>2. FacadeTypeOK'
    BY <1>u, <1>v, <1>2 DEF IInv, TypeOK, FacadeTypeOK
  <2>3. WorkerTypeOK' /\ SystemTypeOK'
    BY <1>u, <1>v DEF IInv, TypeOK, WorkerTypeOK, SystemTypeOK, workerVars, systemVars
  <2> QED BY <2>1, <2>2, <2>3 DEF TypeOK
<1> QED BY <1>u, <1>3, AsideKeeps DEF workerVars

LEMMA FlushKeeps ==
  ASSUME IInv, NEW qs, Flush(qs)
  PROVE  IInv'
<1>u. UNCHANGED <<now, seq, env, activeDedupeKeys, admin, ready, delayed, reserved,
                  attempts, workerVars, closing>>
  BY DEF Flush, DeadLetterFlush, flushDeadLetters
<1>v. Tokens' = Tokens /\ Envelopes' = Envelopes
  BY <1>u DEF Tokens, Envelopes, workerVars
<1>d. dead' \subseteq dead
  BY DEF Flush, DeadLetterFlush, flushDeadLetters
<1>1. discarded' \subseteq Nat
  <2>1. \A d \in dead : env[d.env].id \in Nat
    BY DEF IInv, TypeOK, DriverTypeOK, DeadLetterRecord, Envelope
  <2> QED BY <2>1 DEF Flush, IInv, TypeOK, SystemTypeOK
<1>2. TypeOK'
  <2>1. DriverTypeOK'
    BY <1>u, <1>v, <1>d DEF IInv, TypeOK, DriverTypeOK
  <2>2. FacadeTypeOK'
    BY <1>u, <1>v DEF IInv, TypeOK, FacadeTypeOK
  <2>3. WorkerTypeOK' /\ SystemTypeOK'
    BY <1>u, <1>v, <1>1 DEF IInv, TypeOK, WorkerTypeOK, SystemTypeOK, workerVars
  <2> QED BY <2>1, <2>2, <2>3 DEF TypeOK
<1> QED BY <1>u, <1>2, AsideKeeps DEF workerVars

(* Promotion and purging move jobs between, or out of, the heaps.          *)
LEMMA HeapsKeep ==
  ASSUME IInv, PromotionTick \/ \E qs : Purge(qs)
  PROVE  IInv'
<1>t. /\ env \in [Envelopes -> Envelope] /\ ready \subseteq Envelopes
      /\ delayed \subseteq DelayedEntry(Envelopes) /\ discarded \subseteq Nat
      /\ \A d \in delayed : d.env \in Envelopes
      /\ \A s \in Envelopes : env[s].id \in Nat
  <2>1. /\ env \in [Envelopes -> Envelope] /\ ready \subseteq Envelopes
        /\ delayed \subseteq DelayedEntry(Envelopes) /\ discarded \subseteq Nat
    BY DEF IInv, TypeOK, DriverTypeOK, SystemTypeOK
  <2> QED BY <2>1 DEF DelayedEntry, Envelope
<1>u. UNCHANGED <<now, facadeVars, reserved, dead, attempts, workerVars, closing>>
  BY DEF PromotionTick, promoteDue, Purge, purge, systemVars
<1>v. Tokens' = Tokens /\ Envelopes' = Envelopes
  BY <1>u DEF Tokens, Envelopes, workerVars, facadeVars
<1>1. /\ delayed' \subseteq delayed
      /\ ready' \subseteq ready \cup {d.env : d \in delayed \ delayed'}
      /\ discarded' \subseteq Nat
  <2>1. CASE PromotionTick
    <3>1. discarded' = discarded
      BY <2>1 DEF PromotionTick, systemVars
    <3>2. PICK due \in SUBSET delayed :
            delayed' = delayed \ due /\ ready' = ready \cup {d.env : d \in due}
      BY <2>1 DEF PromotionTick, promoteDue
    <3> QED BY <1>t, <3>1, <3>2
  <2>2. CASE \E qs : Purge(qs)
    BY <1>t, <2>2 DEF Purge, purge
  <2> QED BY <2>1, <2>2
<1>2. TypeOK'
  <2>1. DriverTypeOK'
    BY <1>t, <1>u, <1>v, <1>1 DEF IInv, TypeOK, DriverTypeOK, facadeVars
  <2>2. FacadeTypeOK'
    BY <1>u, <1>v DEF IInv, TypeOK, FacadeTypeOK, facadeVars
  <2>3. WorkerTypeOK' /\ SystemTypeOK'
    BY <1>u, <1>v, <1>1 DEF IInv, TypeOK, WorkerTypeOK, SystemTypeOK, workerVars
  <2> QED BY <2>1, <2>2, <2>3 DEF TypeOK
<1>3. WorkerInv'
  BY <1>u, FrameKeeps DEF IInv, workerVars, facadeVars
<1>4. LeaseAgrees'
  BY <1>u DEF IInv, LeaseAgrees, workerVars
<1>5. OneHome'
  BY <1>u, <1>1 DEF IInv, OneHome
<1> QED BY <1>2, <1>3, <1>4, <1>5 DEF IInv

(* What reclaiming expired leases leaves in the driver.                    *)
LEMMA ReclaimProperties ==
  ASSUME IInv
  PROVE  /\ reclaimExpiredLeases.ready \subseteq Envelopes
         /\ reclaimExpiredLeases.reserved \subseteq reserved
         /\ \A r \in reclaimExpiredLeases.reserved : r.env \notin reclaimExpiredLeases.ready
         /\ \A d \in delayed : d.env \notin reclaimExpiredLeases.ready
<1>1. /\ reserved \subseteq LeaseRecord(Envelopes, Tokens) /\ ready \subseteq Envelopes
      /\ \A r \in reserved : r.env \in Envelopes
  <2>1. reserved \subseteq LeaseRecord(Envelopes, Tokens) /\ ready \subseteq Envelopes
    BY DEF IInv, TypeOK, DriverTypeOK
  <2> QED BY <2>1 DEF LeaseRecord
<1>2. /\ reclaimExpiredLeases.ready = ready \cup {r.env : r \in Expired}
      /\ reclaimExpiredLeases.reserved = reserved \ Expired
      /\ Expired \subseteq reserved
  BY DEF reclaimExpiredLeases, Expired
<1> QED BY <1>1, <1>2 DEF IInv, OneHome

(* The executions and the count of jobs in flight as pump's loop finds     *)
(* them when it comes to its test: the invariant, but for what the worker  *)
(* itself awaits.                                                          *)
Flying(exs, w) == {t \in Tokens : exs[t].worker = w /\ exs[t].phase \in InFlightPhase}

AtTest(w, exs, fl) ==
  /\ exs \in [Tokens -> Execution(Envelopes)]
  /\ fl \in [Workers -> Nat]
  /\ \A v \in Workers : fl[v] = Cardinality(Flying(exs, v)) /\ fl[v] <= Concurrency[v]
  /\ \A v \in Workers \ {w} : pending[v] # None =>
       /\ pump[v] = "reserving"
       /\ exs[pending[v]].phase = "reserved"
       /\ exs[pending[v]].worker = v
       /\ fl[v] < Concurrency[v]
  /\ \A t \in Tokens : exs[t].phase \in {"underQuota", "overQuota"} =>
       RateLimits[env[exs[t].env].queue] # None
  /\ \A r \in reserved : exs[r.token].env = r.env /\ exs[r.token].phase \in Unsettled

(* pump goes on without a job: its executions are as they were.            *)
LEMMA NoReservationKeeps ==
  ASSUME IInv, NEW w \in Workers, NEW exs, NEW fl, AtTest(w, exs, fl),
         NEW where \in {"idle", "reserving"},
         pump' = [pump EXCEPT ![w] = where],
         pending' = [pending EXCEPT ![w] = None],
         execution' = exs, inFlight' = fl,
         reserveNull(WorkerQueues[w]) \/ UNCHANGED driverVars,
         UNCHANGED <<now, facadeVars, running, token, hits, stopped, systemVars>>
  PROVE  IInv'
<1>v. Tokens' = Tokens /\ Envelopes' = Envelopes
  BY DEF Tokens, Envelopes, facadeVars
<1>w. /\ pending \in [Workers -> Tokens \cup {None}]
      /\ pump \in [Workers -> {"unready", "gate", "idle", "reserving"}]
  BY DEF IInv, TypeOK, WorkerTypeOK
<1>d. /\ ready' \subseteq Envelopes /\ reserved' \subseteq reserved
      /\ UNCHANGED <<delayed, dead, attempts>>
      /\ \A r \in reserved' : r.env \notin ready'
      /\ \A d \in delayed : d.env \notin ready'
  <2>1. CASE reserveNull(WorkerQueues[w])
    BY <2>1, ReclaimProperties DEF reserveNull
  <2>2. CASE UNCHANGED driverVars
    BY <2>2 DEF driverVars, IInv, OneHome, TypeOK, DriverTypeOK
  <2> QED BY <2>1, <2>2
<1>1. TypeOK'
  <2>1. DriverTypeOK'
    BY <1>v, <1>d DEF IInv, TypeOK, DriverTypeOK, facadeVars
  <2>2. FacadeTypeOK'
    BY <1>v DEF IInv, TypeOK, FacadeTypeOK, facadeVars
  <2>3. /\ pending' \in [Workers -> Tokens \cup {None}]
        /\ pump' \in [Workers -> {"unready", "gate", "idle", "reserving"}]
    BY <1>w
  <2>4. WorkerTypeOK' /\ SystemTypeOK'
    BY <1>v, <2>3 DEF IInv, TypeOK, WorkerTypeOK, SystemTypeOK, systemVars, AtTest
  <2> QED BY <2>1, <2>2, <2>4 DEF TypeOK
<1>2. WorkerInv'
  <2>0. \A v \in Workers : InFlight(v)' = Flying(exs, v)
    BY <1>v DEF InFlight, Flying
  <2>1. Counted'
    BY <2>0 DEF AtTest, Counted
  <2>2. Awaited'
    BY <1>w DEF AtTest, Awaited
  <2>3. CheckedLimited'
    BY <1>v DEF AtTest, CheckedLimited, Limited, QueueOf, facadeVars
  <2> QED BY <2>1, <2>2, <2>3 DEF WorkerInv
<1>3. LeaseAgrees'
  BY <1>d DEF AtTest, LeaseAgrees
<1>4. OneHome'
  BY <1>d DEF IInv, OneHome
<1> QED BY <1>1, <1>2, <1>3, <1>4 DEF IInv

(* pump reserves a job: a new token, under which the job is leased.        *)
LEMMA ReservationKeeps ==
  ASSUME IInv, NEW w \in Workers, NEW exs, NEW fl, AtTest(w, exs, fl),
         fl[w] < Concurrency[w],
         pump' = [pump EXCEPT ![w] = "reserving"],
         NEW s \in Envelopes,
         reserveJob(WorkerQueues[w], VisibilityMs, token + 1, s),
         token' = token + 1,
         pending' = [pending EXCEPT ![w] = token + 1],
         execution' = [t \in 1..(token + 1) |->
                         IF t = token + 1
                         THEN [worker |-> w, env |-> s, phase |-> "reserved",
                               at |-> 0, handler |-> FALSE]
                         ELSE exs[t]],
         inFlight' = fl,
         UNCHANGED <<now, facadeVars, running, hits, stopped, systemVars>>
  PROVE  IInv'
<1>t. /\ token \in Nat /\ now \in Nat /\ now + VisibilityMs \in Nat
      /\ pending \in [Workers -> Tokens \cup {None}]
      /\ pump \in [Workers -> {"unready", "gate", "idle", "reserving"}]
      /\ attempts \in [Envelopes -> Int]
      /\ reserved \subseteq LeaseRecord(Envelopes, Tokens)
      /\ exs \in [Tokens -> Execution(Envelopes)]
  BY WorkerAssumption DEF IInv, TypeOK, WorkerTypeOK, DriverTypeOK, AtTest
<1>v. /\ Envelopes' = Envelopes /\ Tokens' = 1..(token + 1)
      /\ Tokens \subseteq Tokens' /\ token + 1 \in Tokens' /\ token + 1 \notin Tokens
      /\ Tokens' = Tokens \cup {token + 1}
  BY <1>t DEF Tokens, Envelopes, facadeVars
<1>m. /\ LeaseRecord(Envelopes, Tokens) \subseteq LeaseRecord(Envelopes', Tokens')
      /\ DeadLetterRecord(Envelopes, Tokens) \subseteq DeadLetterRecord(Envelopes', Tokens')
      /\ AdminState(Envelopes, Tokens) \subseteq AdminState(Envelopes', Tokens')
  BY <1>v, TypeMonotone
<1>n. PICK new : new = [token |-> token + 1, env |-> s, leaseExpiresAt |-> now + VisibilityMs]
  OBVIOUS
<1>d. PICK R, S :
        /\ S \subseteq Envelopes /\ R \subseteq reserved
        /\ \A r \in R : r.env \notin S
        /\ \A d \in delayed : d.env \notin S
        /\ s \in S /\ ready' = S \ {s} /\ reserved' = R \cup {new}
        /\ delayed' = delayed /\ dead' = dead
  BY <1>n, ReclaimProperties DEF reserveJob
<1>e. /\ \A t \in Tokens : execution'[t] = exs[t]
      /\ execution'[token + 1].worker = w
      /\ execution'[token + 1].env = s
      /\ execution'[token + 1].phase = "reserved"
      /\ execution' \in [Tokens' -> Execution(Envelopes)]
  <2>1. [worker |-> w, env |-> s, phase |-> "reserved", at |-> 0, handler |-> FALSE]
          \in Execution(Envelopes)
    BY DEF Execution, Phase
  <2>2. /\ \A t \in Tokens : execution'[t] = exs[t]
        /\ execution'[token + 1] = [worker |-> w, env |-> s, phase |-> "reserved",
                                    at |-> 0, handler |-> FALSE]
    BY <1>v
  <2>3. execution' \in [Tokens' -> Execution(Envelopes)]
    BY <1>t, <1>v, <2>1
  <2>4. /\ execution'[token + 1].worker = w
        /\ execution'[token + 1].env = s
        /\ execution'[token + 1].phase = "reserved"
    BY ONLY <2>2
  <2> QED BY ONLY <2>2, <2>3, <2>4
<1>1. TypeOK'
  <2>1. new \in LeaseRecord(Envelopes', Tokens')
    BY <1>n, <1>t, <1>v DEF LeaseRecord
  <2>2. attempts' \in [Envelopes -> Int]
    BY <1>t DEF reserveJob
  <2>3. reserved' \subseteq LeaseRecord(Envelopes', Tokens')
    BY <1>t, <1>m, <1>d, <2>1
  <2>4. DriverTypeOK'
    BY <1>v, <1>m, <1>d, <2>2, <2>3 DEF IInv, TypeOK, DriverTypeOK, facadeVars
  <2>5. FacadeTypeOK'
    BY <1>v, <1>m DEF IInv, TypeOK, FacadeTypeOK, facadeVars
  <2>6. /\ pending' \in [Workers -> Tokens' \cup {None}]
        /\ pump' \in [Workers -> {"unready", "gate", "idle", "reserving"}]
    BY <1>t, <1>v
  <2>7. stopped' \in [Workers -> (SUBSET Tokens') \cup {None}]
    BY <1>v DEF IInv, TypeOK, WorkerTypeOK
  <2>8. /\ running' \in [Workers -> BOOLEAN] /\ inFlight' \in [Workers -> Nat]
        /\ token' \in Nat /\ hits' \in [Queues -> Seq(Nat)]
    BY <1>t DEF IInv, TypeOK, WorkerTypeOK, AtTest
  <2>9. execution' \in [Tokens' -> Execution(Envelopes')]
    BY ONLY <1>e, <1>v
  <2>a. WorkerTypeOK'
    BY ONLY <2>6, <2>7, <2>8, <2>9 DEF WorkerTypeOK
  <2>b. SystemTypeOK'
    BY DEF IInv, TypeOK, SystemTypeOK, systemVars
  <2> QED BY <2>4, <2>5, <2>a, <2>b DEF TypeOK
<1>2. WorkerInv'
  <2>1. \A v \in Workers : InFlight(v)' = Flying(exs, v)
    BY <1>v, <1>e DEF InFlight, Flying, InFlightPhase, WaitPhase, CallPhase
  <2>2. Counted'
    BY <2>1 DEF Counted, AtTest
  <2>3. Awaited'
    <3> SUFFICES ASSUME NEW v \in Workers, pending'[v] # None
                 PROVE  /\ pump'[v] = "reserving"
                        /\ execution'[pending'[v]].phase = "reserved"
                        /\ execution'[pending'[v]].worker = v
                        /\ inFlight'[v] < Concurrency[v]
      BY DEF Awaited
    <3>1. CASE v = w
      BY <1>t, <1>e, <3>1
    <3>2. CASE v # w
      <4>1. pending'[v] = pending[v] /\ pump'[v] = pump[v] /\ pending[v] \in Tokens
        BY <1>t, <3>2
      <4>2. /\ pump[v] = "reserving" /\ exs[pending[v]].phase = "reserved"
            /\ exs[pending[v]].worker = v /\ fl[v] < Concurrency[v]
        BY <3>2, <4>1 DEF AtTest
      <4>3. execution'[pending[v]] = exs[pending[v]]
        BY <1>e, <4>1
      <4> QED BY <4>1, <4>2, <4>3
    <3> QED BY <3>1, <3>2
  <2>4. CheckedLimited'
    BY <1>v, <1>e DEF AtTest, CheckedLimited, Limited, QueueOf, facadeVars
  <2> QED BY <2>2, <2>3, <2>4 DEF WorkerInv
<1>3. LeaseAgrees'
  <2>1. \A r \in R : r.token \in Tokens
    BY <1>t, <1>d DEF LeaseRecord
  <2>2. \A r \in R : execution'[r.token].env = r.env /\ execution'[r.token].phase \in Unsettled
    BY <1>d, <1>e, <2>1, ZenonT(30) DEF AtTest
  <2>3. execution'[new.token].env = new.env /\ execution'[new.token].phase \in Unsettled
    BY <1>n, <1>e DEF Unsettled
  <2> QED BY <1>d, <2>2, <2>3 DEF LeaseAgrees
<1>4. OneHome'
  <2>1. \A r \in R : r.token # new.token /\ r.env # new.env
    BY <1>n, <1>t, <1>v, <1>d DEF LeaseRecord
  <2>2. new.env = s
    BY <1>n
  <2> QED BY <1>d, <2>1, <2>2 DEF IInv, OneHome
<1> QED BY <1>1, <1>2, <1>3, <1>4 DEF IInv

LEMMA PumpLoopKeeps ==
  ASSUME IInv, NEW w \in Workers, NEW exs, NEW fl, AtTest(w, exs, fl),
         PumpLoop(w, fl[w], exs), inFlight' = fl,
         UNCHANGED <<now, facadeVars, running, hits, stopped, systemVars>>
  PROVE  IInv'
<1>1. CASE /\ MayReserve(w, fl[w])
           /\ pump' = [pump EXCEPT ![w] = "reserving"]
           /\ \E s \in Envelopes :
                /\ reserveJob(WorkerQueues[w], VisibilityMs, token + 1, s)
                /\ token' = token + 1
                /\ pending' = [pending EXCEPT ![w] = token + 1]
                /\ execution' =
                     [t \in 1..(token + 1) |->
                        IF t = token + 1
                        THEN [worker |-> w, env |-> s, phase |-> "reserved",
                              at |-> 0, handler |-> FALSE]
                        ELSE exs[t]]
  BY <1>1, ReservationKeeps DEF MayReserve
<1>2. CASE /\ pump' = [pump EXCEPT ![w] = "reserving"]
           /\ reserveNull(WorkerQueues[w])
           /\ pending' = [pending EXCEPT ![w] = None]
           /\ execution' = exs
           /\ UNCHANGED token
  BY <1>2, NoReservationKeeps
<1>3. CASE /\ pump' = [pump EXCEPT ![w] = "idle"]
           /\ pending' = [pending EXCEPT ![w] = None]
           /\ execution' = exs
           /\ UNCHANGED <<token, driverVars>>
  BY <1>3, NoReservationKeeps
<1> QED BY <1>1, <1>2, <1>3 DEF PumpLoop

(* Each way of coming to the test finds the state AtTest describes.        *)
LEMMA PumpKeeps ==
  ASSUME IInv, NEW w \in Workers, UNCHANGED systemVars,
         PumpReady(w) \/ PumpPass(w) \/ PumpJob(w)
  PROVE  IInv'
<1>t. /\ execution \in [Tokens -> Execution(Envelopes)]
      /\ inFlight \in [Workers -> Nat] /\ token \in Nat
      /\ pending \in [Workers -> Tokens \cup {None}]
      /\ \A r \in reserved : r.token \in Tokens
      /\ \A v \in Workers : Concurrency[v] \in Nat
  <2>1. /\ execution \in [Tokens -> Execution(Envelopes)]
        /\ inFlight \in [Workers -> Nat] /\ token \in Nat
        /\ pending \in [Workers -> Tokens \cup {None}]
        /\ reserved \subseteq LeaseRecord(Envelopes, Tokens)
    BY DEF IInv, TypeOK, DriverTypeOK, WorkerTypeOK
  <2> QED BY <2>1, WorkerAssumption DEF LeaseRecord
<1>1. CASE PumpReady(w) \/ PumpPass(w)
  <2>1. AtTest(w, execution, inFlight)
    <3>1. \A v \in Workers : Flying(execution, v) = InFlight(v)
      BY DEF Flying, InFlight
    <3> QED BY <1>t, <3>1
            DEF AtTest, IInv, WorkerInv, Counted, Awaited, CheckedLimited, LeaseAgrees,
                Limited, QueueOf
  <2>2. inFlight' = inFlight
    BY <1>1 DEF PumpReady, PumpPass
  <2> QED BY <1>1, <2>1, <2>2, PumpLoopKeeps DEF PumpReady, PumpPass
<1>2. CASE PumpJob(w)
  <2>p. PICK p : p = pending[w]
    OBVIOUS
  <2>x. PICK exs : exs = To(p, "admitting")
    OBVIOUS
  <2>f. PICK fl : fl = [inFlight EXCEPT ![w] = @ + 1]
    OBVIOUS
  <2>1. /\ p \in Tokens /\ execution[p].phase = "reserved" /\ execution[p].worker = w
        /\ inFlight[w] < Concurrency[w]
    BY <1>2, <1>t, <2>p DEF PumpJob, IInv, WorkerInv, Awaited
  <2>2. /\ exs \in [Tokens -> Execution(Envelopes)]
        /\ \A t \in Tokens \ {p} : exs[t] = execution[t]
        /\ exs[p].phase = "admitting" /\ exs[p].worker = w /\ exs[p].env = execution[p].env
    BY <1>t, <2>x, <2>1 DEF To, Execution, Phase, InFlightPhase, WaitPhase
  <2>3. /\ fl \in [Workers -> Nat] /\ fl[w] = inFlight[w] + 1
        /\ \A v \in Workers \ {w} : fl[v] = inFlight[v]
    BY <1>t, <2>f
  <2>4. /\ Flying(exs, w) = InFlight(w) \cup {p} /\ p \notin InFlight(w)
        /\ \A v \in Workers \ {w} : Flying(exs, v) = InFlight(v)
    BY <2>1, <2>2 DEF Flying, InFlight, InFlightPhase, WaitPhase, CallPhase
  <2>5. Cardinality(Flying(exs, w)) = Cardinality(InFlight(w)) + 1
    <3>1. IsFiniteSet(InFlight(w))
      BY <1>t, InFlightFinite
    <3> QED BY <2>4, <3>1, FS_AddElement
  <2>6. AtTest(w, exs, fl)
    <3>1. \A v \in Workers : fl[v] = Cardinality(Flying(exs, v)) /\ fl[v] <= Concurrency[v]
      BY <1>t, <2>1, <2>3, <2>4, <2>5 DEF IInv, WorkerInv, Counted
    <3>2. \A v \in Workers \ {w} : pending[v] # None =>
            /\ pump[v] = "reserving" /\ exs[pending[v]].phase = "reserved"
            /\ exs[pending[v]].worker = v /\ fl[v] < Concurrency[v]
      <4> SUFFICES ASSUME NEW v \in Workers \ {w}, pending[v] # None
                   PROVE  /\ pump[v] = "reserving" /\ exs[pending[v]].phase = "reserved"
                          /\ exs[pending[v]].worker = v /\ fl[v] < Concurrency[v]
        OBVIOUS
      <4>1. /\ pump[v] = "reserving" /\ execution[pending[v]].phase = "reserved"
            /\ execution[pending[v]].worker = v /\ inFlight[v] < Concurrency[v]
            /\ pending[v] \in Tokens
        BY <1>t DEF IInv, WorkerInv, Awaited
      <4>2. pending[v] # p
        BY <2>1, <4>1
      <4> QED BY <2>2, <2>3, <4>1, <4>2
    <3>3. \A t \in Tokens : exs[t].phase \in {"underQuota", "overQuota"} =>
            RateLimits[env[exs[t].env].queue] # None
      BY <2>2 DEF IInv, WorkerInv, CheckedLimited, Limited, QueueOf
    <3>4. \A r \in reserved : exs[r.token].env = r.env /\ exs[r.token].phase \in Unsettled
      <4>1. \A r \in reserved : /\ execution[r.token].env = r.env
                                /\ execution[r.token].phase \in Unsettled
        BY DEF IInv, LeaseAgrees
      <4> QED BY <1>t, <2>2, <4>1 DEF Unsettled, WaitPhase
    <3> QED BY <2>2, <2>3, <3>1, <3>2, <3>3, <3>4 DEF AtTest
  <2>7. /\ inFlight' = fl
        /\ PumpLoop(w, fl[w], exs)
        /\ UNCHANGED <<now, facadeVars, running, hits, stopped, systemVars>>
    BY <1>2, <2>p, <2>x, <2>f, <2>3 DEF PumpJob
  <2> QED BY <2>6, <2>7, PumpLoopKeeps
<1> QED BY <1>1, <1>2

----------------------------------------------------------------------------
LEMMA InitIInv == Init => IInv
<1> SUFFICES ASSUME Init PROVE IInv
  OBVIOUS
<1>0. Envelopes = {} /\ Tokens = {}
  BY DEF Init, Envelopes, Tokens
<1>1. DriverTypeOK
  BY <1>0 DEF Init, DriverTypeOK
<1>2. FacadeTypeOK
  <2>1. Idle \in AdminState(Envelopes, Tokens)
    BY DEF Idle, AdminState
  <2> QED BY <2>1 DEF Init, FacadeTypeOK
<1>3. WorkerTypeOK
  <2>1. <<>> \in Seq(Nat)
    OBVIOUS
  <2> QED BY <1>0, <2>1 DEF Init, WorkerTypeOK
<1>4. SystemTypeOK
  BY DEF Init, SystemTypeOK
<1>5. WorkerInv
  <2>1. \A w : InFlight(w) = {}
    BY <1>0 DEF InFlight
  <2>2. Cardinality({}) = 0
    BY FS_EmptySet
  <2>3. Counted
    <3>1. \A w \in Workers : inFlight[w] = 0
      BY DEF Init
    <3>2. \A w \in Workers : Concurrency[w] \in Nat
      BY WorkerAssumption
    <3>3. \A w \in Workers : Cardinality(InFlight(w)) = 0 /\ 0 <= Concurrency[w]
      BY <2>1, <2>2, <3>2
    <3> QED BY <3>1, <3>3 DEF Counted
  <2> QED BY <1>0, <2>3 DEF WorkerInv, Awaited, CheckedLimited, Init
<1>6. LeaseAgrees /\ OneHome
  BY DEF LeaseAgrees, OneHome, Init
<1> QED BY <1>1, <1>2, <1>3, <1>4, <1>5, <1>6 DEF IInv, TypeOK

LEMMA NextIInv == IInv /\ [Next]_vars => IInv'
<1> SUFFICES ASSUME IInv, [Next]_vars PROVE IInv'
  OBVIOUS
<1>1. CASE Tick \/ Close \/ CloseDrained
  BY <1>1, ControlKeeps
<1>2. CASE PromotionTick
  BY <1>2, HeapsKeep
<1>3. ASSUME NEW o \in JobOptions, Dispatch(o), UNCHANGED <<workerVars, systemVars>>
      PROVE  IInv'
  BY <1>3, DispatchAdds, AddKeeps
<1>4. CASE DeadLetterApi
  <2>1. UNCHANGED <<workerVars, systemVars>>
    BY <1>4 DEF DeadLetterApi
  <2>2. ASSUME NEW a \in Admins, RetryEnqueue(a) PROVE IInv'
    BY <2>1, <2>2, RetryEnqueueAdds, AddKeeps
  <2>3. ASSUME NEW a \in Admins,
               \/ \E d \in dead : DeadLetterRetry(a, d)
               \/ \E qs : DeadLetterRetryAll(a, qs)
               \/ \E r \in admin[a].todo : RetryAllTake(a, r)
        PROVE  IInv'
    BY <2>1, <2>3, DeadLetterKeeps
  <2> QED BY <1>4, <2>2, <2>3 DEF DeadLetterApi
<1>5. ASSUME NEW qs, Flush(qs) \/ Purge(qs) PROVE IInv'
  BY <1>5, FlushKeeps, HeapsKeep
<1>6. ASSUME NEW w \in Workers, UNCHANGED systemVars, Pump(w) \/ Start(w) \/ Stop(w)
      PROVE  IInv'
  <2>1. CASE PumpGate(w) \/ PumpNull(w) \/ Start(w) \/ Stop(w)
    BY <1>6, <2>1, ControlKeeps
  <2>2. CASE PumpReady(w) \/ PumpPass(w) \/ PumpJob(w)
    BY <1>6, <2>2, PumpKeeps
  <2> QED BY <1>6, <2>1, <2>2 DEF Pump
<1>7. ASSUME NEW t \in Tokens, UNCHANGED systemVars, Proceed(t) \/ HandlerStep(t)
      PROVE  IInv'
  <2>1. CASE RateCount(t) \/ RateHit(t) \/ StartHandler(t) \/ LateReturn(t)
    BY <1>7, <2>1, QuietStep
  <2>2. CASE \/ RateDefer(t) \/ NoHandler(t) \/ HandlerSucceeds(t)
             \/ HandlerFails(t) \/ HandlerTimesOut(t)
    BY <1>7, <2>2, DriverCallReleases, ReleaseKeeps
  <2>3. CASE Finish(t)
    BY <1>7, <2>3, FinishKeeps
  <2> QED BY <1>7, <2>1, <2>2, <2>3 DEF Proceed, HandlerStep, HandlerReturns
<1>8. CASE UNCHANGED vars
  <2>1. UNCHANGED <<now, facadeVars, driverVars, workerVars, systemVars>>
    BY <1>8 DEF vars, facadeVars, driverVars, workerVars, systemVars
  <2>2. TypeOK'
    <3>1. DriverTypeOK' /\ FacadeTypeOK'
      BY <2>1, SameTypes DEF IInv, workerVars
    <3>2. Tokens' = Tokens /\ Envelopes' = Envelopes
      BY <2>1 DEF Tokens, Envelopes, workerVars, facadeVars
    <3> QED BY <2>1, <3>1, <3>2 DEF IInv, TypeOK, WorkerTypeOK, SystemTypeOK, workerVars, systemVars
  <2> QED BY <2>1, <2>2, AsideKeeps DEF workerVars, facadeVars, driverVars
<1> QED
  BY <1>1, <1>2, <1>3, <1>4, <1>5, <1>6, <1>7, <1>8 DEF Next

(* IInv is an invariant.                                                   *)
LEMMA Invariance == Spec => []IInv
BY InitIInv, NextIInv, PTL DEF Spec

(* Every variable always has its type: no lease, dead letter, retry or     *)
(* execution refers to an envelope or a reservation that does not exist,   *)
(* and the worker's counter of jobs in flight never goes below zero.       *)
THEOREM TypeCorrect == Spec => []TypeOK
<1>1. IInv => TypeOK
  BY DEF IInv
<1> QED BY <1>1, Invariance, PTL

(* A worker never has more executions in flight than its concurrency, for  *)
(* any number of workers, jobs and calls of stop() and start().            *)
THEOREM ConcurrencyBounded == Spec => []ConcurrencyBound
<1>1. IInv => ConcurrencyBound
  BY DEF IInv, WorkerInv, Counted, ConcurrencyBound
<1> QED BY <1>1, Invariance, PTL

(* The driver never keeps two copies of a job, whatever calls arrive for   *)
(* reservations whose lease it has reclaimed.                              *)
THEOREM SingleHome == Spec => []OneHome
<1>1. IInv => OneHome
  BY DEF IInv
<1> QED BY <1>1, Invariance, PTL

----------------------------------------------------------------------------
(***************************************************************************)
(* The driver implements LeaseQueue.  The mapping is in QueueSystem: a job *)
(* waits when it is in a heap, and a lease forgets its expiry.             *)
(***************************************************************************)
LEMMA EntryAdded ==
  ASSUME NEW D, NEW x, NEW n
  PROVE  {d.env : d \in D \cup {[env |-> x, runAt |-> n]}} = {d.env : d \in D} \cup {x}
<1>1. PICK e : e = [env |-> x, runAt |-> n]
  OBVIOUS
<1>2. e.env = x
  BY <1>1
<1>3. {d.env : d \in D \cup {e}} = {d.env : d \in D} \cup {x}
  BY <1>2
<1> QED BY <1>1, <1>3

LEMMA StutterContract ==
  ASSUME Envelopes' = Envelopes, Tokens' = Tokens, Waiting' = Waiting, Leases' = Leases
  PROVE  UNCHANGED Contract!lqVars
BY DEF Contract!lqVars

LEMMA PlacesStutter ==
  ASSUME UNCHANGED <<seq, token, ready, delayed, reserved>>
  PROVE  UNCHANGED Contract!lqVars
<1>1. Envelopes' = Envelopes /\ Tokens' = Tokens
  BY DEF Envelopes, Tokens
<1>2. Waiting' = Waiting /\ Leases' = Leases
  BY DEF Waiting, Leases
<1> QED BY <1>1, <1>2, StutterContract

LEMMA AddContract ==
  ASSUME IInv, NEW e \in Envelope, Adds(e)
  PROVE  Contract!LQNext
<1>1. seq \in Nat /\ MaxSeq \in Nat
  BY FacadeAssumption DEF IInv, TypeOK, FacadeTypeOK
<1>2. /\ seq \in 0..(MaxSeq - 1) /\ seq \notin Envelopes /\ Envelopes' = Envelopes \cup {seq}
      /\ Tokens' = Tokens
  BY <1>1 DEF Adds, AddEnvelope, Envelopes, Tokens, workerVars
<1>3. Waiting' = Waiting \cup {seq}
  <2>1. CASE ready' = ready \cup {seq} /\ delayed' = delayed
    BY <2>1 DEF Waiting
  <2>2. CASE /\ ready' = ready
             /\ \E n \in Nat : delayed' = delayed \cup {[env |-> seq, runAt |-> n]}
    <3>1. {d.env : d \in delayed'} = {d.env : d \in delayed} \cup {seq}
      <4>1. PICK n \in Nat : delayed' = delayed \cup {[env |-> seq, runAt |-> n]}
        BY <2>2
      <4>2. {d.env : d \in delayed \cup {[env |-> seq, runAt |-> n]}} =
              {d.env : d \in delayed} \cup {seq}
        BY EntryAdded
      <4> QED BY ONLY <4>1, <4>2
    <3> QED BY <2>2, <3>1 DEF Waiting
  <2> QED BY <2>1, <2>2 DEF Adds
<1>4. Leases' = Leases
  BY DEF Adds, Leases
<1>5. Contract!Accept(seq)
  BY <1>2, <1>3, <1>4 DEF Contract!Accept
<1> QED BY <1>2, <1>5 DEF Contract!LQNext

LEMMA ReleaseContract ==
  ASSUME IInv, NEW t \in Tokens, Releases(t)
  PROVE  Contract!LQNext \/ UNCHANGED Contract!lqVars
<1>1. Envelopes' = Envelopes /\ Tokens' = Tokens
  BY DEF Releases, Envelopes, Tokens, facadeVars
<1>2. CASE ~Holds(t)
  <2>1. UNCHANGED <<ready, delayed, reserved>>
    BY <1>2 DEF Releases, Holds, WithoutToken
  <2>2. UNCHANGED <<seq, token>>
    BY DEF Releases, facadeVars
  <2> QED BY <2>1, <2>2, PlacesStutter
<1>3. CASE Holds(t)
  <2>1. PICK r \in reserved : r.token = t
    BY <1>3 DEF Holds
  <2>2. r.env = execution[t].env /\ reserved' = reserved \ {r}
    BY <2>1 DEF IInv, LeaseAgrees, OneHome, Releases, WithoutToken
  <2>3. \A x \in reserved : LeaseOf(x) = LeaseOf(r) => x = r
    BY DEF LeaseOf, IInv, OneHome
  <2>4. Leases' = Leases \ {LeaseOf(r)} /\ LeaseOf(r) \in Leases
    BY <2>1, <2>2, <2>3 DEF Leases
  <2>5. CASE delayed' = delayed
    <3>1. Waiting' = Waiting
      BY <2>5 DEF Waiting, Releases
    <3>2. Contract!Settle(LeaseOf(r))
      BY <1>1, <2>4, <3>1 DEF Contract!Settle
    <3> QED BY <2>4, <3>2 DEF Contract!LQNext
  <2>6. CASE \E n \in Nat : delayed' = delayed \cup {[env |-> execution[t].env, runAt |-> n]}
    <3>1. Waiting' = Waiting \cup {r.env}
      <4>1. {d.env : d \in delayed'} = {d.env : d \in delayed} \cup {r.env}
        <5>1. PICK n \in Nat : delayed' = delayed \cup {[env |-> r.env, runAt |-> n]}
          BY <2>2, <2>6
        <5>2. {d.env : d \in delayed \cup {[env |-> r.env, runAt |-> n]}} =
                {d.env : d \in delayed} \cup {r.env}
          BY EntryAdded
        <5> QED BY ONLY <5>1, <5>2
      <4>2. ready' = ready
        BY DEF Releases
      <4> QED BY <4>1, <4>2 DEF Waiting
    <3>2. Contract!JobsOf({LeaseOf(r)}) = {r.env}
      BY DEF Contract!JobsOf, LeaseOf
    <3>3. Contract!Return({LeaseOf(r)})
      BY <1>1, <2>4, <3>1, <3>2 DEF Contract!Return
    <3>4. {LeaseOf(r)} \in SUBSET Leases
      BY <2>4
    <3> QED BY <3>3, <3>4 DEF Contract!LQNext
  <2> QED BY <2>5, <2>6 DEF Releases
<1> QED BY <1>2, <1>3

LEMMA HeapsContract ==
  ASSUME PromotionTick \/ \E qs : Purge(qs)
  PROVE  Contract!LQNext \/ UNCHANGED Contract!lqVars
<1>1. Envelopes' = Envelopes /\ Tokens' = Tokens
  BY DEF PromotionTick, Purge, Envelopes, Tokens, facadeVars, workerVars
<1>2. Leases' = Leases
  BY DEF PromotionTick, promoteDue, Purge, purge, Leases
<1>3. CASE PromotionTick
  <2>1. PICK due \in SUBSET delayed :
          delayed' = delayed \ due /\ ready' = ready \cup {d.env : d \in due}
    BY <1>3 DEF PromotionTick, promoteDue
  <2>2. Waiting' = Waiting
    BY <2>1 DEF Waiting
  <2> QED BY <1>1, <1>2, <2>2, StutterContract
<1>4. CASE \E qs : Purge(qs)
  <2>1. ready' \subseteq ready /\ delayed' \subseteq delayed
    BY <1>4 DEF Purge, purge
  <2>2. Waiting' \subseteq Waiting
    BY <2>1 DEF Waiting
  <2>3. PICK js \in SUBSET Waiting : Waiting' = Waiting \ js
    <3>1. Waiting \ Waiting' \in SUBSET Waiting /\ Waiting' = Waiting \ (Waiting \ Waiting')
      BY <2>2
    <3> QED BY <3>1
  <2>4. Contract!Discard(js)
    BY <1>1, <1>2, <2>3 DEF Contract!Discard
  <2> QED BY <2>4 DEF Contract!LQNext
<1> QED BY <1>3, <1>4

(* What a reclaim means for the contract: some leases are returned.        *)
LEMMA ReclaimContract ==
  ASSUME IInv
  PROVE  \E back \in SUBSET Leases :
           /\ Leases \ back = {LeaseOf(r) : r \in reclaimExpiredLeases.reserved}
           /\ Waiting \cup Contract!JobsOf(back) =
                reclaimExpiredLeases.ready \cup {d.env : d \in delayed}
<1>1. /\ reclaimExpiredLeases.ready = ready \cup {r.env : r \in Expired}
      /\ reclaimExpiredLeases.reserved = reserved \ Expired
      /\ Expired \subseteq reserved
  BY DEF reclaimExpiredLeases, Expired
<1>b. PICK back : back = {LeaseOf(r) : r \in Expired}
  OBVIOUS
<1>2. back \in SUBSET Leases
  BY <1>1, <1>b DEF Leases
<1>3. \A x, y \in reserved : LeaseOf(x) = LeaseOf(y) => x = y
  BY DEF LeaseOf, IInv, OneHome
<1>4. Leases \ back = {LeaseOf(r) : r \in reserved \ Expired}
  BY <1>1, <1>b, <1>3 DEF Leases
<1>5. Contract!JobsOf(back) = {r.env : r \in Expired}
  <2>1. \A r \in Expired : LeaseOf(r).job = r.env
    BY DEF LeaseOf
  <2>2. \A l \in back : \E r \in Expired : l.job = r.env
    BY <1>b, <2>1
  <2>3. \A r \in Expired : \E l \in back : l.job = r.env
    BY <1>b, <2>1
  <2> QED BY <2>2, <2>3 DEF Contract!JobsOf
<1>6. Waiting \cup Contract!JobsOf(back) =
        reclaimExpiredLeases.ready \cup {d.env : d \in delayed}
  BY <1>1, <1>5 DEF Waiting
<1> QED BY <1>1, <1>2, <1>4, <1>6

LEMMA PumpContract ==
  ASSUME IInv, NEW w \in Workers, NEW n, NEW exs, PumpLoop(w, n, exs), UNCHANGED facadeVars
  PROVE  Contract!LQNext \/ UNCHANGED Contract!lqVars
<1>e. Envelopes' = Envelopes
  BY DEF Envelopes, facadeVars
<1>t. token \in Nat /\ MaxToken \in Nat
  BY WorkerAssumption DEF IInv, TypeOK, WorkerTypeOK
<1>b. PICK back \in SUBSET Leases :
        /\ Leases \ back = {LeaseOf(r) : r \in reclaimExpiredLeases.reserved}
        /\ Waiting \cup Contract!JobsOf(back) =
             reclaimExpiredLeases.ready \cup {d.env : d \in delayed}
  BY ReclaimContract
<1>1. ASSUME NEW s \in Envelopes, token < MaxToken, token' = token + 1,
             reserveJob(WorkerQueues[w], VisibilityMs, token + 1, s)
      PROVE  Contract!LQNext
  <2>1. /\ Tokens' = Tokens \cup {token + 1} /\ token + 1 \notin Tokens
        /\ token + 1 \in 1..MaxToken
    BY <1>t, <1>1 DEF Tokens
  <2>2. /\ s \in reclaimExpiredLeases.ready /\ ready' = reclaimExpiredLeases.ready \ {s}
        /\ delayed' = delayed
        /\ reserved' = reclaimExpiredLeases.reserved \cup
             {[token |-> token + 1, env |-> s, leaseExpiresAt |-> now + VisibilityMs]}
    BY <1>1 DEF reserveJob
  <2>3. \A d \in delayed : d.env # s
    BY <2>2, ReclaimProperties
  <2>4. s \in Waiting \cup Contract!JobsOf(back)
        /\ Waiting' = (Waiting \cup Contract!JobsOf(back)) \ {s}
    BY <1>b, <2>2, <2>3 DEF Waiting
  <2>5. Leases' = (Leases \ back) \cup {[token |-> token + 1, job |-> s]}
    <3>1. Leases' = {LeaseOf(r) : r \in reclaimExpiredLeases.reserved} \cup
            {LeaseOf([token |-> token + 1, env |-> s, leaseExpiresAt |-> now + VisibilityMs])}
      BY <2>2 DEF Leases
    <3> QED BY <1>b, <3>1 DEF LeaseOf
  <2>6. Contract!Reserve(back, s, token + 1)
    BY <1>e, <2>1, <2>4, <2>5 DEF Contract!Reserve
  <2> QED BY <1>b, <2>1, <2>4, <2>6 DEF Contract!LQNext
<1>2. ASSUME reserveNull(WorkerQueues[w]), UNCHANGED token
      PROVE  Contract!LQNext
  <2>1. Tokens' = Tokens
    BY <1>2 DEF Tokens
  <2>2. Leases' = Leases \ back
    BY <1>b, <1>2 DEF reserveNull, Leases
  <2>3. Waiting' = Waiting \cup Contract!JobsOf(back)
    BY <1>b, <1>2 DEF reserveNull, Waiting
  <2>4. Contract!Return(back)
    BY <1>e, <2>1, <2>2, <2>3 DEF Contract!Return
  <2> QED BY <1>b, <2>4 DEF Contract!LQNext
<1>3. ASSUME UNCHANGED <<token, driverVars>>
      PROVE  UNCHANGED Contract!lqVars
  BY <1>3, PlacesStutter DEF facadeVars, driverVars
<1> QED BY <1>1, <1>2, <1>3 DEF PumpLoop, MayReserve

LEMMA NextContract == IInv /\ [Next]_vars => [Contract!LQNext]_(Contract!lqVars)
<1> DEFINE Goal == Contract!LQNext \/ UNCHANGED Contract!lqVars
<1> SUFFICES ASSUME IInv, [Next]_vars PROVE Goal
  OBVIOUS
<1>1. CASE Tick \/ Close \/ CloseDrained
  <2>1. UNCHANGED <<seq, token, ready, delayed, reserved>>
    BY <1>1 DEF Tick, Close, CloseDrained, facadeVars, driverVars, workerVars
  <2> QED BY <2>1, PlacesStutter
<1>2. CASE PromotionTick
  BY <1>2, HeapsContract
<1>3. ASSUME NEW o \in JobOptions, Dispatch(o), UNCHANGED <<workerVars, systemVars>>
      PROVE  Goal
  BY <1>3, DispatchAdds, AddContract
<1>4. CASE DeadLetterApi
  <2>1. UNCHANGED <<workerVars, systemVars>>
    BY <1>4 DEF DeadLetterApi
  <2>2. ASSUME NEW a \in Admins, RetryEnqueue(a) PROVE Goal
    BY <2>1, <2>2, RetryEnqueueAdds, AddContract
  <2>3. ASSUME NEW a \in Admins,
               \/ \E d \in dead : DeadLetterRetry(a, d)
               \/ \E qs : DeadLetterRetryAll(a, qs)
               \/ \E r \in admin[a].todo : RetryAllTake(a, r)
        PROVE  Goal
    <3>1. UNCHANGED <<seq, token, ready, delayed, reserved>>
      BY <2>1, <2>3 DEF DeadLetterRetry, DeadLetterRetryAll, RetryAllTake, removeDeadLetter,
                        driverVars, workerVars
    <3> QED BY <3>1, PlacesStutter
  <2> QED BY <1>4, <2>2, <2>3 DEF DeadLetterApi
<1>5. ASSUME NEW qs, Flush(qs) \/ Purge(qs) PROVE Goal
  <2>1. CASE Flush(qs)
    <3>1. UNCHANGED <<seq, token, ready, delayed, reserved>>
      BY <2>1 DEF Flush, DeadLetterFlush, flushDeadLetters, workerVars
    <3> QED BY <3>1, PlacesStutter
  <2>2. CASE Purge(qs)
    BY <2>2, HeapsContract
  <2> QED BY <1>5, <2>1, <2>2
<1>6. ASSUME NEW w \in Workers, UNCHANGED systemVars, Pump(w) \/ Start(w) \/ Stop(w)
      PROVE  Goal
  <2>1. CASE PumpGate(w) \/ PumpNull(w) \/ Start(w) \/ Stop(w)
    <3>1. UNCHANGED <<seq, token, ready, delayed, reserved>>
      BY <2>1 DEF PumpGate, PumpNull, Start, Stop, facadeVars, driverVars
    <3> QED BY <3>1, PlacesStutter
  <2>2. CASE PumpReady(w) \/ PumpPass(w) \/ PumpJob(w)
    <3>1. UNCHANGED facadeVars /\ \E n, exs : PumpLoop(w, n, exs)
      BY <2>2 DEF PumpReady, PumpPass, PumpJob
    <3> QED BY <3>1, PumpContract
  <2> QED BY <1>6, <2>1, <2>2 DEF Pump
<1>7. ASSUME NEW t \in Tokens, UNCHANGED systemVars, Proceed(t) \/ HandlerStep(t)
      PROVE  Goal
  <2>1. CASE RateCount(t) \/ RateHit(t) \/ StartHandler(t) \/ LateReturn(t) \/ Finish(t)
    <3>1. UNCHANGED <<seq, token, ready, delayed, reserved>>
      BY <2>1 DEF RateCount, RateHit, StartHandler, LateReturn, Finish, facadeVars, driverVars
    <3> QED BY <3>1, PlacesStutter
  <2>2. CASE \/ RateDefer(t) \/ NoHandler(t) \/ HandlerSucceeds(t)
             \/ HandlerFails(t) \/ HandlerTimesOut(t)
    BY <1>7, <2>2, DriverCallReleases, ReleaseContract
  <2> QED BY <1>7, <2>1, <2>2 DEF Proceed, HandlerStep, HandlerReturns
<1>8. CASE UNCHANGED vars
  BY <1>8, PlacesStutter DEF vars
<1> HIDE DEF Goal
<1> QED
  BY <1>1, <1>2, <1>3, <1>4, <1>5, <1>6, <1>7, <1>8 DEF Next

LEMMA InitContract == Init => Contract!LQInit
BY DEF Init, Contract!LQInit, Envelopes, Tokens, Waiting, Leases

(* The memory driver, under every interleaving of its callers - expired    *)
(* leases, late acks, nacks and dead-letterings included - implements the  *)
(* lease queue contract.                                                   *)
THEOREM ImplementsContract == Spec => DriverContract
<1>1. Init => Contract!LQInit
  BY InitContract
<1>2. IInv /\ [Next]_vars => [Contract!LQNext]_(Contract!lqVars)
  BY NextContract
<1> QED BY <1>1, <1>2, Invariance, PTL DEF Spec, DriverContract, Contract!LQSpec

----------------------------------------------------------------------------
LEMMA ContractForgets ==
  ASSUME IInv, Contract!LQNext \/ UNCHANGED Contract!lqVars,
         NEW s \in Envelopes, ~Live(s)
  PROVE  ~Live(s)'
<1> DEFINE Here == s \in Waiting \/ \E l \in Leases : l.job = s
<1>0. \A r : LeaseOf(r).job = r.env
  BY DEF LeaseOf
<1>1. Live(s) <=> Here
  <2>1. Leased(s) <=> \E l \in Leases : l.job = s
    BY <1>0 DEF Leased, Leases
  <2>2. Queued(s) <=> s \in Waiting
    BY DEF Queued, Waiting
  <2> QED BY <2>1, <2>2 DEF Live
<1>2. Live(s)' <=> Here'
  <2>1. Leased(s)' <=> \E l \in Leases' : l.job = s
    BY <1>0 DEF Leased, Leases, LeaseOf
  <2>2. Queued(s)' <=> s \in Waiting'
    BY DEF Queued, Waiting
  <2> QED BY <2>1, <2>2 DEF Live
<1>3. s \notin Waiting /\ \A l \in Leases : l.job # s
  BY <1>1
<1>4. s \notin Waiting' /\ \A l \in Leases' : l.job # s
  <2>1. CASE \E j \in 0..(MaxSeq - 1) : Contract!Accept(j)
    BY <1>3, <2>1 DEF Contract!Accept
  <2>2. CASE \E back \in SUBSET Leases : Contract!Return(back)
    BY <1>3, <2>2 DEF Contract!Return, Contract!JobsOf
  <2>3. CASE \E back \in SUBSET Leases :
               \E j \in Waiting \cup Contract!JobsOf(back), t \in 1..MaxToken :
                 Contract!Reserve(back, j, t)
    <3>0. PICK back \in SUBSET Leases :
            \E j \in Waiting \cup Contract!JobsOf(back), t \in 1..MaxToken :
              Contract!Reserve(back, j, t)
      BY <2>3
    <3>1. PICK j \in Waiting \cup Contract!JobsOf(back), t \in 1..MaxToken :
            Contract!Reserve(back, j, t)
      BY <3>0
    <3>2. s \notin Waiting \cup Contract!JobsOf(back) /\ j # s
      BY <1>3, <3>1 DEF Contract!JobsOf
    <3>3. [token |-> t, job |-> j].job = j
      OBVIOUS
    <3> QED BY <1>3, <3>1, <3>2, <3>3 DEF Contract!Reserve
  <2>4. CASE \E l \in Leases : Contract!Settle(l)
    BY <1>3, <2>4 DEF Contract!Settle
  <2>5. CASE \E js \in SUBSET Waiting : Contract!Discard(js)
    BY <1>3, <2>5 DEF Contract!Discard
  <2>6. CASE UNCHANGED Contract!lqVars
    BY <1>3, <2>6 DEF Contract!lqVars
  <2> QED BY <2>1, <2>2, <2>3, <2>4, <2>5, <2>6 DEF Contract!LQNext
<1> QED BY <1>2, <1>4

(* A job the driver has let go of never comes back: not through a late     *)
(* nack, not through the reclaiming of a lease.                            *)
THEOREM NothingResurrected == Spec => NoResurrection
<1>1. IInv /\ [Next]_vars => [\A s \in Envelopes : ~Live(s) => ~Live(s)']_vars
  <2> SUFFICES ASSUME IInv, [Next]_vars, NEW s \in Envelopes, ~Live(s)
               PROVE  ~Live(s)'
    OBVIOUS
  <2>1. Contract!LQNext \/ UNCHANGED Contract!lqVars
    BY NextContract
  <2> QED BY <2>1, ContractForgets
<1> QED BY <1>1, Invariance, PTL DEF Spec, NoResurrection
=============================================================================
