------------------------------ MODULE SagaProofs ------------------------------
(***************************************************************************)
(* The advisory lock keeps processes apart, for any number of processes,   *)
(* sessions and calls, and whatever crashes, faults and timers do.         *)
(*                                                                         *)
(* OneProcessHolds is not inductive: what keeps a second process out is    *)
(* the count of the session that granted the lock.  All the counts that    *)
(* are not zero are of one session (OneHolder), and that count is at least *)
(* the number of handles it gave that are not released (Covered), because  *)
(* a misdirected unlock lowers no count and a released handle is never     *)
(* unlocked again.                                                         *)
(*                                                                         *)
(* The second half is about the workflow the lock is for: its steps run in *)
(* order even when calls overlap, and while they do not, a recorded step   *)
(* runs once, a rollback undoes all and a finished row stays (SagaInv).    *)
(***************************************************************************)
EXTENDS JobWorkflow, FiniteSetTheorems, SequenceTheorems, WellFoundedInduction, TLAPS

Labels == {"new", "done", "load", "lock", "decide", "skip", "mark", "run", "persist",
           "fail", "compensate", "finish", "release"}

LockTypes ==
  /\ holds \in [Sessions -> Nat]
  /\ handle \in [Clients -> Sessions \cup {None}]
  /\ pc \in [Clients -> Labels]

(* A call asks for the lock without holding it.                            *)
AsksOnce == \A c \in Clients : pc[c] \in {"new", "done", "load", "lock"} => handle[c] = None

OneHolder == \A s, t \in Sessions : holds[s] # 0 /\ holds[t] # 0 => s = t

OwnSession == \A c \in Clients : handle[c] # None => handle[c] \in Pool(c)

HandlesOn(s) == {c \in Clients : handle[c] = s}

Covered == \A s \in Sessions : Cardinality(HandlesOn(s)) <= holds[s]

LockInv == LockTypes /\ AsksOnce /\ OneHolder /\ OwnSession /\ Covered

----------------------------------------------------------------------------
LEMMA PoolSessions == \A c \in Clients : Pool(c) \subseteq Sessions
  BY LockAssumption DEF Pool

LEMMA HandlesFinite ==
  ASSUME NEW s
  PROVE  IsFiniteSet(HandlesOn(s)) /\ Cardinality(HandlesOn(s)) \in Nat
  BY LockAssumption, FS_Subset, FS_CardinalityType DEF HandlesOn

(* A session with an unreleased handle holds the lock.                     *)
LEMMA HandleHolds ==
  ASSUME LockInv, NEW c \in Clients, handle[c] # None
  PROVE  handle[c] \in Sessions /\ holds[handle[c]] \in Nat \ {0}
  <1> DEFINE s == handle[c]
  <1>1. s \in Sessions /\ holds[s] \in Nat
    BY DEF LockInv, LockTypes
  <1>2. c \in HandlesOn(s)
    BY DEF HandlesOn
  <1>3. Cardinality(HandlesOn(s)) # 0
    BY <1>2, HandlesFinite, FS_EmptySet
  <1>4. Cardinality(HandlesOn(s)) <= holds[s]
    BY <1>1 DEF LockInv, Covered
  <1> QED
    BY <1>1, <1>3, <1>4, HandlesFinite

LEMMA InvGivesExclusion == LockInv => OneProcessHolds
  <1> SUFFICES ASSUME LockInv, NEW c \in Clients, NEW d \in Clients,
                      handle[c] # None, handle[d] # None
               PROVE  ProcOf[c] = ProcOf[d]
    BY DEF OneProcessHolds
  <1>1. /\ handle[c] \in Sessions /\ holds[handle[c]] # 0
        /\ handle[d] \in Sessions /\ holds[handle[d]] # 0
    BY HandleHolds
  <1>2. handle[c] = handle[d]
    BY <1>1 DEF LockInv, OneHolder
  <1>3. handle[c] \in SessionsOf[ProcOf[c]] /\ handle[c] \in SessionsOf[ProcOf[d]]
    BY <1>2 DEF LockInv, OwnSession, Pool
  <1> QED
    BY <1>3, LockAssumption

LEMMA InitLockInv == SagaInit => LockInv
  <1> SUFFICES ASSUME SagaInit PROVE LockInv
    OBVIOUS
  <1>1. LockTypes /\ AsksOnce /\ OneHolder /\ OwnSession
    BY DEF SagaInit, LockInit, LockTypes, AsksOnce, OneHolder, OwnSession, Labels
  <1>2. \A s \in Sessions : HandlesOn(s) = {}
    BY LockAssumption DEF SagaInit, LockInit, HandlesOn
  <1>3. Covered
    BY <1>2, FS_EmptySet DEF Covered, SagaInit, LockInit
  <1> QED
    BY <1>1, <1>3 DEF LockInv

----------------------------------------------------------------------------
(* What the lock's operations do to its part of the invariant.             *)
HolderInv == OneHolder /\ OwnSession /\ Covered

LEMMA GrantKeeps ==
  ASSUME LockInv, NEW c \in Clients, NEW s, handle[c] = None, Granted(c, s)
  PROVE  HolderInv'
  <1>1. s \in Sessions /\ s # None /\ holds[s] \in Nat
    BY PoolSessions, LockAssumption DEF LockInv, LockTypes, Granted
  <1>2. /\ holds' = [holds EXCEPT ![s] = holds[s] + 1]
        /\ handle' = [handle EXCEPT ![c] = s]
        /\ \A t \in Sessions : t # s => holds[t] = 0
    BY DEF Granted, Grantable
  <1>3. OneHolder'
    BY <1>1, <1>2 DEF OneHolder, LockInv, LockTypes
  <1>4. OwnSession'
    BY <1>2 DEF OwnSession, LockInv, LockTypes, Granted, Pool
  <1>5. ASSUME NEW t \in Sessions PROVE Cardinality(HandlesOn(t)') <= holds'[t]
    <2>1. Cardinality(HandlesOn(t)) <= holds[t] /\ holds[t] \in Nat
      BY DEF LockInv, Covered, LockTypes
    <2>2. CASE t = s
      <3>1. HandlesOn(t)' = HandlesOn(t) \cup {c} /\ c \notin HandlesOn(t)
        BY <1>1, <1>2, <2>2 DEF HandlesOn, LockInv, LockTypes
      <3>2. Cardinality(HandlesOn(t)') = Cardinality(HandlesOn(t)) + 1
        BY <3>1, HandlesFinite, FS_AddElement
      <3> QED
        BY <1>1, <1>2, <2>1, <2>2, <3>2, HandlesFinite DEF LockInv, LockTypes
    <2>3. CASE t # s
      <3>1. HandlesOn(t)' = HandlesOn(t)
        BY <1>1, <1>2, <2>3, LockAssumption DEF HandlesOn, LockInv, LockTypes
      <3> QED
        BY <1>2, <2>1, <2>3, <3>1 DEF LockInv, LockTypes
    <2> QED
      BY <2>2, <2>3
  <1> QED
    BY <1>3, <1>4, <1>5 DEF HolderInv, Covered

(* Handles that are only dropped leave the rest as it is.                  *)
LEMMA DropKeeps ==
  ASSUME LockInv, NEW D \in SUBSET Clients, holds' = holds,
         handle' = [c \in Clients |-> IF c \in D THEN None ELSE handle[c]]
  PROVE  HolderInv'
  <1>1. OneHolder'
    BY DEF OneHolder, LockInv
  <1>2. OwnSession'
    BY DEF OwnSession, LockInv, Pool
  <1>3. ASSUME NEW t \in Sessions PROVE Cardinality(HandlesOn(t)') <= holds'[t]
    <2>1. Cardinality(HandlesOn(t)) <= holds[t] /\ holds[t] \in Nat
      BY DEF LockInv, Covered, LockTypes
    <2>2. HandlesOn(t)' \subseteq HandlesOn(t)
      BY LockAssumption DEF HandlesOn
    <2>3. /\ Cardinality(HandlesOn(t)') <= Cardinality(HandlesOn(t))
          /\ Cardinality(HandlesOn(t)') \in Nat
      BY <2>2, HandlesFinite, FS_Subset, FS_CardinalityType
    <2> QED
      BY <2>1, <2>3, HandlesFinite
  <1> QED
    BY <1>1, <1>2, <1>3 DEF HolderInv, Covered

(* An unlock hits the session the handle came from, whose count it lowers  *)
(* with the number of its handles, or one that holds nothing.              *)
LEMMA UnlockKeeps ==
  ASSUME LockInv, NEW c \in Clients, NEW s \in Pool(c), handle[c] # None,
         Unlock(s), handle' = [handle EXCEPT ![c] = None]
  PROVE  HolderInv'
  <1> DEFINE h == handle[c]
  <1>1. s \in Sessions /\ h \in Sessions /\ holds[h] \in Nat \ {0}
    BY PoolSessions, HandleHolds
  <1>2. \A t \in Sessions : t # h => holds[t] = 0
    BY <1>1 DEF LockInv, OneHolder
  <1>3. holds' = [holds EXCEPT ![s] = IF holds[s] = 0 THEN 0 ELSE holds[s] - 1]
    BY DEF Unlock
  <1>4. OneHolder'
    BY <1>1, <1>2, <1>3 DEF OneHolder, LockInv, LockTypes
  <1>5. OwnSession'
    BY DEF OwnSession, LockInv, LockTypes, Pool
  <1>6. ASSUME NEW t \in Sessions PROVE Cardinality(HandlesOn(t)') <= holds'[t]
    <2>1. Cardinality(HandlesOn(t)) <= holds[t] /\ holds[t] \in Nat
      BY DEF LockInv, Covered, LockTypes
    <2>2. CASE t = h
      <3>1. HandlesOn(t)' = HandlesOn(t) \ {c} /\ c \in HandlesOn(t)
        BY <1>1, <2>2, LockAssumption DEF HandlesOn, LockInv, LockTypes
      <3>2. Cardinality(HandlesOn(t)') = Cardinality(HandlesOn(t)) - 1
        BY <3>1, HandlesFinite, FS_RemoveElement
      <3>3. holds'[t] >= holds[t] - 1
        BY <1>1, <1>3, <2>1 DEF LockInv, LockTypes
      <3>4. holds'[t] \in Nat
        BY <1>1, <1>3, <2>1 DEF LockInv, LockTypes
      <3> QED
        BY <2>1, <3>2, <3>3, <3>4, HandlesFinite
    <2>3. CASE t # h
      <3>1. HandlesOn(t)' = HandlesOn(t)
        BY <1>1, <2>3, LockAssumption DEF HandlesOn, LockInv, LockTypes
      <3>2. holds'[t] = holds[t]
        BY <1>1, <1>2, <1>3, <2>3 DEF LockInv, LockTypes
      <3> QED
        BY <2>1, <3>1, <3>2
    <2> QED
      BY <2>2, <2>3
  <1> QED
    BY <1>4, <1>5, <1>6 DEF HolderInv, Covered

LEMMA ReleaseKeeps ==
  ASSUME LockInv, NEW c \in Clients, release(c)
  PROVE  HolderInv'
  <1>1. handle' = [handle EXCEPT ![c] = None]
    BY DEF release
  <1>2. CASE handle[c] = None
    <2>1. holds' = holds
      BY <1>2 DEF release
    <2>2. handle' = [d \in Clients |-> IF d \in {c} THEN None ELSE handle[d]]
      BY <1>1 DEF LockInv, LockTypes
    <2> QED
      BY <2>1, <2>2, DropKeeps
  <1>3. CASE handle[c] # None
    <2>1. PICK s \in Pool(c) : Unlock(s)
      BY <1>3 DEF release
    <2> QED
      BY <1>1, <1>3, <2>1, UnlockKeeps
  <1> QED
    BY <1>2, <1>3

LEMMA CrashKeeps ==
  ASSUME LockInv, NEW p \in Procs, LockCrash(p)
  PROVE  HolderInv'
  <1>1. /\ holds' = [s \in Sessions |-> IF s \in SessionsOf[p] THEN 0 ELSE holds[s]]
        /\ handle' = [c \in Clients |-> IF ProcOf[c] = p THEN None ELSE handle[c]]
    BY DEF LockCrash
  <1>2. OneHolder'
    BY <1>1 DEF OneHolder, LockInv, LockTypes
  <1>3. OwnSession'
    BY <1>1 DEF OwnSession, LockInv, Pool
  <1>4. ASSUME NEW t \in Sessions PROVE Cardinality(HandlesOn(t)') <= holds'[t]
    <2>1. Cardinality(HandlesOn(t)) <= holds[t] /\ holds[t] \in Nat
      BY DEF LockInv, Covered, LockTypes
    <2>2. CASE t \in SessionsOf[p]
      <3>1. HandlesOn(t)' = {}
        BY <1>1, <2>2, LockAssumption DEF HandlesOn, LockInv, OwnSession, Pool, LockTypes
      <3> QED
        BY <1>1, <2>2, <3>1, FS_EmptySet
    <2>3. CASE t \notin SessionsOf[p]
      <3>1. HandlesOn(t)' \subseteq HandlesOn(t)
        BY <1>1, LockAssumption DEF HandlesOn
      <3>2. /\ Cardinality(HandlesOn(t)') <= Cardinality(HandlesOn(t))
            /\ Cardinality(HandlesOn(t)') \in Nat
        BY <3>1, HandlesFinite, FS_Subset, FS_CardinalityType
      <3> QED
        BY <1>1, <2>1, <2>3, <3>2, HandlesFinite
    <2> QED
      BY <2>2, <2>3
  <1> QED
    BY <1>2, <1>3, <1>4 DEF HolderInv, Covered

(* An attempt that the server granted and the client did not notice.       *)
LEMMA UnseenKeeps ==
  ASSUME LockInv, NEW s \in Sessions, Grantable(s), handle' = handle,
         holds' = [holds EXCEPT ![s] = holds[s] + 1]
  PROVE  HolderInv'
  <1>1. /\ \A t \in Sessions : t # s => holds[t] = 0
        /\ \A t \in Sessions : holds[t] \in Nat
    BY DEF Grantable, LockInv, LockTypes
  <1>2. OneHolder'
    BY <1>1 DEF OneHolder, LockInv, LockTypes
  <1>3. OwnSession'
    BY DEF OwnSession, LockInv, Pool
  <1>4. ASSUME NEW t \in Sessions PROVE Cardinality(HandlesOn(t)') <= holds'[t]
    <2>1. HandlesOn(t)' = HandlesOn(t)
      BY DEF HandlesOn
    <2>2. Cardinality(HandlesOn(t)) <= holds[t]
      BY DEF LockInv, Covered
    <2>3. holds'[t] \in Nat /\ holds[t] \in Nat /\ holds[t] <= holds'[t]
      BY <1>1 DEF LockInv, LockTypes
    <2> QED
      BY <2>1, <2>2, <2>3, HandlesFinite
  <1> QED
    BY <1>2, <1>3, <1>4 DEF HolderInv, Covered

LEMMA IdleKeeps ==
  ASSUME LockInv, UNCHANGED <<holds, handle>>
  PROVE  HolderInv'
  BY DEF HolderInv, LockInv, OneHolder, OwnSession, Covered, HandlesOn, Pool

----------------------------------------------------------------------------
(* Steps that leave the lock alone and keep the call on its side of it.    *)
Quiet(c) ==
  /\ UNCHANGED <<holds, handle>>
  /\ \E l \in Labels :
       /\ pc' = [pc EXCEPT ![c] = l]
       /\ l \in {"new", "done", "load", "lock"} => handle[c] = None

LEMMA QuietKeeps ==
  ASSUME LockInv, NEW c \in Clients, Quiet(c)
  PROVE  LockInv'
  <1>1. HolderInv'
    BY IdleKeeps DEF Quiet
  <1>2. LockTypes'
    BY DEF Quiet, LockInv, LockTypes
  <1>3. AsksOnce'
    BY DEF Quiet, LockInv, LockTypes, AsksOnce
  <1> QED
    BY <1>1, <1>2, <1>3 DEF HolderInv, LockInv

LEMMA QuietSteps ==
  ASSUME LockInv, NEW c \in Clients,
         \/ Call(c) \/ Load(c) \/ Decide(c) \/ Skip(c) \/ Mark(c) \/ StepReturns(c)
         \/ StepFails(c) \/ Persist(c) \/ Fail(c) \/ Compensate(c) \/ Finish(c)
  PROVE  Quiet(c)
  <1>1. CASE Call(c)
    BY <1>1 DEF Call, Goto, Quiet, lockVars, Labels, LockInv, AsksOnce
  <1>2. CASE Load(c)
    BY <1>2 DEF Load, Return, Quiet, lockVars, Labels, LockInv, AsksOnce
  <1>3. CASE Decide(c)
    BY <1>3 DEF Decide, Goto, Quiet, lockVars, Labels
  <1>4. CASE Skip(c)
    BY <1>4 DEF Skip, Continue, Quiet, lockVars, Labels
  <1>5. CASE Mark(c)
    BY <1>5 DEF Mark, Goto, Quiet, lockVars, Labels
  <1>6. CASE StepReturns(c)
    BY <1>6 DEF StepReturns, Quiet, lockVars, Labels
  <1>7. CASE StepFails(c)
    BY <1>7 DEF StepFails, Catch, Quiet, lockVars, Labels
  <1>8. CASE Persist(c)
    BY <1>8 DEF Persist, Continue, Quiet, lockVars, Labels
  <1>9. CASE Fail(c)
    BY <1>9 DEF Fail, Goto, Quiet, lockVars, Labels
  <1>10. CASE Compensate(c)
    BY <1>10 DEF Compensate, Quiet, lockVars, Labels
  <1>11. CASE Finish(c)
    BY <1>11 DEF Finish, Goto, Quiet, lockVars, Labels
  <1> QED
    BY <1>1, <1>2, <1>3, <1>4, <1>5, <1>6, <1>7, <1>8, <1>9, <1>10, <1>11

LEMMA LockKeeps ==
  ASSUME LockInv, NEW c \in Clients, Lock(c)
  PROVE  LockInv'
  <1>1. handle[c] = None
    BY DEF Lock, LockInv, AsksOnce
  <1>2. PICK s \in Pool(c) :
          \/ /\ Granted(c, s)
             /\ Continue(c, Completed(view[c])) \/ Goto(c, "release")
          \/ /\ Refused(c, s)
             /\ IF GivesUp(c) THEN Return(c) ELSE UNCHANGED <<pc, view>>
    BY DEF Lock
  <1>3. s \in Sessions
    BY PoolSessions
  <1>4. CASE Refused(c, s) /\ IF GivesUp(c) THEN Return(c) ELSE UNCHANGED <<pc, view>>
    <2>1. CASE ~Grantable(s)
      <3>1. Quiet(c)
        BY <1>1, <1>4, <2>1 DEF Refused, Return, Quiet, Labels, LockInv, LockTypes
      <3> QED
        BY <3>1, QuietKeeps
    <2>2. CASE Grantable(s)
      <3>1. handle' = handle /\ holds' = [holds EXCEPT ![s] = holds[s] + 1]
        BY <1>4, <2>2 DEF Refused
      <3>2. HolderInv'
        BY <1>3, <2>2, <3>1, UnseenKeeps
      <3>3. pc' = pc \/ pc' = [pc EXCEPT ![c] = "done"]
        BY <1>4 DEF Return
      <3>4. LockTypes' /\ AsksOnce'
        BY <1>1, <1>3, <3>1, <3>3 DEF LockInv, LockTypes, AsksOnce, Labels
      <3> QED
        BY <3>2, <3>4 DEF HolderInv, LockInv
    <2> QED
      BY <2>1, <2>2
  <1>5. CASE Granted(c, s) /\ (Continue(c, Completed(view[c])) \/ Goto(c, "release"))
    <2>1. HolderInv'
      BY <1>1, <1>5, GrantKeeps
    <2>2. PICK l \in {"finish", "decide", "mark", "release"} : pc' = [pc EXCEPT ![c] = l]
      BY <1>5 DEF Continue, Goto
    <2>3. LockTypes'
      BY <1>3, <1>5, <2>2 DEF LockInv, LockTypes, Granted, Labels
    <2>4. AsksOnce'
      BY <1>5, <2>2 DEF LockInv, LockTypes, Granted, AsksOnce
    <2> QED
      BY <2>1, <2>3, <2>4 DEF HolderInv, LockInv
  <1> QED
    BY <1>2, <1>4, <1>5

(* A handle is released, with or without its call returning.               *)
LEMMA ReleasedKeeps ==
  ASSUME LockInv, NEW c \in Clients, release(c),
         pc' = pc \/ pc' = [pc EXCEPT ![c] = "done"]
  PROVE  LockInv'
  <1>1. HolderInv'
    BY ReleaseKeeps
  <1>2. holds' \in [Sessions -> Nat]
    <2>1. CASE handle[c] = None
      BY <2>1 DEF release, LockInv, LockTypes
    <2>2. CASE handle[c] # None
      <3>1. PICK s \in Pool(c) : Unlock(s)
        BY <2>2 DEF release
      <3>2. s \in Sessions
        BY PoolSessions
      <3> QED
        BY <3>1, <3>2 DEF Unlock, LockInv, LockTypes
    <2> QED
      BY <2>1, <2>2
  <1>3. handle' = [handle EXCEPT ![c] = None]
    BY DEF release
  <1>4. LockTypes'
    BY <1>2, <1>3 DEF LockInv, LockTypes, Labels
  <1>5. AsksOnce'
    BY <1>3 DEF LockInv, LockTypes, AsksOnce
  <1> QED
    BY <1>1, <1>4, <1>5 DEF HolderInv, LockInv

LEMMA LostReleaseKeeps ==
  ASSUME LockInv, NEW c \in Clients, ReleaseFails(c),
         pc' = pc \/ pc' = [pc EXCEPT ![c] = "done"]
  PROVE  LockInv'
  <1>1. holds' = holds /\ handle' = [d \in Clients |-> IF d \in {c} THEN None ELSE handle[d]]
    BY DEF ReleaseFails, LockInv, LockTypes
  <1>2. HolderInv'
    BY <1>1, DropKeeps, ZenonT(30)
  <1>3. LockTypes' /\ AsksOnce'
    BY <1>1 DEF LockInv, LockTypes, AsksOnce, Labels
  <1> QED
    BY <1>2, <1>3 DEF HolderInv, LockInv

LEMMA FaultKeeps ==
  ASSUME LockInv, NEW c \in Clients, StatementFails(c)
  PROVE  LockInv'
  <1>1. CASE pc[c] = "release"
    BY <1>1, LostReleaseKeeps DEF StatementFails, Return
  <1>2. CASE pc[c] # "release"
    <2>1. Quiet(c)
      BY <1>2 DEF StatementFails, Return, Goto, Catch, Quiet, lockVars, Labels,
                  LockInv, AsksOnce
    <2> QED
      BY <2>1, QuietKeeps
  <1> QED
    BY <1>1, <1>2

LEMMA CrashKeepsInv ==
  ASSUME LockInv, NEW p \in Procs, Crash(p)
  PROVE  LockInv'
  <1>1. HolderInv'
    BY CrashKeeps DEF Crash
  <1>2. LockTypes'
    BY DEF Crash, LockCrash, LockInv, LockTypes, Labels
  <1>3. AsksOnce'
    BY DEF Crash, LockCrash, LockInv, LockTypes, AsksOnce
  <1> QED
    BY <1>1, <1>2, <1>3 DEF HolderInv, LockInv

LEMMA NextLockInv == LockInv /\ [SagaNext]_sagaVars => LockInv'
  <1> SUFFICES ASSUME LockInv, [SagaNext]_sagaVars PROVE LockInv'
    OBVIOUS
  <1>1. ASSUME NEW c \in Clients, Advance(c) PROVE LockInv'
    <2>1. CASE Lock(c)
      BY <2>1, LockKeeps
    <2>2. CASE Release(c)
      BY <2>2, ReleasedKeeps DEF Release, Return
    <2>3. CASE \/ Load(c) \/ Decide(c) \/ Skip(c) \/ Mark(c) \/ StepReturns(c)
               \/ StepFails(c) \/ Persist(c) \/ Fail(c) \/ Compensate(c) \/ Finish(c)
      BY <2>3, QuietSteps, QuietKeeps
    <2> QED
      BY <1>1, <2>1, <2>2, <2>3 DEF Advance
  <1>2. ASSUME NEW c \in Clients, Call(c) PROVE LockInv'
    BY <1>2, QuietSteps, QuietKeeps
  <1>3. ASSUME NEW c \in Clients, Expire(c) PROVE LockInv'
    BY <1>3, ReleasedKeeps, LostReleaseKeeps DEF Expire, TtlExpires
  <1>4. CASE UNCHANGED sagaVars
    <2>1. UNCHANGED <<holds, handle, pc>>
      BY <1>4 DEF sagaVars, lockVars
    <2>2. HolderInv'
      BY <2>1, IdleKeeps
    <2> QED
      BY <2>1, <2>2 DEF HolderInv, LockInv, LockTypes, AsksOnce
  <1> QED
    BY <1>1, <1>2, <1>3, <1>4, FaultKeeps, CrashKeepsInv DEF SagaNext

(* No process enters a workflow's locked section while another process has *)
(* an unreleased handle on it (docs/jobs/index.md: no two workers of a     *)
(* multi-instance deployment): release() and the TTL timer of acquire()    *)
(* never give back a lock that a third call relies on.                     *)
THEOREM LockExcludes == SagaSpec => []OneProcessHolds
  <1>1. SagaSpec => []LockInv
    BY InitLockInv, NextLockInv, PTL DEF SagaSpec
  <1> QED
    BY <1>1, InvGivesExclusion, PTL

----------------------------------------------------------------------------
(* What a call does when the lock is never seen as granted.                *)
Outside == /\ pc \in [Clients -> Labels]
           /\ \A c \in Clients : pc[c] \in {"new", "load", "lock", "done"}
           /\ row \in [status : {"none", "pending"}, step : {1}, outputs : {{}}]

LEMMA OutsideNext ==
  ASSUME ~ParsesBooleans, Outside, [SagaNext]_sagaVars
  PROVE  Outside'
  <1>1. ASSUME NEW c \in Clients, Call(c) PROVE Outside'
    BY <1>1 DEF Call, Goto, Outside, Labels
  <1>2. ASSUME NEW c \in Clients, Advance(c) PROVE Outside'
    <2>1. Load(c) \/ Lock(c)
      BY <1>2 DEF Outside, Advance, Decide, Skip, Mark, StepReturns, StepFails, Persist,
                  Fail, Compensate, Finish, Release
    <2>2. row' = row
      BY <2>1 DEF Load, Lock
    <2>3. \E l \in {"lock", "done"} : pc' = pc \/ pc' = [pc EXCEPT ![c] = l]
      BY <2>1 DEF Load, Lock, Return, Granted
    <2> QED
      BY <2>2, <2>3 DEF Outside, Labels
  <1>3. ASSUME NEW c \in Clients, StatementFails(c) PROVE Outside'
    <2>1. row' = row /\ pc' = [pc EXCEPT ![c] = "done"]
      BY <1>3 DEF StatementFails, Return, Outside
    <2> QED
      BY <2>1 DEF Outside, Labels
  <1>4. ASSUME NEW c \in Clients, Expire(c) PROVE Outside'
    BY <1>4 DEF Expire, Outside
  <1>5. ASSUME NEW p \in Procs, Crash(p) PROVE Outside'
    BY <1>5 DEF Crash, Outside, Labels
  <1>6. CASE UNCHANGED sagaVars
    BY <1>6 DEF sagaVars, Outside
  <1> QED
    BY <1>1, <1>2, <1>3, <1>4, <1>5, <1>6 DEF SagaNext

(* Over a pool that delivers columns as text, as the type JobQueuePool     *)
(* says and PgPool does, _tryAcquire never returns true: no step of any    *)
(* workflow is ever run, and no workflow leaves `pending`.                 *)
THEOREM TextPoolNeverRuns ==
  ASSUME ~ParsesBooleans
  PROVE  SagaSpec => [](/\ row.status \in {"none", "pending"}
                        /\ \A c \in Clients : pc[c] # "run")
  <1>1. SagaInit => Outside
    BY DEF SagaInit, Outside, Labels
  <1>2. Outside /\ [SagaNext]_sagaVars => Outside'
    BY OutsideNext
  <1>3. Outside => row.status \in {"none", "pending"} /\ \A c \in Clients : pc[c] # "run"
    BY DEF Outside
  <1> QED
    BY <1>1, <1>2, <1>3, PTL DEF SagaSpec

----------------------------------------------------------------------------
(***************************************************************************)
(* What drives the steps, for any number of steps, calls and processes.    *)
(*                                                                         *)
(* Whatever calls overlap, nobody's copy is ahead of what is recorded: the *)
(* steps before its current_step, and the outputs it would write back, are *)
(* recorded steps, except for the one it is at (RowOK, CallOK).  While     *)
(* calls do not overlap, the one call in progress also has a copy that is  *)
(* current (SoloOK): it has every recorded output, and every step that ran *)
(* is on its list of steps to compensate.                                  *)
(***************************************************************************)
Statuses == {"none", "pending", "running", "completed", "failed", "timed_out"}

Row == [status : Statuses, step : 1..(NumSteps + 1), outputs : SUBSET Steps]
View == [step : 1..(NumSteps + 1), outputs : SUBSET Steps, completed : Seq(Steps),
         error : {"none", "failed", "timed_out"}]

SagaTypes == row \in Row /\ view \in [Clients -> View] /\ pc \in [Clients -> Labels]

Recorded == ran \cup skipped

RowOK(r, done) == 1..(r.step - 1) \subseteq done /\ r.outputs \subseteq done

CallOK(l, v, done) ==
  /\ l \in {"decide", "skip", "mark", "run", "persist"} => v.step \in Steps
  /\ l = "compensate" => v.completed # <<>>
  /\ l = "fail" => v.error # "none"
  /\ l = "lock" => v.completed = <<>>
  /\ l \in {"skip", "persist"} => v.step \in v.outputs
  /\ 1..(v.step - 1) \subseteq done /\ v.outputs \subseteq done \cup {v.step}
  /\ l \in {"lock", "decide", "mark", "run"} => v.outputs \subseteq done

Elems(q) == {q[k] : k \in 1..Len(q)}
Undo(v) == Elems(v.completed)

SoloRow(r, did) == did \subseteq r.outputs /\ did \subseteq 1..(r.step - 1)

SoloOK(l, v, r, did, undone) ==
  /\ l \in {"lock", "decide", "skip", "mark", "run", "persist"} =>
       r.outputs \subseteq v.outputs /\ r.step <= v.step
  /\ l \in {"decide", "mark", "run"} => v.step \notin v.outputs
  /\ l \in {"decide", "skip", "mark", "run", "persist", "fail"} => did \subseteq Undo(v)
  /\ l = "compensate" => did \subseteq Undo(v) \cup undone
  /\ l \in {"run", "persist", "fail"} => r.status = "running"
  /\ l \in {"lock", "decide", "skip", "mark", "run", "persist", "fail", "finish"} =>
       r.status \notin {"completed", "failed"}

Undone(status, did, undone) == status \in {"failed", "timed_out"} => did \subseteq undone

OneCall == \A c, d \in Clients : InProgress(c) /\ InProgress(d) => c = d

Solo ==
  /\ OneCall /\ SoloRow(row, ran)
  /\ \A c \in Clients : SoloOK(pc[c], view[c], row, ran, compensated)
  /\ ~abandoned /\ (\A c \in Clients : pc[c] # "compensate") =>
       Undone(row.status, ran, compensated)

SagaInv ==
  /\ SagaTypes
  /\ RowOK(row, Recorded) /\ \A c \in Clients : CallOK(pc[c], view[c], Recorded)
  /\ ~overlapped => Solo

----------------------------------------------------------------------------
(* A set of naturals that is not empty has a least element.                *)
LEMMA Least ==
  ASSUME NEW T \in SUBSET Nat, T # {}
  PROVE  \E x \in T : \A y \in T : x <= y
<1>1. PICK x \in T : \A y \in T : ~(<<y, x>> \in OpToRel(<, Nat))
  BY NatLessThanWellFounded, WFMin, Zenon
<1>2. \A y \in T : ~(y < x)
  BY <1>1 DEF OpToRel
<1> QED BY <1>2

(* The loop finds the first step the copy has not as recorded.             *)
LEMMA FirstOpenFinds ==
  ASSUME NEW v \in View
  PROVE  /\ FirstOpen(v) \in v.step..(NumSteps + 1) /\ FirstOpen(v) \notin v.outputs
         /\ \A j \in v.step..(FirstOpen(v) - 1) : j \in v.outputs
<1>t. NumSteps \in Nat /\ v.step \in 1..(NumSteps + 1) /\ v.outputs \subseteq 1..NumSteps
  BY WorkflowAssumption DEF View, Steps
<1> DEFINE open == {i \in v.step..(NumSteps + 1) : i \notin v.outputs}
<1>1. NumSteps + 1 \in open /\ open \in SUBSET Nat
  BY <1>t
<1>2. PICK x \in open : \A y \in open : x <= y
  BY <1>1, Least
<1>3. /\ x \in v.step..(NumSteps + 1) /\ x \notin v.outputs
      /\ \A j \in v.step..(x - 1) : j \in v.outputs
  BY <1>t, <1>2
<1> QED BY <1>3 DEF FirstOpen

LEMMA IntervalSeq ==
  ASSUME NEW i \in 1..(NumSteps + 1), NEW j \in i..(NumSteps + 1)
  PROVE  /\ Interval(i, j) \in Seq(Steps) /\ Len(Interval(i, j)) = j - i
         /\ Elems(Interval(i, j)) = i..(j - 1)
<1>t. NumSteps \in Nat /\ j - i \in Nat
  BY WorkflowAssumption
<1>1. Interval(i, j) \in [1..(j - i) -> Steps]
  BY <1>t DEF Interval, Steps
<1>2. ASSUME NEW x \in i..(j - 1) PROVE \E k \in 1..(j - i) : x = Interval(i, j)[k]
  <2>1. x - i + 1 \in 1..(j - i) /\ x = Interval(i, j)[x - i + 1]
    BY <1>t DEF Interval
  <2> QED BY <2>1
<1>3. \A k \in 1..(j - i) : Interval(i, j)[k] \in i..(j - 1)
  BY <1>t DEF Interval
<1>4. Interval(i, j) \in Seq(Steps) /\ Len(Interval(i, j)) = j - i
  BY <1>t, <1>1, IsASeq
<1>5. Elems(Interval(i, j)) \subseteq i..(j - 1)
  BY <1>3, <1>4 DEF Elems
<1>6. i..(j - 1) \subseteq Elems(Interval(i, j))
  BY <1>2, <1>4 DEF Elems
<1> QED BY <1>4, <1>5, <1>6

LEMMA ElemsConcat ==
  ASSUME NEW a \in Seq(Steps), NEW b \in Seq(Steps), NEW ab, ab = a \o b
  PROVE  Elems(ab) = Elems(a) \cup Elems(b)
<1>1. /\ Len(ab) = Len(a) + Len(b) /\ Len(a) \in Nat /\ Len(b) \in Nat
      /\ \A i \in 1..(Len(a) + Len(b)) : ab[i] = IF i <= Len(a) THEN a[i] ELSE b[i - Len(a)]
  BY ConcatProperties, LenProperties
<1>2. \A i \in 1..Len(a) : ab[i] = a[i] /\ i \in 1..Len(ab)
  BY <1>1
<1>3. ASSUME NEW i \in 1..Len(b)
      PROVE  \E k \in 1..Len(ab) : ab[k] = b[i]
  <2>1. i + Len(a) \in 1..Len(ab) /\ ab[i + Len(a)] = b[i]
    BY <1>1
  <2> QED BY <2>1
<1>4. ASSUME NEW i \in 1..Len(ab)
      PROVE  (\E k \in 1..Len(a) : ab[i] = a[k]) \/ \E k \in 1..Len(b) : ab[i] = b[k]
  <2>1. CASE i <= Len(a)
    BY <1>1, <2>1
  <2>2. CASE ~(i <= Len(a))
    <3>1. i - Len(a) \in 1..Len(b) /\ ab[i] = b[i - Len(a)]
      BY <1>1, <2>2
    <3> QED BY <3>1
  <2> QED BY <2>1, <2>2
<1>5. Elems(a) \subseteq Elems(ab) /\ Elems(b) \subseteq Elems(ab)
  <2>1. ASSUME NEW x \in Elems(a) PROVE x \in Elems(ab)
    BY <1>2 DEF Elems
  <2>2. ASSUME NEW x \in Elems(b) PROVE x \in Elems(ab)
    BY <1>3 DEF Elems
  <2> QED BY <2>1, <2>2
<1>6. Elems(ab) \subseteq Elems(a) \cup Elems(b)
  BY <1>4, Zenon DEF Elems
<1> QED BY <1>5, <1>6

LEMMA SkipRecordedFinds ==
  ASSUME NEW v \in View, NEW w, w = SkipRecorded(v)
  PROVE  /\ w \in View /\ w.step \in v.step..(NumSteps + 1) /\ w.outputs = v.outputs
         /\ w.error = v.error
         /\ w.step \notin w.outputs /\ v.step..(w.step - 1) \subseteq v.outputs
         /\ Undo(w) = Undo(v) \cup (v.step..(w.step - 1))
<1> DEFINE f == FirstOpen(v)
<1>1. /\ f \in v.step..(NumSteps + 1) /\ f \notin v.outputs
      /\ v.step..(f - 1) \subseteq v.outputs
  BY FirstOpenFinds
<1>t. /\ NumSteps \in Nat /\ v.step \in 1..(NumSteps + 1) /\ v.completed \in Seq(Steps)
      /\ f \in 1..(NumSteps + 1)
  BY <1>1, WorkflowAssumption DEF View
<1> HIDE DEF f
<1>2. /\ Interval(v.step, f) \in Seq(Steps) /\ Len(Interval(v.step, f)) = f - v.step
      /\ Elems(Interval(v.step, f)) = v.step..(f - 1)
  BY <1>1, <1>t, IntervalSeq
<1>3. /\ w = [v EXCEPT !.step = f, !.completed = v.completed \o Interval(v.step, f)]
  BY DEF SkipRecorded, f
<1>4. /\ w.step = f /\ w.completed = v.completed \o Interval(v.step, f)
      /\ w.outputs = v.outputs /\ w.error = v.error
  BY <1>3 DEF View
<1>5. v.completed \o Interval(v.step, f) \in Seq(Steps)
  BY <1>2, <1>t, ConcatProperties
<1>6. w \in View
  BY <1>1, <1>3, <1>5, <1>t DEF View
<1>7. Undo(w) = Undo(v) \cup Elems(Interval(v.step, f))
  BY <1>2, <1>4, <1>t, ElemsConcat DEF Undo
<1> QED BY <1>1, <1>2, <1>4, <1>6, <1>7

(* A step of one call: what must be shown of it.                           *)
Moves(c, l, v) ==
  /\ l \in Labels /\ v \in View
  /\ pc' = [pc EXCEPT ![c] = l] /\ view' = [view EXCEPT ![c] = v]

LEMMA OneMoves ==
  ASSUME SagaInv, NEW c \in Clients, NEW l, NEW v, Moves(c, l, v), InProgress(c),
         row' \in Row, ran \subseteq ran', skipped \subseteq skipped',
         UNCHANGED <<overlapped, abandoned>>,
         RowOK(row', Recorded'), CallOK(l, v, Recorded'),
         Solo => /\ SoloRow(row', ran') /\ SoloOK(l, v, row', ran', compensated')
                 /\ ~abandoned /\ l # "compensate" => Undone(row'.status, ran', compensated')
  PROVE  SagaInv'
<1>t. SagaTypes'
  BY DEF SagaInv, SagaTypes, Moves
<1>1. /\ pc'[c] = l /\ view'[c] = v
      /\ \A d \in Clients \ {c} : pc'[d] = pc[d] /\ view'[d] = view[d]
  BY DEF SagaInv, SagaTypes, Moves
<1>2. ASSUME NEW d \in Clients PROVE CallOK(pc[d], view[d], Recorded)'
  <2>1. CASE d = c
    BY <1>1, <2>1
  <2>2. CASE d # c
    <3>1. CallOK(pc[d], view[d], Recorded) /\ Recorded \subseteq Recorded'
      BY DEF SagaInv, Recorded
    <3> QED BY <1>1, <2>2, <3>1 DEF CallOK
  <2> QED BY <2>1, <2>2
<1>3. ASSUME ~overlapped' PROVE Solo'
  <2>1. Solo
    BY <1>3 DEF SagaInv
  <2>2. \A d \in Clients \ {c} : pc[d] \in {"new", "done"}
    BY <2>1 DEF Solo, OneCall, InProgress
  <2>3. OneCall'
    BY <1>1, <2>2 DEF OneCall, InProgress
  <2>4. ASSUME NEW d \in Clients PROVE SoloOK(pc[d], view[d], row, ran, compensated)'
    <3>1. CASE d = c
      BY <1>1, <2>1, <3>1
    <3>2. CASE d # c
      <4>1. pc'[d] \in {"new", "done"}
        BY <1>1, <2>2, <3>2
      <4> QED BY <4>1 DEF SoloOK
    <3> QED BY <3>1, <3>2
  <2>5. ASSUME ~abandoned', \A d \in Clients : pc'[d] # "compensate"
        PROVE  Undone(row.status, ran, compensated)'
    BY <1>1, <2>1, <2>5
  <2> QED BY <2>1, <2>3, <2>4, <2>5 DEF Solo
<1> QED BY <1>t, <1>2, <1>3 DEF SagaInv

(* The call goes on to a place where its copy does not matter.             *)
LEMMA Leaves ==
  ASSUME SagaInv, NEW c \in Clients, InProgress(c), pc[c] # "compensate",
         UNCHANGED <<row, history>>, Return(c) \/ Goto(c, "release")
  PROVE  SagaInv'
<1>t. /\ view[c] \in View /\ pc[c] \in Labels /\ view \in [Clients -> View] /\ NumSteps \in Nat
      /\ CallOK(pc[c], view[c], Recorded) /\ RowOK(row, Recorded) /\ row \in Row
  BY WorkflowAssumption DEF SagaInv, SagaTypes
<1>1. PICK v \in {view[c], NoView}, l \in {"done", "release"} :
        pc' = [pc EXCEPT ![c] = l] /\ view' = [view EXCEPT ![c] = v]
  BY <1>t DEF Return, Goto
<1>2. NoView \in View
  BY <1>t, EmptySeq DEF NoView, View
<1>3. Moves(c, l, v)
  BY <1>t, <1>1, <1>2 DEF Moves, Labels
<1>4. CallOK(l, v, Recorded)
  BY <1>t, <1>1 DEF CallOK, NoView
<1>5. SoloOK(l, v, row, ran, compensated)
  BY <1>1 DEF SoloOK
<1>6. ASSUME Solo, ~abandoned PROVE Undone(row.status, ran, compensated)
  BY <1>6 DEF Solo, OneCall, InProgress
<1>7. UNCHANGED <<row, ran, skipped, compensated, overlapped, abandoned, Recorded>>
  BY DEF history, Recorded
<1>8. Solo => /\ SoloRow(row', ran') /\ SoloOK(l, v, row', ran', compensated')
              /\ ~abandoned /\ l # "compensate" => Undone(row'.status, ran', compensated')
  BY <1>5, <1>6, <1>7 DEF Solo
<1> QED BY <1>3, <1>4, <1>7, <1>8, <1>t, OneMoves

(* The call goes on in its loop: the three places of Continue.             *)
LEMMA Continues ==
  ASSUME SagaInv, NEW c \in Clients, NEW v \in View, Continue(c, v), InProgress(c),
         pc[c] # "compensate", UNCHANGED <<compensated, overlapped, abandoned>>,
         row' \in Row, ran \subseteq ran', skipped \subseteq skipped',
         RowOK(row', Recorded'), 1..(v.step - 1) \subseteq Recorded', v.outputs \subseteq Recorded',
         Solo => /\ SoloRow(row', ran')
                 /\ row'.outputs \subseteq v.outputs /\ row'.step <= v.step /\ ran' \subseteq Undo(v)
                 /\ row'.status \notin {"completed", "failed"}
                 /\ row'.status = row.status /\ (row.status = "running" \/ ran' = ran)
  PROVE  SagaInv'
<1>1. PICK w : w = SkipRecorded(v)
  OBVIOUS
<1>2. /\ w \in View /\ w.step \in v.step..(NumSteps + 1) /\ w.outputs = v.outputs
      /\ w.step \notin w.outputs /\ v.step..(w.step - 1) \subseteq v.outputs
      /\ Undo(w) = Undo(v) \cup (v.step..(w.step - 1))
  BY <1>1, SkipRecordedFinds
<1>t. NumSteps \in Nat /\ v.step \in 1..(NumSteps + 1) /\ w.step \in 1..(NumSteps + 1)
  BY <1>2, WorkflowAssumption DEF View
<1>a. w.step > NumSteps \/ w.step \in Steps
  BY <1>t DEF Steps
<1>3. PICK l \in {"finish", "decide", "mark"} :
        /\ l # "finish" => w.step \in Steps
        /\ pc' = [pc EXCEPT ![c] = l]
        /\ view' = [view EXCEPT ![c] = w]
  BY <1>1, <1>a DEF Continue
<1>4. Moves(c, l, w)
  BY <1>2, <1>3 DEF Moves, Labels
<1>5. 1..(w.step - 1) \subseteq Recorded'
  BY <1>2, <1>t
<1>6. CallOK(l, w, Recorded')
  BY <1>2, <1>3, <1>5 DEF CallOK
<1>7. ASSUME Solo
      PROVE  /\ SoloRow(row', ran') /\ SoloOK(l, w, row', ran', compensated')
             /\ ~abandoned /\ l # "compensate" => Undone(row'.status, ran', compensated')
  <2>1. row'.step \in 1..(NumSteps + 1) /\ row'.step <= w.step
    BY <1>2, <1>7, <1>t DEF Row
  <2>2. SoloOK(l, w, row', ran', compensated')
    BY <1>2, <1>3, <1>7, <2>1 DEF SoloOK
  <2>3. ASSUME ~abandoned PROVE Undone(row'.status, ran', compensated')
    <3>1. Undone(row.status, ran, compensated)
      BY <1>7, <2>3 DEF Solo, OneCall, InProgress
    <3> QED BY <1>7, <3>1 DEF Undone
  <2> QED BY <1>7, <2>2, <2>3
<1> QED BY <1>4, <1>6, <1>7, OneMoves

----------------------------------------------------------------------------
(* What the invariant says of the call that takes a step.                  *)
LEMMA Here ==
  ASSUME SagaInv, NEW c \in Clients
  PROVE  /\ row \in Row /\ view \in [Clients -> View] /\ pc \in [Clients -> Labels]
         /\ view[c] \in View /\ pc[c] \in Labels /\ NumSteps \in Nat
         /\ row.step \in 1..(NumSteps + 1) /\ view[c].step \in 1..(NumSteps + 1)
         /\ CallOK(pc[c], view[c], Recorded) /\ RowOK(row, Recorded)
         /\ Solo => SoloRow(row, ran) /\ SoloOK(pc[c], view[c], row, ran, compensated)
BY WorkflowAssumption DEF SagaInv, SagaTypes, Solo, Row, View

(* While calls do not overlap and the one in progress is not compensating, *)
(* nobody is.                                                              *)
LEMMA NobodyUndoes ==
  ASSUME Solo, ~abandoned, NEW c \in Clients, InProgress(c), pc[c] # "compensate"
  PROVE  Undone(row.status, ran, compensated)
BY DEF Solo, OneCall, InProgress

(* Steps that only change the call and its copy.                           *)
LEMMA Stays ==
  ASSUME SagaInv, NEW c \in Clients, InProgress(c), pc[c] # "compensate",
         UNCHANGED <<row, history>>, NEW l, NEW v, Moves(c, l, v), l # "compensate",
         CallOK(l, v, Recorded), Solo => SoloOK(l, v, row, ran, compensated)
  PROVE  SagaInv'
<1>1. UNCHANGED <<row, ran, skipped, compensated, overlapped, abandoned, Recorded>>
  BY DEF history, Recorded
<1>2. Solo => /\ SoloRow(row', ran') /\ SoloOK(l, v, row', ran', compensated')
              /\ ~abandoned /\ l # "compensate" => Undone(row'.status, ran', compensated')
  BY <1>1, Here, NobodyUndoes
<1> QED BY <1>1, <1>2, Here, OneMoves

LEMMA LoadKeeps ==
  ASSUME SagaInv, NEW c \in Clients, Load(c)
  PROVE  SagaInv'
<1>0. InProgress(c) /\ pc[c] = "load"
  BY DEF Load, InProgress
<1>1. CASE row.status \in {"completed", "failed"}
  BY <1>0, <1>1, Leaves DEF Load
<1>2. CASE row.status \notin {"completed", "failed"}
  <2> DEFINE v == [NoView EXCEPT !.step = row.step, !.outputs = row.outputs]
  <2>1. /\ v \in View /\ v.step = row.step /\ v.outputs = row.outputs /\ v.completed = <<>>
    BY Here, EmptySeq DEF NoView, View, Row
  <2>2. UNCHANGED <<row, history>> /\ Moves(c, "lock", v)
    BY <1>2, <2>1 DEF Load, Moves, Labels
  <2> HIDE DEF v
  <2>3. CallOK("lock", v, Recorded)
    BY <2>1, Here DEF CallOK, RowOK
  <2>4. SoloOK("lock", v, row, ran, compensated)
    BY <1>2, <2>1, Here DEF SoloOK
  <2> QED BY <1>0, <2>2, <2>3, <2>4, Stays
<1> QED BY <1>1, <1>2

LEMMA GrantContinues ==
  ASSUME SagaInv, NEW c \in Clients, pc[c] = "lock", Continue(c, Completed(view[c])),
         UNCHANGED <<row, history>>
  PROVE  SagaInv'
<1>0. InProgress(c) /\ view[c].completed = <<>> /\ view[c].outputs \subseteq Recorded
      /\ 1..(view[c].step - 1) \subseteq Recorded
  BY Here DEF InProgress, CallOK
<1> DEFINE v == Completed(view[c])
<1>1. /\ Interval(1, view[c].step) \in Seq(Steps)
      /\ Elems(Interval(1, view[c].step)) = 1..(view[c].step - 1)
  <2>1. 1 \in 1..(NumSteps + 1) /\ view[c].step \in 1..(NumSteps + 1)
    BY Here
  <2> QED BY <2>1, IntervalSeq
<1>v. /\ v \in View /\ v.step = view[c].step /\ v.outputs = view[c].outputs
      /\ v.completed = Interval(1, view[c].step)
  BY <1>1, Here DEF Completed, View
<1>2. /\ v \in View /\ v.step = view[c].step /\ v.outputs = view[c].outputs
      /\ Undo(v) = 1..(view[c].step - 1)
  BY <1>1, <1>v DEF Undo
<1>3. Continue(c, v)
  OBVIOUS
<1> HIDE DEF v
<1>4. UNCHANGED <<row, ran, skipped, compensated, overlapped, abandoned, Recorded>>
  BY DEF history, Recorded
<1>5. ASSUME Solo
      PROVE  /\ SoloRow(row', ran')
             /\ row'.outputs \subseteq v.outputs /\ row'.step <= v.step /\ ran' \subseteq Undo(v)
             /\ row'.status \notin {"completed", "failed"}
             /\ row'.status = row.status /\ (row.status = "running" \/ ran' = ran)
  <2>1. /\ row.outputs \subseteq view[c].outputs /\ row.step <= view[c].step
        /\ row.status \notin {"completed", "failed"} /\ ran \subseteq 1..(row.step - 1)
        /\ SoloRow(row, ran)
    BY <1>5, Here DEF SoloOK, SoloRow
  <2>2. ran \subseteq 1..(view[c].step - 1)
    BY <2>1, Here
  <2> QED BY <1>2, <1>4, <2>1, <2>2
<1> QED BY <1>0, <1>2, <1>3, <1>4, <1>5, Here, Continues

LEMMA LockSteps ==
  ASSUME SagaInv, NEW c \in Clients, Lock(c)
  PROVE  SagaInv'
<1>0. InProgress(c) /\ pc[c] = "lock" /\ UNCHANGED <<row, history>>
  BY DEF Lock, InProgress
<1>1. CASE Continue(c, Completed(view[c]))
  BY <1>0, <1>1, GrantContinues
<1>2. CASE Goto(c, "release") \/ Return(c)
  BY <1>0, <1>2, Leaves
<1>3. CASE UNCHANGED <<pc, view>>
  <2>1. Moves(c, pc[c], view[c])
    BY <1>3, Here DEF Moves
  <2> QED BY <1>0, <2>1, Here, Stays
<1> QED BY <1>1, <1>2, <1>3 DEF Lock

LEMMA DecideKeeps ==
  ASSUME SagaInv, NEW c \in Clients, Decide(c)
  PROVE  SagaInv'
<1>0. InProgress(c) /\ pc[c] = "decide" /\ UNCHANGED <<row, history>>
  BY DEF Decide, InProgress
<1>1. CASE Goto(c, "release")
  BY <1>0, <1>1, Leaves
<1>2. CASE Goto(c, "mark")
  <2>1. Moves(c, "mark", view[c])
    BY <1>2, Here DEF Moves, Goto, Labels
  <2>2. CallOK("mark", view[c], Recorded)
    BY <1>0, Here DEF CallOK
  <2>3. Solo => SoloOK("mark", view[c], row, ran, compensated)
    BY <1>0, Here DEF SoloOK
  <2> QED BY <1>0, <2>1, <2>2, <2>3, Stays
<1>3. CASE /\ view' = [view EXCEPT ![c].outputs = @ \cup {view[c].step}]
           /\ pc' = [pc EXCEPT ![c] = "skip"]
  <2> DEFINE v == [view[c] EXCEPT !.outputs = @ \cup {view[c].step}]
  <2>1. /\ v \in View /\ v.step = view[c].step /\ v.completed = view[c].completed
        /\ v.outputs = view[c].outputs \cup {view[c].step} /\ v.error = view[c].error
    <3>1. view[c].step \in Steps
      BY <1>0, Here DEF CallOK
    <3> QED BY <3>1, Here DEF View
  <2>2. view' = [view EXCEPT ![c] = v]
    BY <1>3, Here
  <2> HIDE DEF v
  <2>3. Moves(c, "skip", v)
    BY <1>3, <2>1, <2>2 DEF Moves, Labels
  <2>4. CallOK("skip", v, Recorded)
    BY <1>0, <2>1, Here DEF CallOK
  <2>5. Undo(v) = Undo(view[c])
    BY <2>1 DEF Undo
  <2>6. Solo => SoloOK("skip", v, row, ran, compensated)
    BY <1>0, <2>1, <2>5, Here DEF SoloOK
  <2> QED BY <1>0, <2>3, <2>4, <2>6, Stays
<1> QED BY <1>1, <1>2, <1>3 DEF Decide

(* The UPDATE that records a step, and the loop going on after it.         *)
LEMMA RecordedRow ==
  ASSUME SagaInv, NEW c \in Clients, pc[c] \in {"skip", "persist"}, RecordStep(c),
         Recorded' = Recorded \cup {view[c].step}
  PROVE  /\ row' \in Row /\ row'.status = row.status /\ row'.outputs = view[c].outputs
         /\ row'.step = view[c].step + 1 /\ view[c].step \in Steps
         /\ 1..view[c].step \subseteq Recorded' /\ view[c].outputs \subseteq Recorded'
         /\ RowOK(row', Recorded')
<1>1. /\ view[c].step \in Steps /\ 1..(view[c].step - 1) \subseteq Recorded
      /\ view[c].outputs \subseteq Recorded \cup {view[c].step}
  BY Here DEF CallOK
<1>2. /\ row' = [row EXCEPT !.outputs = view[c].outputs, !.step = view[c].step + 1]
      /\ view[c].step + 1 \in 1..(NumSteps + 1) /\ view[c].outputs \in SUBSET Steps
  BY <1>1, Here DEF RecordStep, Steps, View
<1>3. /\ row' \in Row /\ row'.status = row.status /\ row'.outputs = view[c].outputs
      /\ row'.step = view[c].step + 1
  BY <1>2, Here DEF Row
<1>4. 1..view[c].step \subseteq Recorded' /\ view[c].outputs \subseteq Recorded'
  BY <1>1, Here
<1>5. row'.step - 1 = view[c].step
  BY <1>3, Here
<1> QED BY <1>1, <1>3, <1>4, <1>5 DEF RowOK

LEMMA SkipKeeps ==
  ASSUME SagaInv, NEW c \in Clients, Skip(c)
  PROVE  SagaInv'
<1>0. /\ InProgress(c) /\ pc[c] = "skip" /\ RecordStep(c) /\ ran' = ran
      /\ skipped' = skipped \cup {view[c].step}
      /\ UNCHANGED <<compensated, overlapped, abandoned>>
      /\ Recorded' = Recorded \cup {view[c].step}
  BY DEF Skip, InProgress, Recorded
<1>1. /\ row' \in Row /\ row'.status = row.status /\ row'.outputs = view[c].outputs
      /\ row'.step = view[c].step + 1 /\ view[c].step \in Steps
      /\ 1..view[c].step \subseteq Recorded' /\ view[c].outputs \subseteq Recorded'
      /\ RowOK(row', Recorded')
  BY <1>0, RecordedRow
<1> DEFINE v == [view[c] EXCEPT !.step = @ + 1]
<1>2. /\ v \in View /\ v.step = view[c].step + 1 /\ v.outputs = view[c].outputs
      /\ v.completed = view[c].completed
  <2>1. view[c].step + 1 \in 1..(NumSteps + 1)
    BY <1>1, Here DEF Steps
  <2> QED BY <2>1, Here DEF View
<1>3. Continue(c, v)
  BY DEF Skip
<1> HIDE DEF v
<1>4. v.step - 1 = view[c].step /\ Undo(v) = Undo(view[c])
  BY <1>2, Here DEF Undo
<1>5. ASSUME Solo
      PROVE  /\ SoloRow(row', ran')
             /\ row'.outputs \subseteq v.outputs /\ row'.step <= v.step /\ ran' \subseteq Undo(v)
             /\ row'.status \notin {"completed", "failed"}
             /\ row'.status = row.status /\ (row.status = "running" \/ ran' = ran)
  <2>1. /\ row.outputs \subseteq view[c].outputs /\ row.step <= view[c].step
        /\ row.status \notin {"completed", "failed"} /\ ran \subseteq Undo(view[c])
        /\ ran \subseteq row.outputs /\ ran \subseteq 1..(row.step - 1)
    BY <1>0, <1>5, Here DEF SoloOK, SoloRow
  <2>2. ran \subseteq 1..(row'.step - 1)
    BY <1>1, <2>1, Here
  <2> QED BY <1>0, <1>1, <1>2, <1>4, <2>1, <2>2, Here DEF SoloRow
<1> QED BY <1>0, <1>1, <1>2, <1>3, <1>4, <1>5, Continues

LEMMA PersistKeeps ==
  ASSUME SagaInv, NEW c \in Clients, Persist(c)
  PROVE  SagaInv'
<1>0. /\ InProgress(c) /\ pc[c] = "persist" /\ RecordStep(c) /\ skipped' = skipped
      /\ ran' = ran \cup {view[c].step}
      /\ UNCHANGED <<compensated, overlapped, abandoned>>
      /\ Recorded' = Recorded \cup {view[c].step}
  BY DEF Persist, InProgress, Recorded
<1>1. /\ row' \in Row /\ row'.status = row.status /\ row'.outputs = view[c].outputs
      /\ row'.step = view[c].step + 1 /\ view[c].step \in Steps
      /\ 1..view[c].step \subseteq Recorded' /\ view[c].outputs \subseteq Recorded'
      /\ RowOK(row', Recorded')
  BY <1>0, RecordedRow
<1> DEFINE done == Append(view[c].completed, view[c].step)
           v == [view[c] EXCEPT !.completed = Append(@, view[c].step), !.step = @ + 1]
<1>a. done \in Seq(Steps) /\ Elems(done) = Elems(view[c].completed) \cup {view[c].step}
  <2>1. view[c].completed \in Seq(Steps) /\ <<view[c].step>> \in Seq(Steps)
    BY <1>1, Here DEF View
  <2>2. done = view[c].completed \o <<view[c].step>>
    BY <1>1, <2>1, AppendIsConcat
  <2>3. done \in Seq(Steps)
    BY <2>1, <2>2, ConcatProperties
  <2>4. Elems(done) = Elems(view[c].completed) \cup Elems(<<view[c].step>>)
    BY <2>1, <2>2, ElemsConcat
  <2>5. Elems(<<view[c].step>>) = {view[c].step}
    BY DEF Elems
  <2> QED BY <2>3, <2>4, <2>5
<1>2. /\ v \in View /\ v.step = view[c].step + 1 /\ v.outputs = view[c].outputs
      /\ v.completed = done
  <2> HIDE DEF done
  <2>1. view[c].step + 1 \in 1..(NumSteps + 1)
    BY <1>1, Here DEF Steps
  <2>2. v = [view[c] EXCEPT !.completed = done, !.step = @ + 1]
    BY DEF done
  <2> HIDE DEF v
  <2> QED BY <2>1, <2>2, <1>a, Here DEF View
<1>3. Continue(c, v)
  BY DEF Persist
<1> HIDE DEF v, done
<1>4. v.step - 1 = view[c].step /\ Undo(v) = Undo(view[c]) \cup {view[c].step}
  BY <1>2, <1>a, Here DEF Undo
<1>5. ASSUME Solo
      PROVE  /\ SoloRow(row', ran')
             /\ row'.outputs \subseteq v.outputs /\ row'.step <= v.step /\ ran' \subseteq Undo(v)
             /\ row'.status \notin {"completed", "failed"}
             /\ row'.status = row.status /\ (row.status = "running" \/ ran' = ran)
  <2>1. /\ row.outputs \subseteq view[c].outputs /\ row.step <= view[c].step
        /\ row.status = "running" /\ ran \subseteq Undo(view[c])
        /\ ran \subseteq row.outputs /\ ran \subseteq 1..(row.step - 1)
    BY <1>0, <1>5, Here DEF SoloOK, SoloRow
  <2>2. ran' \subseteq 1..(row'.step - 1)
    <3>1. row'.step - 1 = view[c].step /\ view[c].step \in 1..view[c].step
      BY <1>1, Here
    <3>2. ran \subseteq 1..view[c].step
      BY <2>1, Here
    <3> QED BY <1>0, <3>1, <3>2
  <2>3. view[c].step \in view[c].outputs
    BY <1>0, Here DEF CallOK
  <2> QED BY <1>0, <1>1, <1>2, <1>4, <2>1, <2>2, <2>3, Here DEF SoloRow
<1> QED BY <1>0, <1>1, <1>2, <1>3, <1>4, <1>5, Continues

LEMMA MarkKeeps ==
  ASSUME SagaInv, NEW c \in Clients, Mark(c)
  PROVE  SagaInv'
<1>0. /\ InProgress(c) /\ pc[c] = "mark"
      /\ UNCHANGED <<ran, skipped, compensated, overlapped, abandoned, Recorded>>
  BY DEF Mark, InProgress, history, Recorded
<1>1. /\ row' \in Row /\ row'.status = "running" /\ row'.step = view[c].step
      /\ row'.outputs = row.outputs
  BY Here DEF Mark, Row, Statuses
<1>2. Moves(c, "run", view[c])
  BY Here DEF Mark, Goto, Moves, Labels
<1>3. RowOK(row', Recorded') /\ CallOK("run", view[c], Recorded')
  BY <1>0, <1>1, Here DEF RowOK, CallOK
<1>4. ASSUME Solo
      PROVE  /\ SoloRow(row', ran') /\ SoloOK("run", view[c], row', ran', compensated')
             /\ Undone(row'.status, ran', compensated')
  <2>1. SoloRow(row, ran) /\ SoloOK("mark", view[c], row, ran, compensated)
    BY <1>0, <1>4, Here
  <2>2. ran \subseteq 1..(view[c].step - 1) /\ view[c].step <= view[c].step
    BY <2>1, Here DEF SoloRow, SoloOK
  <2>3. SoloRow(row', ran')
    BY <1>0, <1>1, <2>1, <2>2 DEF SoloRow
  <2>4. SoloOK("run", view[c], row', ran', compensated')
    BY <1>0, <1>1, <2>1, <2>2 DEF SoloOK
  <2> QED BY <1>1, <2>3, <2>4 DEF Undone
<1> QED BY <1>0, <1>1, <1>2, <1>3, <1>4, OneMoves

LEMMA ReturnsKeeps ==
  ASSUME SagaInv, NEW c \in Clients, StepReturns(c)
  PROVE  SagaInv'
<1>0. InProgress(c) /\ pc[c] = "run" /\ UNCHANGED <<row, history>>
  BY DEF StepReturns, InProgress
<1> DEFINE v == [view[c] EXCEPT !.outputs = @ \cup {view[c].step}]
<1>1. /\ v \in View /\ v.step = view[c].step /\ v.completed = view[c].completed
      /\ v.outputs = view[c].outputs \cup {view[c].step} /\ v.error = view[c].error
      /\ view[c].step \in Steps
  <2>1. view[c].step \in Steps
    BY <1>0, Here DEF CallOK
  <2> QED BY <2>1, Here DEF View
<1>2. view' = [view EXCEPT ![c] = v]
  BY Here DEF StepReturns
<1> HIDE DEF v
<1>3. Moves(c, "persist", v)
  BY <1>1, <1>2 DEF StepReturns, Moves, Labels
<1>4. CallOK("persist", v, Recorded)
  BY <1>0, <1>1, Here DEF CallOK
<1>5. Undo(v) = Undo(view[c])
  BY <1>1 DEF Undo
<1>6. Solo => SoloOK("persist", v, row, ran, compensated)
  BY <1>0, <1>1, <1>5, Here DEF SoloOK
<1> QED BY <1>0, <1>3, <1>4, <1>6, Stays

(* The step failed, or its output could not be saved.                      *)
LEMMA CatchKeeps ==
  ASSUME SagaInv, NEW c \in Clients, pc[c] \in {"run", "persist"}, UNCHANGED <<row, history>>,
         NEW e \in {"failed", "timed_out"}, Catch(c, e)
  PROVE  SagaInv'
<1>0. InProgress(c)
  BY DEF InProgress
<1> DEFINE v == [view[c] EXCEPT !.error = e]
<1>1. /\ v \in View /\ v.step = view[c].step /\ v.completed = view[c].completed
      /\ v.outputs = view[c].outputs /\ v.error = e
  BY Here DEF View
<1>2. view' = [view EXCEPT ![c] = v]
  BY Here DEF Catch
<1> HIDE DEF v
<1>3. Moves(c, "fail", v)
  BY <1>1, <1>2 DEF Catch, Moves, Labels
<1>4. CallOK("fail", v, Recorded)
  BY <1>1, Here DEF CallOK
<1>5. Undo(v) = Undo(view[c])
  BY <1>1 DEF Undo
<1>6. Solo => SoloOK("fail", v, row, ran, compensated)
  BY <1>1, <1>5, Here DEF SoloOK
<1> QED BY <1>0, <1>3, <1>4, <1>6, Stays

LEMMA FailKeeps ==
  ASSUME SagaInv, NEW c \in Clients, Fail(c)
  PROVE  SagaInv'
<1>0. /\ InProgress(c) /\ pc[c] = "fail"
      /\ UNCHANGED <<ran, skipped, compensated, overlapped, abandoned, Recorded>>
  BY DEF Fail, InProgress, history, Recorded
<1>1. /\ row' \in Row /\ row'.step = row.step /\ row'.outputs = row.outputs
  BY Here DEF Fail, Row, View, Statuses
<1>2. PICK l \in {"release", "compensate"} :
        /\ Moves(c, l, view[c])
        /\ l = "compensate" <=> view[c].completed # <<>>
  BY Here DEF Fail, Goto, Moves, Labels
<1>3. RowOK(row', Recorded') /\ CallOK(l, view[c], Recorded')
  BY <1>0, <1>1, <1>2, Here DEF RowOK, CallOK
<1>4. ASSUME Solo
      PROVE  /\ SoloRow(row', ran') /\ SoloOK(l, view[c], row', ran', compensated')
             /\ l # "compensate" => Undone(row'.status, ran', compensated')
  <2>1. SoloRow(row, ran) /\ ran \subseteq Undo(view[c])
    BY <1>0, <1>4, Here DEF SoloOK
  <2>2. SoloRow(row', ran')
    BY <1>0, <1>1, <2>1 DEF SoloRow
  <2>3. SoloOK(l, view[c], row', ran', compensated')
    BY <1>0, <2>1 DEF SoloOK
  <2>4. ASSUME l # "compensate" PROVE Undone(row'.status, ran', compensated')
    <3>1. view[c].completed = <<>>
      BY <1>2, <2>4
    <3>2. Undo(view[c]) = {}
      BY <3>1 DEF Undo, Elems
    <3> QED BY <1>0, <2>1, <3>2 DEF Undone
  <2> QED BY <2>2, <2>3, <2>4
<1> QED BY <1>0, <1>1, <1>2, <1>3, <1>4, OneMoves

LEMMA CompensateKeeps ==
  ASSUME SagaInv, NEW c \in Clients, Compensate(c)
  PROVE  SagaInv'
<1>0. /\ InProgress(c) /\ pc[c] = "compensate"
      /\ UNCHANGED <<row, ran, skipped, overlapped, abandoned, Recorded>>
  BY DEF Compensate, InProgress, Recorded
<1> DEFINE todo == view[c].completed
           rest == SubSeq(todo, 1, Len(todo) - 1)
           v == [view[c] EXCEPT !.completed = rest]
<1>1. todo \in Seq(Steps) /\ Len(todo) \in Nat \ {0}
  BY <1>0, Here, EmptySeq, LenProperties DEF CallOK, View
<1>2. /\ rest \in Seq(Steps) /\ Len(rest) = Len(todo) - 1
      /\ \A i \in 1..(Len(todo) - 1) : rest[i] = todo[i]
  <2>1. \A i \in 1..(Len(todo) - 1) : todo[i] \in Steps
    BY <1>1, ElementOfSeq
  <2> QED BY <1>1, <2>1, SubSeqProperties
<1>3. Elems(todo) \subseteq Elems(rest) \cup {todo[Len(todo)]}
  BY <1>1, <1>2 DEF Elems
<1>4. /\ compensated' = compensated \cup {todo[Len(todo)]}
      /\ view' = [view EXCEPT ![c].completed = rest]
      /\ pc' = [pc EXCEPT ![c] = IF Len(todo) = 1 THEN "release" ELSE "compensate"]
  BY DEF Compensate
<1> HIDE DEF todo, rest
<1>5. /\ v \in View /\ v.step = view[c].step /\ v.completed = rest
      /\ v.outputs = view[c].outputs
  BY <1>2, Here DEF View
<1>6. view' = [view EXCEPT ![c] = v]
  BY <1>4, Here
<1> HIDE DEF v
<1>7. PICK l \in {"release", "compensate"} :
        /\ l = "release" <=> Len(todo) = 1
        /\ pc' = [pc EXCEPT ![c] = l]
  BY <1>4
<1>8. Moves(c, l, v)
  BY <1>5, <1>6, <1>7 DEF Moves, Labels
<1>9. CallOK(l, v, Recorded')
  <2>1. l = "compensate" => rest # <<>>
    BY <1>1, <1>2, <1>7, EmptySeq
  <2> QED BY <1>0, <1>5, <1>7, <2>1, Here DEF CallOK
<1>10. ASSUME Solo
       PROVE  /\ SoloRow(row', ran') /\ SoloOK(l, v, row', ran', compensated')
              /\ l # "compensate" => Undone(row'.status, ran', compensated')
  <2>1. SoloRow(row, ran) /\ ran \subseteq Elems(todo) \cup compensated
    BY <1>0, <1>10, Here DEF SoloOK, Undo, todo
  <2>2. ran \subseteq Elems(rest) \cup compensated'
    BY <1>3, <1>4, <2>1
  <2>3. SoloOK(l, v, row', ran', compensated')
    BY <1>0, <1>5, <1>7, <2>2 DEF SoloOK, Undo
  <2>4. ASSUME l # "compensate" PROVE ran \subseteq compensated'
    <3>1. Len(rest) = 0
      BY <1>2, <1>7, <2>4
    <3>2. Elems(rest) = {}
      BY <3>1 DEF Elems
    <3> QED BY <2>2, <3>2
  <2> QED BY <1>0, <2>1, <2>3, <2>4 DEF Undone
<1> QED BY <1>0, <1>8, <1>9, <1>10, Here, OneMoves

LEMMA FinishKeeps ==
  ASSUME SagaInv, NEW c \in Clients, Finish(c)
  PROVE  SagaInv'
<1>0. /\ InProgress(c) /\ pc[c] = "finish"
      /\ UNCHANGED <<ran, skipped, compensated, overlapped, abandoned, Recorded>>
  BY DEF Finish, InProgress, history, Recorded
<1>1. /\ row' \in Row /\ row'.step = row.step /\ row'.outputs = row.outputs
      /\ row'.status = "completed"
  BY Here DEF Finish, Row, Statuses
<1>2. Moves(c, "release", view[c])
  BY Here DEF Finish, Goto, Moves, Labels
<1>3. RowOK(row', Recorded') /\ CallOK("release", view[c], Recorded')
  BY <1>0, <1>1, Here DEF RowOK, CallOK
<1>4. Solo => SoloRow(row', ran') /\ SoloOK("release", view[c], row', ran', compensated')
  BY <1>0, <1>1, Here DEF SoloRow, SoloOK
<1>5. Undone(row'.status, ran', compensated')
  BY <1>1 DEF Undone
<1> QED BY <1>0, <1>1, <1>2, <1>3, <1>4, <1>5, OneMoves

(* A call that begins is the only one, or calls overlap from then on.      *)
LEMMA CallKeeps ==
  ASSUME SagaInv, NEW c \in Clients, Call(c)
  PROVE  SagaInv'
<1>0. /\ pc[c] = "new" /\ pc' = [pc EXCEPT ![c] = "load"]
      /\ UNCHANGED <<view, ran, skipped, compensated, abandoned, Recorded>>
      /\ overlapped' = (overlapped \/ \E d \in Clients : InProgress(d))
  BY DEF Call, Goto, Recorded
<1>1. /\ row' \in Row /\ row'.step = row.step /\ row'.outputs = row.outputs
      /\ row'.status = row.status \/ row'.status = "pending"
  BY Here DEF Call, Row, Statuses
<1>2. pc'[c] = "load" /\ \A d \in Clients \ {c} : pc'[d] = pc[d]
  BY <1>0, Here
<1>3. SagaTypes' /\ RowOK(row', Recorded')
  BY <1>0, <1>1, Here DEF SagaTypes, Labels, RowOK
<1>4. ASSUME NEW d \in Clients PROVE CallOK(pc[d], view[d], Recorded)'
  <2>1. CallOK(pc[d], view[d], Recorded)
    BY Here
  <2> QED BY <1>0, <1>2, <2>1 DEF CallOK
<1>5. ASSUME ~overlapped' PROVE Solo'
  <2>1. Solo /\ \A d \in Clients : pc[d] \in {"new", "done"}
    BY <1>0, <1>5 DEF SagaInv, InProgress
  <2>2. \A d \in Clients : pc'[d] \in {"new", "done", "load"}
    BY <1>2, <2>1
  <2>3. OneCall'
    BY <1>2, <2>1 DEF OneCall, InProgress
  <2>4. ASSUME NEW d \in Clients PROVE SoloOK(pc[d], view[d], row, ran, compensated)'
    BY <2>2 DEF SoloOK
  <2>5. SoloRow(row', ran')
    BY <1>0, <1>1, <2>1 DEF Solo, SoloRow
  <2>6. ~abandoned' => Undone(row'.status, ran', compensated')
    BY <1>0, <1>1, <2>1 DEF Solo, Undone
  <2> QED BY <2>3, <2>4, <2>5, <2>6 DEF Solo
<1> QED BY <1>3, <1>4, <1>5 DEF SagaInv

LEMMA FaultSteps ==
  ASSUME SagaInv, NEW c \in Clients, StatementFails(c)
  PROVE  SagaInv'
<1>0. InProgress(c) /\ pc[c] # "compensate" /\ UNCHANGED <<row, history>>
  BY DEF StatementFails, InProgress
<1>1. CASE pc[c] = "persist" /\ Catch(c, "failed")
  BY <1>0, <1>1, CatchKeeps
<1> QED BY <1>0, <1>1, Leaves DEF StatementFails

(* A crash ends the calls of a process; one that cuts a compensation short *)
(* is remembered.                                                          *)
LEMMA CrashSteps ==
  ASSUME SagaInv, NEW p \in Procs, Crash(p)
  PROVE  SagaInv'
<1>0. /\ UNCHANGED <<row, ran, skipped, compensated, overlapped, Recorded>>
      /\ abandoned' = (abandoned \/ \E c \in Clients : ProcOf[c] = p /\ pc[c] = "compensate")
  BY DEF Crash, Recorded
<1>v. NoView \in View
  BY WorkflowAssumption, EmptySeq DEF NoView, View
<1>1. ASSUME NEW c \in Clients
      PROVE  \/ pc'[c] = pc[c] /\ view'[c] = view[c]
             \/ pc'[c] \in {"new", "done"} /\ view'[c] = NoView /\ ProcOf[c] = p
  BY DEF Crash, InProgress
<1>2. SagaTypes'
  BY <1>0, <1>v DEF SagaInv, SagaTypes, Crash, Labels
<1>3. ASSUME NEW c \in Clients PROVE CallOK(pc[c], view[c], Recorded)'
  <2>1. CallOK(pc[c], view[c], Recorded)
    BY Here
  <2>2. CASE pc'[c] = pc[c] /\ view'[c] = view[c]
    BY <1>0, <2>1, <2>2
  <2>3. CASE pc'[c] \in {"new", "done"} /\ view'[c] = NoView
    BY <2>3 DEF CallOK, NoView
  <2> QED BY <1>1, <2>2, <2>3
<1>4. ASSUME ~overlapped' PROVE Solo'
  <2>1. Solo
    BY <1>0, <1>4 DEF SagaInv
  <2>2. OneCall'
    BY <1>1, <2>1 DEF Solo, OneCall, InProgress
  <2>3. ASSUME NEW c \in Clients PROVE SoloOK(pc[c], view[c], row, ran, compensated)'
    <3>1. SoloOK(pc[c], view[c], row, ran, compensated)
      BY <2>1 DEF Solo
    <3>2. CASE pc'[c] = pc[c] /\ view'[c] = view[c]
      BY <1>0, <3>1, <3>2
    <3>3. CASE pc'[c] \in {"new", "done"}
      BY <3>3 DEF SoloOK
    <3> QED BY <1>1, <3>2, <3>3
  <2>4. ASSUME ~abandoned', \A c \in Clients : pc'[c] # "compensate"
        PROVE  Undone(row.status, ran, compensated)'
    <3>1. ~abandoned /\ \A c \in Clients : pc[c] # "compensate"
      BY <1>0, <1>1, <2>4
    <3> QED BY <1>0, <2>1, <3>1 DEF Solo
  <2> QED BY <1>0, <2>1, <2>2, <2>3, <2>4 DEF Solo
<1> QED BY <1>0, <1>2, <1>3, <1>4 DEF SagaInv

LEMMA StillSteps ==
  ASSUME SagaInv, UNCHANGED <<row, pc, view, history>>
  PROVE  SagaInv'
<1>1. UNCHANGED <<row, pc, view, ran, skipped, compensated, overlapped, abandoned, Recorded>>
  BY DEF history, Recorded
<1>2. Solo => Solo'
  BY <1>1 DEF Solo, OneCall, InProgress
<1> QED BY <1>1, <1>2 DEF SagaInv, SagaTypes

LEMMA NextSagaInv == SagaInv /\ [SagaNext]_sagaVars => SagaInv'
<1> SUFFICES ASSUME SagaInv, [SagaNext]_sagaVars PROVE SagaInv'
  OBVIOUS
<1>1. ASSUME NEW c \in Clients, Release(c) PROVE SagaInv'
  BY <1>1, Leaves DEF Release, InProgress
<1>2. ASSUME NEW c \in Clients, StepFails(c) PROVE SagaInv'
  BY <1>2, CatchKeeps DEF StepFails
<1>3. ASSUME NEW c \in Clients, Advance(c) PROVE SagaInv'
  BY <1>1, <1>2, <1>3, LoadKeeps, LockSteps, DecideKeeps, SkipKeeps, MarkKeeps, ReturnsKeeps,
     PersistKeeps, FailKeeps, CompensateKeeps, FinishKeeps DEF Advance
<1>4. ASSUME NEW c \in Clients, Expire(c) PROVE SagaInv'
  BY <1>4, StillSteps DEF Expire
<1>5. CASE UNCHANGED sagaVars
  BY <1>5, StillSteps DEF sagaVars
<1> QED BY <1>3, <1>4, <1>5, CallKeeps, FaultSteps, CrashSteps DEF SagaNext

LEMMA InitSagaInv == SagaInit => SagaInv
<1> SUFFICES ASSUME SagaInit PROVE SagaInv
  OBVIOUS
<1>1. NoView \in View /\ NumSteps \in Nat
  BY WorkflowAssumption, EmptySeq DEF NoView, View
<1>2. /\ row.status = "none" /\ row.step = 1 /\ row.outputs = {} /\ ran = {} /\ skipped = {}
      /\ row \in Row
      /\ \A c \in Clients : pc[c] = "new" /\ view[c] = NoView
  BY <1>1 DEF SagaInit, Row, Statuses
<1>3. SagaTypes
  BY <1>1, <1>2 DEF SagaInit, SagaTypes, Labels
<1>4. RowOK(row, Recorded) /\ \A c \in Clients : CallOK(pc[c], view[c], Recorded)
  BY <1>2 DEF RowOK, CallOK, NoView
<1>5. Solo
  BY <1>2 DEF Solo, OneCall, InProgress, SoloRow, SoloOK, Undone
<1> QED BY <1>3, <1>4, <1>5 DEF SagaInv

LEMMA SagaInvariance == SagaSpec => []SagaInv
  BY InitSagaInv, NextSagaInv, PTL DEF SagaSpec

(* workflow.ts resumes from current_step and skips the recorded steps: a   *)
(* step runs only when all steps before it are recorded, even when calls   *)
(* overlap and write stale copies of step_outputs back.                    *)
THEOREM StepsRunInOrder == SagaSpec => []StepsInOrder
<1>1. SagaInv => StepsInOrder
  BY DEF SagaInv, CallOK, Recorded, StepsInOrder
<1> QED BY <1>1, SagaInvariance, PTL

(* docs/jobs/index.md, "picks up from current_step": while calls do not    *)
(* overlap, resume() never runs a step whose output was recorded.          *)
THEOREM RecordedStepsRunOnce == SagaSpec => []RecordedRunsOnce
<1>1. SagaInv => RecordedRunsOnce
  <2> SUFFICES ASSUME SagaInv, ~overlapped, NEW c \in Clients, pc[c] = "run"
               PROVE  view[c].step \notin ran
    BY DEF RecordedRunsOnce
  <2>1. /\ view[c].step \notin view[c].outputs /\ row.outputs \subseteq view[c].outputs
        /\ ran \subseteq row.outputs
    BY Here DEF SagaInv, SoloOK, SoloRow
  <2> QED BY <2>1
<1> QED BY <1>1, SagaInvariance, PTL

(* A workflow that ends as failed or timed out, with no crash during its   *)
(* rollback and no overlapping call, has had every recorded step undone by *)
(* _compensate, those that an earlier process ran included.                *)
THEOREM RollbackUndoesAll == SagaSpec => []RollbackComplete
<1>1. SagaInv => RollbackComplete
  BY DEF SagaInv, Solo, Undone, RollbackComplete, InProgress
<1> QED BY <1>1, SagaInvariance, PTL

(* While calls do not overlap, the row of a workflow that completed or     *)
(* failed is never written again.                                          *)
THEOREM TerminalRowIsFinal == SagaSpec => TerminalIsFinal
<1>1. SagaInv /\ [SagaNext]_sagaVars =>
        [row.status \in {"completed", "failed"} /\ ~overlapped' => row' = row]_sagaVars
  <2> SUFFICES ASSUME SagaInv, SagaNext, row.status \in {"completed", "failed"}, ~overlapped'
               PROVE  row' = row
    BY DEF sagaVars
  <2>1. ASSUME NEW c \in Clients, Call(c) PROVE row' = row
    BY <2>1 DEF Call
  <2>2. ASSUME NEW c \in Clients, Advance(c) PROVE row' = row
    <3>1. CASE pc[c] \in {"load", "lock", "decide", "run", "compensate", "release"}
      BY <2>2, <3>1 DEF Advance, Load, Lock, Decide, Skip, Mark, StepReturns, StepFails,
                        Persist, Fail, Compensate, Finish, Release
    <3>2. CASE pc[c] \in {"skip", "mark", "persist", "fail", "finish"}
      <4>1. ~overlapped
        BY <2>2, <3>2 DEF Advance, Load, Lock, Decide, Skip, Mark, StepReturns, StepFails,
                          Persist, Fail, Compensate, Finish, Release, history
      <4> QED BY <3>2, <4>1, Here DEF SagaInv, SoloOK
    <3> QED BY <2>2, <3>1, <3>2 DEF Advance, Load, Lock, Decide, Skip, Mark, StepReturns,
                 StepFails, Persist, Fail, Compensate, Finish, Release
  <2>3. ASSUME NEW c \in Clients, StatementFails(c) \/ Expire(c) PROVE row' = row
    BY <2>3 DEF StatementFails, Expire
  <2>4. ASSUME NEW p \in Procs, Crash(p) PROVE row' = row
    BY <2>4 DEF Crash
  <2> QED BY <2>1, <2>2, <2>3, <2>4 DEF SagaNext
<1> QED BY <1>1, SagaInvariance, PTL DEF SagaSpec, TerminalIsFinal
=============================================================================
