---------------------------- MODULE WorkflowEngine ----------------------------
(***************************************************************************)
(* One run of a durable workflow (packages/workflow/src): the journal that *)
(* replays and records its commands, the runtime that drives the workflow  *)
(* function, the activity executor, the compensator, the coordinator of    *)
(* signals and the engine's calls, over a store that keeps one snapshot    *)
(* per run.                                                                *)
(*                                                                         *)
(* A drive of the run, and every call, holds its own copy of the snapshot  *)
(* and saves the whole of it.  Each load, each save and each return of an  *)
(* activity or a rollback is a step; other drives and calls come between.  *)
(* The workflow function is a straight line of commands (Program): what it *)
(* computes between two commands is local and the same on every replay.    *)
(***************************************************************************)
EXTENDS Integers, Sequences, FiniteSets

CONSTANTS
  Program,      \* the commands, in order: [kind, compensable, name, time]
  Drives,       \* drives that may be in progress at once
  Callers,      \* callers of the engine's API
  ApiCalls,     \* which calls a run makes
  Names,        \* signal names
  MaxAttempts,  \* retry policy of the activities
  MaxSignals, MaxTime, MaxCrashes, MaxFaults,   \* bounds
  None

Kinds == {"activity", "bridge", "state", "waitFor", "sleep", "waitUntil"}

TERMINAL == {"completed", "failed", "compensated", "cancelled"}

(* What the store keeps of a run: its status, its journal of commands and  *)
(* the signals buffered for it.                                            *)
Statuses == TERMINAL \cup {"running", "waiting", "paused", "compensating"}
CmdRec == [status : {"completed", "failed", "waiting"}, compensated : BOOLEAN,
           expiresAt : Nat \cup {None}]
SnapRec == [status : Statuses, commands : Seq(CmdRec), signals : Seq(Names)]

ASSUME WorkflowAssumption ==
  /\ Program \in Seq([kind : Kinds, compensable : BOOLEAN,
                      name : Names \cup {None}, time : Nat])
  /\ ApiCalls \subseteq {"cancel", "pause", "signal", "resume"}
  /\ MaxAttempts \in Nat \ {0}
  /\ {MaxSignals, MaxTime, MaxCrashes, MaxFaults} \subseteq Nat
  /\ Drives # {}
  /\ None \notin SnapRec

VARIABLES
  now,
  stored,     \* the persisted snapshot of the run, or None
  drive,      \* drives in progress
  call,       \* API calls in progress
  up,         \* is the process running?
  resumed,    \* coordinator: waits (by seq) already resumed in this process
  executions, \* history: how often each command was executed live
  rollbacks,  \* history: compensations invoked, in order
  crashes, faults,  \* history: process crashes, failed saves
  raced       \* history: two drives overlapped, or a stale snapshot was saved

wfHistory == <<executions, rollbacks, crashes, faults>>
wfVars == <<now, stored, drive, call, up, resumed, wfHistory, raced>>

Positions == 1..Len(Program)

NoDrive == [pc |-> "idle", snap |-> None, fresh |-> TRUE, attempt |-> 0,
            aborted |-> FALSE, captured |-> {}, out |-> None, target |-> None]
NoCall == [pc |-> "idle", op |-> None, name |-> None, snap |-> None, fresh |-> TRUE]

WInit ==
  /\ now = 0 /\ stored = None /\ up = TRUE /\ resumed = {}
  /\ drive = [d \in Drives |-> NoDrive]
  /\ call = [c \in Callers |-> NoCall]
  /\ executions = [i \in Positions |-> 0] /\ rollbacks = <<>>
  /\ crashes = 0 /\ faults = 0 /\ raced = FALSE

Active == {d \in Drives : drive[d].pc # "idle"}
FreeSlot == CHOOSE d \in Drives : d \notin Active

----------------------------------------------------------------------------
(* A save replaces the stored snapshot, whatever was saved since the       *)
(* writer took its copy; every other copy is out of date from then on.     *)
Save(snap, fresh) ==
  /\ stored' = snap
  /\ raced' = (raced \/ ~fresh)

StaleDrives(ds) == [d \in Drives |-> [ds[d] EXCEPT !.fresh = (ds[d].pc = "idle")]]
StaleCalls(cs) == [c \in Callers |-> [cs[c] EXCEPT !.fresh = (cs[c].pc = "idle")]]

DriveSaves(d, snap, s) ==
  /\ Save(snap, drive[d].fresh)
  /\ drive' = [StaleDrives(drive) EXCEPT ![d] = [s EXCEPT !.fresh = TRUE]]
  /\ call' = StaleCalls(call)

----------------------------------------------------------------------------
(* Journal.process: recorded, settled commands are replayed; the first     *)
(* command that is not is the frontier.                                    *)
SettledButLast(snap, i) == i < Len(snap.commands) /\ snap.commands[i].status # "waiting"
Settled(snap, i) == i <= Len(snap.commands) /\ snap.commands[i].status # "waiting"
Failed(snap, i) == i <= Len(snap.commands) /\ snap.commands[i].status = "failed"
Frontier(snap) ==
  CHOOSE i \in 1..(Len(Program) + 1) :
    /\ i \in Positions => ~Settled(snap, i) \/ Failed(snap, i)
    /\ \A k \in 1..(i - 1) : Settled(snap, k) /\ ~Failed(snap, k)

Outcome(status, expiresAt) == [status |-> status, expiresAt |-> expiresAt]

(* timerOutcome: due timers complete at once.  A re-driven sleep computes  *)
(* its expiry anew from the present.                                       *)
TimerOutcome(expiresAt) ==
  IF expiresAt <= now THEN Outcome("completed", None) ELSE Outcome("waiting", expiresAt)

(* What the commands that involve no one else come to.                     *)
LocalOutcome(snap, i) ==
  LET cmd == Program[i] IN
  CASE cmd.kind = "state"     -> Outcome("completed", None)
    [] cmd.kind = "sleep"     -> TimerOutcome(now + cmd.time)
    [] cmd.kind = "waitUntil" -> TimerOutcome(cmd.time)
    [] cmd.kind = "waitFor"   ->
         IF \E k \in 1..Len(snap.signals) : snap.signals[k] = cmd.name
         THEN Outcome("completed", None) ELSE Outcome("waiting", None)

(* The workflow function runs on to its next command or to its end.        *)
Advance(s) ==
  LET i == Frontier(s.snap) IN
  CASE i \notin Positions -> [s EXCEPT !.pc = "complete"]
    [] i \in Positions /\ Failed(s.snap, i) -> [s EXCEPT !.pc = "fail"]
    [] i \in Positions /\ ~Failed(s.snap, i) /\ Program[i].kind \in {"activity", "bridge"}
         -> [s EXCEPT !.pc = "execute"]
    [] OTHER -> [s EXCEPT !.pc = "record", !.out = LocalOutcome(s.snap, i)]

(* run(): save the initial snapshot, then drive it.                        *)
Run ==
  LET initial == [status |-> "running", commands |-> <<>>, signals |-> <<>>] IN
  /\ up /\ stored = None
  /\ Save(initial, TRUE)
  /\ drive' = [drive EXCEPT ![FreeSlot] = Advance([NoDrive EXCEPT !.snap = initial])]
  /\ UNCHANGED <<now, call, up, resumed, wfHistory>>

(* driveExisting: load, and leave terminal and paused runs alone.  Any     *)
(* status but running is first saved as running.                           *)
DriveLoad(d) ==
  LET s == [drive[d] EXCEPT !.snap = stored, !.fresh = TRUE] IN
  /\ drive[d].pc = "load"
  /\ drive' = [drive EXCEPT ![d] =
       IF stored.status \in TERMINAL \cup {"paused"} THEN NoDrive
       ELSE IF stored.status = "running" THEN Advance(s)
       ELSE [s EXCEPT !.pc = "normalize"]]
  /\ UNCHANGED <<now, stored, call, up, resumed, wfHistory, raced>>

NormalizeAfresh(d) ==
  LET s == drive[d]
      snap == [s.snap EXCEPT !.status = "running", !.commands = <<>>]
  IN
  /\ s.pc = "normalize"
  /\ DriveSaves(d, snap, Advance([s EXCEPT !.snap = snap]))
  /\ UNCHANGED <<now, up, resumed, wfHistory>>

Normalize(d) ==
  LET s == drive[d]
      snap == [s.snap EXCEPT !.status = "running"]
  IN
  /\ s.pc = "normalize"
  /\ DriveSaves(d, snap, Advance([s EXCEPT !.snap = snap]))
  /\ UNCHANGED <<now, up, resumed, wfHistory>>

(* The frontier command is executed live: an activity through the          *)
(* executor, any other effect through its bridge.                          *)
Execute(d) ==
  LET s == drive[d] IN
  /\ s.pc = "execute"
  /\ drive' = [drive EXCEPT ![d].pc = "running", ![d].attempt = 1, ![d].aborted = FALSE]
  /\ executions' = [executions EXCEPT ![Frontier(s.snap)] = @ + 1]
  /\ UNCHANGED <<now, stored, call, up, resumed, rollbacks, crashes, faults, raced>>

(* A compensation is captured when its activity succeeds in this drive.    *)
EffectSucceeds(d) ==
  LET s == drive[d]
      i == Frontier(s.snap)
  IN
  /\ s.pc = "running"
  /\ drive' = [drive EXCEPT ![d] = [s EXCEPT !.pc = "record", !.attempt = 0,
       !.out = Outcome("completed", None),
       !.captured = IF Program[i].compensable THEN s.captured \cup {i} ELSE s.captured]]
  /\ UNCHANGED <<now, stored, call, up, resumed, wfHistory, raced>>

(* A failed or timed-out attempt is repeated while the policy allows and   *)
(* the run is not aborted; a bridge's failure is thrown unrecorded.        *)
EffectFails(d) ==
  LET s == drive[d] IN
  /\ s.pc = "running"
  /\ drive' = [drive EXCEPT ![d] =
       IF Program[Frontier(s.snap)].kind = "bridge"
       THEN [s EXCEPT !.pc = "fail", !.attempt = 0]
       ELSE IF s.attempt < MaxAttempts /\ ~s.aborted
       THEN [s EXCEPT !.attempt = s.attempt + 1]
       ELSE [s EXCEPT !.pc = "record", !.attempt = 0, !.out = Outcome("failed", None)]]
  /\ UNCHANGED <<now, stored, call, up, resumed, wfHistory, raced>>

(* The outcome is recorded and the snapshot saved before the function goes *)
(* on; a wait suspends the drive.                                          *)
Record(d) ==
  LET s == drive[d]
      i == Frontier(s.snap)
      cmd == [status |-> s.out.status, compensated |-> FALSE, expiresAt |-> s.out.expiresAt]
      snap == [s.snap EXCEPT
                 !.status = IF s.out.status = "waiting" THEN "waiting" ELSE @,
                 !.commands = SubSeq(@, 1, i - 1) \o <<cmd>>]
  IN
  /\ s.pc = "record"
  /\ DriveSaves(d, snap,
       IF s.out.status = "waiting" THEN NoDrive
       ELSE Advance([s EXCEPT !.snap = snap, !.out = None]))
  /\ UNCHANGED <<now, up, resumed, wfHistory>>

----------------------------------------------------------------------------
Completed(snap, i) == i <= Len(snap.commands) /\ snap.commands[i].status = "completed"

(* The captured compensations still to run, last completed first.          *)
Targets(s) == {i \in s.captured : Completed(s.snap, i) /\ ~s.snap.commands[i].compensated}
EarliestOf(S) == CHOOSE i \in S : \A k \in S : k >= i
LatestOf(S) == CHOOSE i \in S : \A k \in S : k <= i

Finalize(d, status) ==
  LET s == drive[d] IN
  /\ \/ status = "completed" /\ s.pc = "complete"
     \/ status = "failed" /\ s.pc = "fail" /\ Targets(s) = {}
     \/ status = "compensated" /\ s.pc = "compensate" /\ Targets(s) = {}
  /\ DriveSaves(d, [s.snap EXCEPT !.status = status], NoDrive)
  /\ UNCHANGED <<now, up, resumed, wfHistory>>

(* compensate(): the transition, then for each target a history entry, the *)
(* rollback, and its mark together with a second entry.                    *)
StartCompensating(d) ==
  LET s == drive[d]
      snap == [s.snap EXCEPT !.status = "compensating"]
  IN
  /\ s.pc = "fail" /\ Targets(s) # {}
  /\ DriveSaves(d, snap, [s EXCEPT !.snap = snap, !.pc = "compensate"])
  /\ UNCHANGED <<now, up, resumed, wfHistory>>

CompensationStarted(d) ==
  LET s == drive[d] IN
  /\ s.pc = "compensate" /\ Targets(s) # {}
  /\ DriveSaves(d, s.snap, [s EXCEPT !.pc = "rollback", !.target = LatestOf(Targets(s))])
  /\ UNCHANGED <<now, up, resumed, wfHistory>>

(* It counts as run whether it succeeds or throws (pc mark or markFailed). *)
Rollback(d) ==
  LET s == drive[d] IN
  /\ s.pc = "rollback"
  /\ rollbacks' = Append(rollbacks, s.target)
  /\ \E pc \in {"mark", "markFailed"} :
       drive' = [drive EXCEPT ![d] =
         [s EXCEPT !.pc = pc, !.snap.commands[s.target].compensated = TRUE]]
  /\ UNCHANGED <<now, stored, call, up, resumed, executions, crashes, faults, raced>>

CompensationDone(d) ==
  LET s == drive[d] IN
  /\ s.pc \in {"mark", "markFailed"}
  /\ DriveSaves(d, s.snap, [s EXCEPT !.pc = "compensate", !.target = None])
  /\ UNCHANGED <<now, up, resumed, wfHistory>>

(* A save is refused by the store.  Inside the workflow function and in    *)
(* finalizeCompleted the error is caught and fails the run, after a        *)
(* successful rollback it is taken for the rollback's own failure;         *)
(* elsewhere it ends the drive.                                            *)
SaveFails(d) ==
  LET s == drive[d] IN
  /\ faults < MaxFaults
  /\ s.pc \in {"normalize", "record", "complete", "fail", "compensate", "mark", "markFailed"}
  /\ faults' = faults + 1
  /\ drive' = [drive EXCEPT ![d] =
       CASE s.pc \in {"record", "complete"} -> [s EXCEPT !.pc = "fail", !.out = None]
         [] s.pc = "mark" -> [s EXCEPT !.pc = "markFailed"]
         [] OTHER -> NoDrive]
  /\ UNCHANGED <<now, stored, call, up, resumed, executions, rollbacks, crashes, raced>>

----------------------------------------------------------------------------
(* A new drive in a free slot, beside those in progress.                   *)
StartDrive(rest) ==
  /\ Active # Drives
  /\ drive' = [rest EXCEPT ![FreeSlot] = [NoDrive EXCEPT !.pc = "load"]]

Overlaps == Active # {}

(* cancel, pause and signal: load, and give up on a run they do not apply  *)
(* to; cancel also aborts the activities in flight.                        *)
Aborted(ds) == [d \in Drives |-> [ds[d] EXCEPT !.aborted = (ds[d].pc = "running")]]

LateCallLoad(c, op, name) ==
  /\ up /\ call[c].pc = "idle" /\ stored # None /\ op \in ApiCalls
  /\ op = "pause" => stored.status = "running"
  /\ op = "signal" => Len(stored.signals) < MaxSignals
  /\ call' = [call EXCEPT ![c] = [pc |-> "write", op |-> op, name |-> name,
                                  snap |-> stored, fresh |-> TRUE]]
  /\ drive' = IF op = "cancel" THEN Aborted(drive) ELSE drive
  /\ UNCHANGED <<now, stored, up, resumed, wfHistory, raced>>

CallLoad(c, op, name) ==
  /\ up /\ call[c].pc = "idle" /\ stored # None /\ op \in ApiCalls
  /\ IF op = "pause" THEN stored.status = "running" ELSE stored.status \notin TERMINAL
  /\ op = "signal" => Len(stored.signals) < MaxSignals
  /\ call' = [call EXCEPT ![c] = [pc |-> "write", op |-> op, name |-> name,
                                  snap |-> stored, fresh |-> TRUE]]
  /\ drive' = IF op = "cancel" THEN Aborted(drive) ELSE drive
  /\ UNCHANGED <<now, stored, up, resumed, wfHistory, raced>>

(* transition(): cancel and pause save the new status over the copy.       *)
TransitionWrite(c, op, status) ==
  /\ call[c].pc = "write" /\ call[c].op = op
  /\ Save([call[c].snap EXCEPT !.status = status], call[c].fresh)
  /\ call' = [StaleCalls(call) EXCEPT ![c] = NoCall]
  /\ drive' = StaleDrives(drive)
  /\ UNCHANGED <<now, up, resumed, wfHistory>>

(* deliverSignal buffers the signal and re-drives a run that waits for *)
(* it, unless this wait was resumed before.                                *)
AwaitsIn(snap, name) ==
  LET i == Len(snap.commands) IN
  /\ snap.status = "waiting" /\ i > 0
  /\ snap.commands[i].status = "waiting" /\ Program[i].name = name

SignalWriteMarked(c) ==
  /\ call[c].pc = "write" /\ call[c].op = "signal"
  /\ stored' = [call[c].snap EXCEPT !.signals = Append(@, call[c].name)]
  /\ raced' = (raced \/ ~call[c].fresh)
  /\ call' = [StaleCalls(call) EXCEPT ![c] = NoCall]
  /\ resumed' = IF AwaitsIn(stored', call[c].name)
                THEN resumed \cup {Len(stored'.commands)} ELSE resumed
  /\ drive' = StaleDrives(drive)
  /\ UNCHANGED <<now, up, wfHistory>>

SignalWrite(c) ==
  LET snap == [call[c].snap EXCEPT !.signals = Append(@, call[c].name)]
      wait == Len(snap.commands)
      resumes == AwaitsIn(snap, call[c].name) /\ wait \notin resumed
  IN
  /\ call[c].pc = "write" /\ call[c].op = "signal"
  /\ stored' = snap
  /\ raced' = (raced \/ ~call[c].fresh \/ (resumes /\ Overlaps))
  /\ call' = [StaleCalls(call) EXCEPT ![c] = NoCall]
  /\ IF resumes
     THEN StartDrive(StaleDrives(drive)) /\ resumed' = resumed \cup {wait}
     ELSE drive' = StaleDrives(drive) /\ resumed' = resumed
  /\ UNCHANGED <<now, up, wfHistory>>

(* resume(): a drive of any run that is not over.                          *)
Resume ==
  /\ up /\ "resume" \in ApiCalls /\ stored # None
  /\ stored.status \notin TERMINAL
  /\ StartDrive(drive)
  /\ raced' = (raced \/ Overlaps)
  /\ UNCHANGED <<now, stored, call, up, resumed, wfHistory>>

----------------------------------------------------------------------------
(* The process dies with all its drives and calls.  The next one defines   *)
(* the workflow again, which resumes a run that is not over.               *)
ProcessCrash ==
  /\ up /\ crashes < MaxCrashes
  /\ up' = FALSE /\ crashes' = crashes + 1
  /\ drive' = [d \in Drives |-> NoDrive]
  /\ call' = [c \in Callers |-> NoCall]
  /\ resumed' = {}
  /\ UNCHANGED <<now, stored, executions, rollbacks, faults, raced>>

DefineRunning ==
  /\ ~up /\ up' = TRUE
  /\ IF stored # None /\ stored.status = "running"
     THEN StartDrive(drive) ELSE drive' = drive
  /\ UNCHANGED <<now, stored, call, resumed, wfHistory, raced>>

Define ==
  /\ ~up /\ up' = TRUE
  /\ IF stored # None /\ stored.status \notin TERMINAL
     THEN StartDrive(drive) ELSE drive' = drive
  /\ UNCHANGED <<now, stored, call, resumed, wfHistory, raced>>

ClockTick ==
  /\ now < MaxTime /\ now' = now + 1
  /\ UNCHANGED <<stored, drive, call, up, resumed, wfHistory, raced>>

DriveStep(d) ==
  \/ DriveLoad(d) \/ Normalize(d) \/ Execute(d) \/ EffectSucceeds(d) \/ EffectFails(d)
  \/ Record(d) \/ \E status \in TERMINAL : Finalize(d, status)
  \/ StartCompensating(d) \/ CompensationStarted(d) \/ Rollback(d) \/ CompensationDone(d)

CallWrite(c) ==
  \/ TransitionWrite(c, "cancel", "cancelled") \/ TransitionWrite(c, "pause", "paused")
  \/ SignalWrite(c)

WNext ==
  \/ ClockTick \/ ProcessCrash \/ Define \/ Run \/ Resume
  \/ \E d \in Drives : DriveStep(d) \/ SaveFails(d)
  \/ \E c \in Callers :
       \/ CallLoad(c, "cancel", None) \/ CallLoad(c, "pause", None)
       \/ \E n \in Names : CallLoad(c, "signal", n)
       \/ CallWrite(c)

WSpec == WInit /\ [][WNext]_wfVars

(* Activities and rollbacks return, saves complete and a process that died *)
(* is started again.  Nobody has to call the API.                          *)
WFairness ==
  /\ WF_wfVars(Define)
  /\ \A d \in Drives : WF_wfVars(DriveStep(d))
  /\ \A c \in Callers : WF_wfVars(CallWrite(c))

WLiveSpec == WSpec /\ WFairness

----------------------------------------------------------------------------
RunIs(statuses) == IF stored = None THEN FALSE ELSE stored.status \in statuses

(* Req 13.2: a command the store records as settled is not executed again, *)
(* across waits, resumes, failed saves and crashes - as long as no two     *)
(* writers raced.                                                          *)
NoReexecution ==
  [][\A i \in Positions :
       (/\ executions'[i] # executions[i] /\ ~raced'
        /\ i <= Len(stored.commands)) => stored.commands[i].status = "waiting"]_wfVars

(* The journal only grows: what it recorded as settled stays, except for   *)
(* the mark of a compensation - as long as no two writers raced.           *)
JournalGrows ==
  [][(stored # None /\ ~raced') =>
       \A i \in 1..Len(stored.commands) :
         LET old == stored.commands[i] new == stored'.commands[i] IN
         /\ i <= Len(stored'.commands)
         /\ old.status # "waiting" => new.status = old.status
         /\ old.compensated => new.compensated]_wfVars

(* Req 2.4, 14.4: a run that is over stays as it is: no late call, resume  *)
(* or restart revives it - as long as no stale copy is saved.              *)
TerminalIsFinal ==
  [][(stored # None /\ ~raced') =>
       (stored.status \in TERMINAL => stored' = stored)]_wfVars

(* Req 10.2, 10.4: a rollback runs at most once, also when the process     *)
(* dies or a save fails among them; without such an interruption they run  *)
(* in reverse order of completion and never in a run that completes.       *)
RollbackReverseOnce ==
  /\ ~raced => \A i, k \in 1..Len(rollbacks) : i < k => rollbacks[i] # rollbacks[k]
  /\ (~raced /\ crashes = 0 /\ faults = 0) =>
       /\ \A i, k \in 1..Len(rollbacks) : i < k => rollbacks[i] > rollbacks[k]
       /\ RunIs({"completed"}) => rollbacks = <<>>

(* Req 13.1: whatever interrupts it, a run is taken up again until it is   *)
(* over, or waits, or is paused.                                           *)
RunSettles ==
  (stored # None) ~>
    \/ RunIs(TERMINAL \cup {"waiting", "paused"})
    \/ raced \/ faults > 0

(* A signal buffered for a wait ends it.                                   *)
SignalWakes ==
  \A n \in Names :
    (/\ RunIs({"waiting"}) /\ AwaitsIn(stored, n)
     /\ \E k \in 1..Len(stored.signals) : stored.signals[k] = n) ~>
        ~RunIs({"waiting"}) \/ raced \/ faults > 0

(* README, Sagas: compensation is rebuilt deterministically on resume      *)
(* before any rollback runs; a run that failed has every completed         *)
(* compensable activity undone.                                            *)
SagaComplete ==
  (stored # None /\ stored.status \in {"failed", "compensated"}) =>
    \A i \in Positions :
      Completed(stored, i) /\ Program[i].compensable => stored.commands[i].compensated
=============================================================================
