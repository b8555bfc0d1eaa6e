----------------------------- MODULE JobWorkflow -----------------------------
(***************************************************************************)
(* The saga engine of the framework's core (packages/core/src/jobs/        *)
(* workflow.ts): one workflow, a row of street_workflows, that calls of    *)
(* start() and resume() in several processes drive through its steps under *)
(* the advisory lock of DistributedLock.                                   *)
(*                                                                         *)
(* resume() reads the row first and asks for the lock afterwards; from     *)
(* then on it works with its own copy of current_step and step_outputs,    *)
(* which every UPDATE writes back whole.  Steps are numbered from 1, so    *)
(* current_step is one less than `step`; a step's output is abstracted to  *)
(* whether it is recorded.                                                 *)
(***************************************************************************)
EXTENDS DistributedLock, Sequences

CONSTANTS
  NumSteps,
  Conditional,   \* steps with a condition()
  Timed,         \* steps with a timeoutMs
  MaxCrashes, MaxFaults, MaxExpiries   \* bounds

Steps == 1..NumSteps

ASSUME WorkflowAssumption ==
  /\ NumSteps \in Nat
  /\ Conditional \subseteq Steps /\ Timed \subseteq Steps
  /\ {MaxCrashes, MaxFaults, MaxExpiries} \subseteq Nat

VARIABLES
  row,           \* [status, step, outputs]: outputs is the set of recorded steps
  pc,            \* where each client, one call of start() or resume(), is
  view,          \* its copy: [step, outputs, completed, error]
  ran, skipped,  \* history: steps recorded as run, and as skipped
  compensated,   \* history: steps whose compensate() was called
  overlapped,    \* history: have two calls been in progress at once?
  abandoned,     \* history: has a crash cut a compensation short?
  crashes, faults, expiries

bounds == <<crashes, faults, expiries>>
history == <<ran, skipped, compensated, overlapped, abandoned>>
sagaVars == <<lockVars, row, pc, view, history, bounds>>

NoView == [step |-> 1, outputs |-> {}, completed |-> <<>>, error |-> "none"]

SagaInit ==
  /\ LockInit
  /\ row = [status |-> "none", step |-> 1, outputs |-> {}]
  /\ pc = [c \in Clients |-> "new"] /\ view = [c \in Clients |-> NoView]
  /\ ran = {} /\ skipped = {} /\ compensated = {}
  /\ overlapped = FALSE /\ abandoned = FALSE
  /\ crashes = 0 /\ faults = 0 /\ expiries = 0

InProgress(c) == pc[c] \notin {"new", "done"}

Goto(c, label) == pc' = [pc EXCEPT ![c] = label] /\ UNCHANGED view
Return(c) == /\ pc' = [pc EXCEPT ![c] = "done"]
             /\ view' = [view EXCEPT ![c] = NoView]

(* The loop over the steps, up to its next await: steps that the copy has  *)
(* as recorded count as completed.                                         *)
FirstOpen(v) ==
  CHOOSE i \in v.step..(NumSteps + 1) :
    /\ i \notin v.outputs
    /\ \A j \in v.step..(i - 1) : j \in v.outputs

Interval(i, j) == [k \in 1..(j - i) |-> i + k - 1]

SkipRecorded(v) ==
  [v EXCEPT !.step = FirstOpen(v),
            !.completed = @ \o Interval(v.step, FirstOpen(v))]

Continue(c, v) ==
  LET w == SkipRecorded(v) IN
  /\ view' = [view EXCEPT ![c] = w]
  /\ pc' = [pc EXCEPT ![c] = IF w.step > NumSteps THEN "finish"
                             ELSE IF w.step \in Conditional THEN "decide"
                             ELSE "mark"]

----------------------------------------------------------------------------
(* start() inserts the row and resumes it; resume() is for a row there is. *)
Call(c) ==
  /\ pc[c] = "new"
  /\ \/ /\ row.status = "none"
        /\ row' = [row EXCEPT !.status = "pending"]
     \/ row.status # "none" /\ row' = row
  /\ Goto(c, "load")
  /\ overlapped' = (overlapped \/ \E d \in Clients : InProgress(d))
  /\ UNCHANGED <<lockVars, ran, skipped, compensated, abandoned, bounds>>

(* resume(): the SELECT.  A workflow that timed out is resumed.            *)
LoadAny(c) ==
  /\ pc[c] = "load"
  /\ pc' = [pc EXCEPT ![c] = "lock"]
  /\ view' = [view EXCEPT ![c] = [NoView EXCEPT !.step = row.step, !.outputs = row.outputs]]
  /\ UNCHANGED <<lockVars, row, history, bounds>>

LoadFollowing(c) ==
  /\ pc[c] = "load"
  /\ IF row.status \in {"completed", "failed"}
       THEN Return(c)
       ELSE /\ pc' = [pc EXCEPT ![c] = "lock"]
            /\ view' = [view EXCEPT ![c] = [NoView EXCEPT !.step = row.step + 1,
                                                          !.outputs = row.outputs]]
  /\ UNCHANGED <<lockVars, row, history, bounds>>

Load(c) ==
  /\ pc[c] = "load"
  /\ IF row.status \in {"completed", "failed"}
       THEN Return(c)
       ELSE /\ pc' = [pc EXCEPT ![c] = "lock"]
            /\ view' = [view EXCEPT ![c] = [NoView EXCEPT !.step = row.step,
                                                          !.outputs = row.outputs]]
  /\ UNCHANGED <<lockVars, row, history, bounds>>

(* All steps before current_step count as completed, skipped ones too.     *)
CompletedLost(v) == v
Completed(v) == [v EXCEPT !.completed = Interval(1, v.step)]

(* acquire(); then the definition is looked up, which this process may not *)
(* have made.                                                              *)
Lock(c) ==
  /\ pc[c] = "lock"
  /\ \E s \in Pool(c) :
       \/ /\ Granted(c, s)
          /\ \/ Continue(c, Completed(view[c]))
             \/ Goto(c, "release")
       \/ /\ Refused(c, s)
          /\ IF GivesUp(c) THEN Return(c) ELSE UNCHANGED <<pc, view>>
  /\ UNCHANGED <<row, history, bounds>>

(* condition() says to run the step, to skip it, or throws.                *)
Decide(c) ==
  /\ pc[c] = "decide"
  /\ \/ Goto(c, "mark")
     \/ /\ view' = [view EXCEPT ![c].outputs = @ \cup {view[c].step}]
        /\ pc' = [pc EXCEPT ![c] = "skip"]
     \/ Goto(c, "release")
  /\ UNCHANGED <<lockVars, row, history, bounds>>

RecordStep(c) ==
  row' = [row EXCEPT !.outputs = view[c].outputs, !.step = view[c].step + 1]

Skip(c) ==
  /\ pc[c] = "skip"
  /\ RecordStep(c)
  /\ skipped' = skipped \cup {view[c].step}
  /\ Continue(c, [view[c] EXCEPT !.step = @ + 1])
  /\ UNCHANGED <<lockVars, ran, compensated, overlapped, abandoned, bounds>>

Mark(c) ==
  /\ pc[c] = "mark"
  /\ row' = [row EXCEPT !.status = "running", !.step = view[c].step]
  /\ Goto(c, "run")
  /\ UNCHANGED <<lockVars, history, bounds>>

StepReturns(c) ==
  /\ pc[c] = "run"
  /\ view' = [view EXCEPT ![c].outputs = @ \cup {view[c].step}]
  /\ pc' = [pc EXCEPT ![c] = "persist"]
  /\ UNCHANGED <<lockVars, row, history, bounds>>

Catch(c, error) ==
  /\ view' = [view EXCEPT ![c].error = error]
  /\ pc' = [pc EXCEPT ![c] = "fail"]

(* The step throws, or its timer is first.                                 *)
StepFails(c) ==
  /\ pc[c] = "run"
  /\ \/ Catch(c, "failed")
     \/ view[c].step \in Timed /\ Catch(c, "timed_out")
  /\ UNCHANGED <<lockVars, row, history, bounds>>

PersistLate(c) ==
  /\ pc[c] = "persist"
  /\ row' = row
  /\ ran' = ran \cup {view[c].step}
  /\ Continue(c, [view[c] EXCEPT !.completed = Append(@, view[c].step), !.step = @ + 1])
  /\ UNCHANGED <<lockVars, skipped, compensated, overlapped, abandoned, bounds>>

Persist(c) ==
  /\ pc[c] = "persist"
  /\ RecordStep(c)
  /\ ran' = ran \cup {view[c].step}
  /\ Continue(c, [view[c] EXCEPT !.completed = Append(@, view[c].step), !.step = @ + 1])
  /\ UNCHANGED <<lockVars, skipped, compensated, overlapped, abandoned, bounds>>

Fail(c) ==
  /\ pc[c] = "fail"
  /\ row' = [row EXCEPT !.status = view[c].error]
  /\ Goto(c, IF view[c].completed = <<>> THEN "release" ELSE "compensate")
  /\ UNCHANGED <<lockVars, history, bounds>>

(* _compensate, one compensate() at a time, last step first, going on      *)
(* after one that throws.                                                  *)
Compensate(c) ==
  LET todo == view[c].completed IN
  /\ pc[c] = "compensate"
  /\ compensated' = compensated \cup {todo[Len(todo)]}
  /\ view' = [view EXCEPT ![c].completed = SubSeq(todo, 1, Len(todo) - 1)]
  /\ pc' = [pc EXCEPT ![c] = IF Len(todo) = 1 THEN "release" ELSE "compensate"]
  /\ UNCHANGED <<lockVars, row, ran, skipped, overlapped, abandoned, bounds>>

Finish(c) ==
  /\ pc[c] = "finish"
  /\ row' = [row EXCEPT !.status = "completed"]
  /\ Goto(c, "release")
  /\ UNCHANGED <<lockVars, history, bounds>>

Release(c) ==
  /\ pc[c] = "release"
  /\ release(c) /\ Return(c)
  /\ UNCHANGED <<row, history, bounds>>

(* A statement fails, without effect.  Before the lock is held the call is *)
(* rejected; afterwards it is rejected through the finally block, except   *)
(* that an output that cannot be saved fails the step.                     *)
StatementFails(c) ==
  /\ faults < MaxFaults /\ faults' = faults + 1
  /\ \/ pc[c] = "load" /\ Return(c) /\ UNCHANGED lockVars
     \/ /\ pc[c] = "lock" /\ Return(c)
        /\ refused' = [refused EXCEPT ![c] = 0] /\ UNCHANGED <<holds, handle>>
     \/ /\ pc[c] \in {"skip", "mark", "fail", "finish"}
        /\ Goto(c, "release") /\ UNCHANGED lockVars
     \/ pc[c] = "persist" /\ Catch(c, "failed") /\ UNCHANGED lockVars
     \/ pc[c] = "release" /\ ReleaseFails(c) /\ Return(c)
  /\ UNCHANGED <<row, history, crashes, expiries>>

Expire(c) ==
  /\ expiries < MaxExpiries /\ expiries' = expiries + 1
  /\ TtlExpires(c)
  /\ UNCHANGED <<row, pc, view, history, crashes, faults>>

Crash(p) ==
  /\ crashes < MaxCrashes /\ crashes' = crashes + 1
  /\ LockCrash(p)
  /\ pc' = [c \in Clients |-> IF ProcOf[c] = p /\ InProgress(c) THEN "done" ELSE pc[c]]
  /\ view' = [c \in Clients |-> IF ProcOf[c] = p THEN NoView ELSE view[c]]
  /\ abandoned' = (abandoned \/ \E c \in Clients : ProcOf[c] = p /\ pc[c] = "compensate")
  /\ UNCHANGED <<row, ran, skipped, compensated, overlapped, faults, expiries>>

Advance(c) ==
  \/ Load(c) \/ Lock(c) \/ Decide(c) \/ Skip(c) \/ Mark(c) \/ StepReturns(c)
  \/ StepFails(c) \/ Persist(c) \/ Fail(c) \/ Compensate(c) \/ Finish(c) \/ Release(c)

SagaNext ==
  \/ \E c \in Clients : Call(c) \/ Advance(c) \/ StatementFails(c) \/ Expire(c)
  \/ \E p \in Procs : Crash(p)

SagaSpec == SagaInit /\ [][SagaNext]_sagaVars

----------------------------------------------------------------------------
(* A step runs only when every step before it has been recorded, as run or *)
(* as skipped - by whatever calls drove the workflow before, stale ones    *)
(* that write an old copy of step_outputs back included.                   *)
StepsInOrder ==
  \A c \in Clients :
    pc[c] = "run" => \A i \in 1..(view[c].step - 1) : i \in ran \cup skipped

(* docs/jobs/index.md, "picks up from current_step": while calls do not    *)
(* overlap, a step whose output was recorded never runs again, though      *)
(* processes crash and statements fail at any point.                       *)
RecordedRunsOnce ==
  ~overlapped => \A c \in Clients : pc[c] = "run" => view[c].step \notin ran

(* A rollback that no crash cuts short undoes every recorded step, those   *)
(* that an earlier process ran included.                                   *)
RollbackComplete ==
  /\ row.status \in {"failed", "timed_out"}
  /\ \A c \in Clients : ~InProgress(c)
  /\ ~overlapped /\ ~abandoned
  => ran \subseteq compensated

(* While calls do not overlap, a workflow that completed or failed stays   *)
(* as it is.                                                               *)
TerminalIsFinal ==
  [][row.status \in {"completed", "failed"} /\ ~overlapped' => row' = row]_sagaVars
=============================================================================
