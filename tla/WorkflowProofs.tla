---------------------------- MODULE WorkflowProofs ----------------------------
(***************************************************************************)
(* Proofs about the workflow engine, for every program, every number of    *)
(* drives and callers and any crashes and failed saves: as long as no two  *)
(* writers raced, a settled command is never executed again, the journal   *)
(* only grows, a run that is over stays so, and rollbacks run once.        *)
(***************************************************************************)
EXTENDS WorkflowEngine, SequenceTheorems, WellFoundedInduction, TLAPS

OutRec == [status : {"completed", "failed", "waiting"}, expiresAt : Nat \cup {None}]
Compensating == {"compensate", "rollback", "mark", "markFailed"}
DrivePc == {"idle", "load", "normalize", "execute", "running", "record", "complete", "fail"}
             \cup Compensating
DriveRec == [pc : DrivePc, snap : SnapRec \cup {None}, fresh : BOOLEAN, attempt : Nat,
             aborted : BOOLEAN, captured : SUBSET Positions, out : OutRec \cup {None},
             target : Positions \cup {None}]
CallRec == [pc : {"idle", "write"}, op : {"cancel", "pause", "signal", None},
            name : Names \cup {None}, snap : SnapRec \cup {None}, fresh : BOOLEAN]

(* What holds of a drive by itself: one past its load has a copy of a run  *)
(* that is not over, the command it executes is the frontier of that copy, *)
(* and the one it rolls back is the latest there is.                       *)
Busy(s) == s.pc \notin {"idle", "load"}
Fine(s) ==
  /\ s \in DriveRec
  /\ Busy(s) => s.snap \in SnapRec /\ s.snap.status \notin TERMINAL
  /\ s.pc = "load" => s.captured = {}
  /\ s.pc = "record" => s.out \in OutRec
  /\ s.pc \in {"execute", "running", "record"} =>
       Frontier(s.snap) \in Positions /\ ~Failed(s.snap, Frontier(s.snap))
  /\ s.pc = "rollback" =>
       s.target \in Targets(s) /\ \A t \in Targets(s) : t <= s.target

FineCall(c) ==
  /\ c \in CallRec
  /\ c.pc = "write" => c.snap \in SnapRec /\ (c.op = "signal" => c.name \in Names)

Typed ==
  /\ now \in Nat /\ stored \in SnapRec \cup {None}
  /\ drive \in [Drives -> DriveRec] /\ \A d \in Drives : Fine(drive[d])
  /\ call \in [Callers -> CallRec] /\ \A c \in Callers : FineCall(call[c])
  /\ up \in BOOLEAN /\ raced \in BOOLEAN /\ resumed \subseteq Nat
  /\ executions \in [Positions -> Nat] /\ rollbacks \in Seq(Positions)
  /\ crashes \in Nat /\ faults \in Nat

(* Nothing is under way in a process that is down, or before the run is.   *)
Quiet ==
  (~up \/ stored = None) =>
    (\A d \in Drives : drive[d].pc = "idle") /\ \A c \in Callers : call[c].pc = "idle"

(* Only the last command may be waiting; what is undone was completed.     *)
JournalOK(cmds) ==
  /\ Len(cmds) <= Len(Program)
  /\ \A i \in 1..Len(cmds) : cmds[i].compensated => cmds[i].status = "completed"
  /\ \A i \in 1..(Len(cmds) - 1) : cmds[i].status # "waiting"

(* A drive has the stored journal, but for a mark it has yet to save, and  *)
(* if its copy is fresh the run is not over.                               *)
Marked(cmds, t) == [cmds EXCEPT ![t].compensated = TRUE]
Agrees(s, st) ==
  /\ s.snap.commands =
       IF s.pc \in {"mark", "markFailed"} THEN Marked(st.commands, s.target) ELSE st.commands
  /\ s.pc \in {"mark", "markFailed"} =>
       s.target \in 1..Len(st.commands) /\ st.commands[s.target].status = "completed"
  /\ s.fresh => st.status \notin TERMINAL

CallOK(c) == call[c].pc = "write" /\ call[c].fresh => call[c].snap = stored /\ stored.status \notin TERMINAL

(* What was rolled back is settled, so that no drive captures it again,    *)
(* and a drive that captured it knows.                                     *)
RolledBack(r) ==
  /\ Completed(stored, r)
  /\ \A d \in Drives : Busy(drive[d]) /\ r \in drive[d].captured => drive[d].snap.commands[r].compensated

Uninterrupted == crashes = 0 /\ faults = 0
RollsBack(d) ==
  /\ drive[d].pc \in Compensating
  /\ \A t \in Targets(drive[d]) : t < rollbacks[Len(rollbacks)]

OrderOK ==
  /\ \A i, k \in 1..Len(rollbacks) : i < k => rollbacks[i] > rollbacks[k]
  /\ rollbacks # <<>> => stored.status = "compensated" \/ \E d \in Drives : RollsBack(d)
  /\ \A d \in Drives :
       drive[d].pc \in Compensating => stored.status \notin {"completed", "compensated"}

Sound ==
  /\ \A d, e \in Active : d = e
  /\ stored # None => JournalOK(stored.commands)
  /\ \A d \in Drives : Busy(drive[d]) => Agrees(drive[d], stored)
  /\ \A c \in Callers : CallOK(c)
  /\ stored = None => rollbacks = <<>>
  /\ \A k \in 1..Len(rollbacks) : RolledBack(rollbacks[k])
  /\ \A i, k \in 1..Len(rollbacks) : i < k => rollbacks[i] # rollbacks[k]
  /\ Uninterrupted => OrderOK

WInv == Typed /\ Quiet /\ (~raced => Sound)

----------------------------------------------------------------------------
(* The operators of the model.                                             *)
LEMMA LeastOf ==
  ASSUME NEW A \in SUBSET Nat, A # {}
  PROVE  \E k \in A : \A h \in A : k <= h
<1>1. PICK k \in A : \A h \in A : ~(<<h, k>> \in OpToRel(<, Nat))
  BY NatLessThanWellFounded, WFMin, Zenon
<1>2. \A h \in A : ~(h < k)
  BY <1>1 DEF OpToRel
<1> QED BY <1>2

LEMMA ProgramLength ==
  /\ Len(Program) \in Nat /\ Positions = 1..Len(Program)
  /\ \A i \in Positions : Program[i] \in [kind : Kinds, compensable : BOOLEAN,
                                          name : Names \cup {None}, time : Nat]
<1> DEFINE Command == [kind : Kinds, compensable : BOOLEAN, name : Names \cup {None}, time : Nat]
<1>1. Program \in Seq(Command)
  BY WorkflowAssumption
<1> HIDE DEF Command
<1>2. Len(Program) \in Nat /\ \A i \in 1..Len(Program) : Program[i] \in Command
  BY <1>1
<1> QED BY <1>2 DEF Positions, Command

LEMMA SnapIsNotNone ==
  ASSUME NEW x \in SnapRec
  PROVE  x # None
  BY WorkflowAssumption

LEMMA LatestIsMax ==
  ASSUME NEW T, T \subseteq Positions, T # {}
  PROVE  LatestOf(T) \in T /\ \A t \in T : t <= LatestOf(T)
<1> DEFINE A == {Len(Program) - t : t \in T}
<1>0. Len(Program) \in Nat /\ T \subseteq 1..Len(Program)
  BY ProgramLength
<1>1. A \in SUBSET Nat /\ A # {}
  <2>1. \A t \in T : Len(Program) - t \in Nat
    BY <1>0
  <2> QED BY <2>1
<1>2. PICK k \in A : \A h \in A : k <= h
  BY <1>1, LeastOf
<1>3. PICK m \in T : k = Len(Program) - m
  BY <1>2
<1>4. \A t \in T : t <= m
  <2> TAKE t \in T
  <2>1. Len(Program) - m <= Len(Program) - t
    BY <1>2, <1>3
  <2> QED BY <1>0, <2>1
<1> QED BY <1>4 DEF LatestOf

LEMMA FrontierFinds ==
  ASSUME NEW snap \in SnapRec
  PROVE  /\ Frontier(snap) \in 1..(Len(Program) + 1)
         /\ Frontier(snap) \in Positions => ~Settled(snap, Frontier(snap)) \/ Failed(snap, Frontier(snap))
         /\ \A k \in 1..(Frontier(snap) - 1) : Settled(snap, k) /\ ~Failed(snap, k)
<1> DEFINE Stops(i) == i \in Positions => ~Settled(snap, i) \/ Failed(snap, i)
           A == {i \in 1..(Len(Program) + 1) : Stops(i)}
<1>1. A \in SUBSET Nat /\ Len(Program) + 1 \in A
  BY ProgramLength
<1>2. PICK i \in A : \A h \in A : i <= h
  BY <1>1, LeastOf
<1>3. ASSUME NEW k \in 1..(i - 1) PROVE Settled(snap, k) /\ ~Failed(snap, k)
  <2>1. k \in 1..(Len(Program) + 1) /\ k < i /\ k \in Positions
    BY <1>2, ProgramLength
  <2>2. k \notin A
    BY <1>2, <2>1
  <2> QED BY <2>1, <2>2
<1>4. \E j \in 1..(Len(Program) + 1) :
        /\ j \in Positions => ~Settled(snap, j) \/ Failed(snap, j)
        /\ \A k \in 1..(j - 1) : Settled(snap, k) /\ ~Failed(snap, k)
  BY <1>2, <1>3
<1> QED BY <1>4 DEF Frontier

(* The part of a drive that the workflow function does not change.         *)
SameBut(s, n) ==
  /\ n.snap = s.snap /\ n.fresh = s.fresh /\ n.captured = s.captured /\ n.target = s.target

LEMMA LocalTyped ==
  ASSUME now \in Nat, NEW snap \in SnapRec, NEW i \in Positions,
         Program[i].kind \notin {"activity", "bridge"}
  PROVE  LocalOutcome(snap, i) \in OutRec
<1>0. Program[i].kind \in {"state", "sleep", "waitUntil", "waitFor"} /\ Program[i].time \in Nat
  BY ProgramLength DEF Kinds
<1>1. \A e \in Nat : TimerOutcome(e) \in OutRec
  BY DEF TimerOutcome, Outcome, OutRec
<1>2. Outcome("completed", None) \in OutRec /\ Outcome("waiting", None) \in OutRec
  BY DEF Outcome, OutRec
<1>3. CASE Program[i].kind = "state"
  BY <1>2, <1>3 DEF LocalOutcome
<1>4. CASE Program[i].kind = "sleep"
  <2>1. now + Program[i].time \in Nat
    BY <1>0
  <2> QED BY <1>1, <1>4, <2>1 DEF LocalOutcome
<1>5. CASE Program[i].kind = "waitUntil"
  BY <1>0, <1>1, <1>5 DEF LocalOutcome
<1>6. CASE Program[i].kind = "waitFor"
  BY <1>2, <1>6 DEF LocalOutcome
<1> QED BY <1>0, <1>3, <1>4, <1>5, <1>6

LEMMA AdvanceFine ==
  ASSUME now \in Nat, NEW s \in DriveRec, s.snap \in SnapRec, s.snap.status \notin TERMINAL
  PROVE  /\ Fine(Advance(s)) /\ SameBut(s, Advance(s))
         /\ Advance(s).pc \in {"complete", "fail", "execute", "record"}
<1> DEFINE i == Frontier(s.snap)
<1> HIDE DEF i
<1>1. CASE i \notin Positions
  <2>1. Advance(s) = [s EXCEPT !.pc = "complete"]
    BY <1>1 DEF Advance, i
  <2> QED BY <2>1 DEF Fine, DriveRec, DrivePc, SameBut, Busy
<1>2. CASE i \in Positions /\ Failed(s.snap, i)
  <2>1. Advance(s) = [s EXCEPT !.pc = "fail"]
    BY <1>2 DEF Advance, i
  <2> QED BY <2>1 DEF Fine, DriveRec, DrivePc, SameBut, Busy
<1>3. CASE i \in Positions /\ ~Failed(s.snap, i) /\ Program[i].kind \in {"activity", "bridge"}
  <2>1. Advance(s) = [s EXCEPT !.pc = "execute"]
    BY <1>3 DEF Advance, i
  <2> QED BY <1>3, <2>1 DEF Fine, DriveRec, DrivePc, SameBut, Busy, i
<1>4. CASE i \in Positions /\ ~Failed(s.snap, i) /\ Program[i].kind \notin {"activity", "bridge"}
  <2>1. Advance(s) = [s EXCEPT !.pc = "record", !.out = LocalOutcome(s.snap, i)]
    BY <1>4 DEF Advance, i
  <2>2. LocalOutcome(s.snap, i) \in OutRec
    BY <1>4, LocalTyped
  <2> QED BY <1>4, <2>1, <2>2 DEF Fine, DriveRec, DrivePc, SameBut, Busy, i
<1> QED BY <1>1, <1>2, <1>3, <1>4

(* Only these fields of a drive matter to what is known of it.             *)
LEMMA FlagsDoNotMatter ==
  ASSUME NEW s, Fine(s), NEW b \in BOOLEAN
  PROVE  Fine([s EXCEPT !.fresh = b]) /\ Fine([s EXCEPT !.aborted = b])
<1> DEFINE n == [s EXCEPT !.fresh = b]
           m == [s EXCEPT !.aborted = b]
<1>1. n \in DriveRec /\ m \in DriveRec
  BY DEF Fine, DriveRec
<1>2. /\ n.pc = s.pc /\ n.snap = s.snap /\ n.captured = s.captured
      /\ n.out = s.out /\ n.target = s.target
      /\ m.pc = s.pc /\ m.snap = s.snap /\ m.captured = s.captured
      /\ m.out = s.out /\ m.target = s.target
  BY DEF Fine, DriveRec
<1> HIDE DEF n, m
<1>3. Targets(n) = Targets(s) /\ Targets(m) = Targets(s)
  BY <1>2 DEF Targets
<1>4. Fine(n)
  BY <1>1, <1>2, <1>3 DEF Fine, Busy
<1>5. Fine(m)
  BY <1>1, <1>2, <1>3 DEF Fine, Busy
<1> QED BY <1>4, <1>5 DEF n, m

LEMMA NewDriveFine ==
  /\ Fine(NoDrive) /\ ~Busy(NoDrive)
  /\ Fine([NoDrive EXCEPT !.pc = "load"]) /\ ~Busy([NoDrive EXCEPT !.pc = "load"])
  BY DEF Fine, NoDrive, DriveRec, DrivePc, Busy, Compensating

LEMMA StaleTyped ==
  ASSUME Typed
  PROVE  /\ StaleDrives(drive) \in [Drives -> DriveRec]
         /\ \A e \in Drives : Fine(StaleDrives(drive)[e])
         /\ StaleCalls(call) \in [Callers -> CallRec]
         /\ \A c \in Callers : FineCall(StaleCalls(call)[c])
<1>1. ASSUME NEW e \in Drives PROVE Fine(StaleDrives(drive)[e]) /\ StaleDrives(drive)[e] \in DriveRec
  <2>1. Fine(drive[e]) /\ (drive[e].pc = "idle") \in BOOLEAN
    BY DEF Typed
  <2>2. StaleDrives(drive)[e] = [drive[e] EXCEPT !.fresh = (drive[e].pc = "idle")]
    BY DEF StaleDrives
  <2>3. Fine(StaleDrives(drive)[e])
    BY <2>1, <2>2, FlagsDoNotMatter
  <2> QED BY <2>3 DEF Fine
<1>2. ASSUME NEW c \in Callers PROVE FineCall(StaleCalls(call)[c]) /\ StaleCalls(call)[c] \in CallRec
  <2>1. FineCall(call[c]) /\ (call[c].pc = "idle") \in BOOLEAN
    BY DEF Typed
  <2>2. StaleCalls(call)[c] = [call[c] EXCEPT !.fresh = (call[c].pc = "idle")]
    BY DEF StaleCalls
  <2> QED BY <2>1, <2>2 DEF FineCall, CallRec
<1>3. StaleDrives(drive) = [d \in Drives |-> StaleDrives(drive)[d]]
  BY DEF StaleDrives
<1>4. StaleCalls(call) = [c \in Callers |-> StaleCalls(call)[c]]
  BY DEF StaleCalls
<1> QED BY <1>1, <1>2, <1>3, <1>4

LEMMA Awake ==
  ASSUME Typed, Quiet
  PROVE  /\ \A d \in Drives : drive[d].pc # "idle" => up /\ stored \in SnapRec
         /\ \A c \in Callers : call[c].pc # "idle" => up /\ stored \in SnapRec
  BY DEF Typed, Quiet

(* A drive put in another's place.                                         *)
LEMMA MoveTyped ==
  ASSUME NEW ds \in [Drives -> DriveRec], \A e \in Drives : Fine(ds[e]),
         NEW d \in Drives, NEW n, Fine(n)
  PROVE  /\ [ds EXCEPT ![d] = n] \in [Drives -> DriveRec]
         /\ \A e \in Drives : Fine([ds EXCEPT ![d] = n][e])
         /\ [ds EXCEPT ![d] = n][d] = n
         /\ \A e \in Drives : e # d => [ds EXCEPT ![d] = n][e] = ds[e]
  BY DEF Fine

----------------------------------------------------------------------------
(* What a step does to the journal while no two writers raced.             *)
Grows(old, new) ==
  \A i \in 1..Len(old) :
    /\ i <= Len(new)
    /\ old[i].status # "waiting" => new[i].status = old[i].status
    /\ old[i].compensated => new[i].compensated

JournalStep ==
  (stored # None /\ ~raced') =>
    /\ Grows(stored.commands, stored'.commands)
    /\ stored.status \in TERMINAL => stored' = stored

LEMMA GrowsFromItself ==
  ASSUME Typed, stored # None
  PROVE  Grows(stored.commands, stored.commands)
<1>1. Len(stored.commands) \in Nat
  BY DEF Typed, SnapRec
<1> QED BY <1>1 DEF Grows

(* A drive whose copy is fresh saves snap and goes on as n.                *)
SaveOK(d, snap, n) ==
  /\ JournalOK(snap.commands) /\ Grows(stored.commands, snap.commands)
  /\ Busy(n) => /\ n.snap = snap /\ n.captured = drive[d].captured
                /\ n.pc \notin {"mark", "markFailed"} /\ snap.status \notin TERMINAL
  /\ \A r \in Positions :
       Completed(stored, r) /\ drive[d].snap.commands[r].compensated => snap.commands[r].compensated
  /\ drive[d].pc \in Compensating =>
       \/ snap.status = "compensated"
       \/ n.pc \in Compensating /\ Targets(n) \subseteq Targets(drive[d])

LEMMA SaveTyped ==
  ASSUME Typed, Quiet, NEW d \in Drives, NEW snap \in SnapRec, NEW n, Fine(n), drive[d].pc # "idle",
         DriveSaves(d, snap, n), UNCHANGED <<now, up, resumed, wfHistory>>
  PROVE  /\ Typed' /\ Quiet' /\ stored' = snap /\ raced' = (raced \/ ~drive[d].fresh)
         /\ drive'[d] = [n EXCEPT !.fresh = TRUE]
         /\ \A e \in Drives : e # d => drive'[e] = [drive[e] EXCEPT !.fresh = (drive[e].pc = "idle")]
         /\ \A c \in Callers : call'[c] = [call[c] EXCEPT !.fresh = (call[c].pc = "idle")]
<1> DEFINE m == [n EXCEPT !.fresh = TRUE]
<1>1. Fine(m)
  BY FlagsDoNotMatter
<1>2. drive' = [StaleDrives(drive) EXCEPT ![d] = m] /\ call' = StaleCalls(call)
  BY DEF DriveSaves
<1> HIDE DEF m
<1>3. /\ drive' \in [Drives -> DriveRec] /\ \A e \in Drives : Fine(drive'[e])
      /\ drive'[d] = m /\ \A e \in Drives : e # d => drive'[e] = StaleDrives(drive)[e]
  BY <1>1, <1>2, StaleTyped, MoveTyped
<1>4. call' \in [Callers -> CallRec] /\ \A c \in Callers : FineCall(call'[c])
  BY <1>2, StaleTyped
<1>5. stored' = snap /\ raced' = (raced \/ ~drive[d].fresh)
  BY DEF DriveSaves, Save
<1>6. drive[d].fresh \in BOOLEAN /\ raced \in BOOLEAN
  BY DEF Typed, DriveRec
<1>7. Typed'
  BY <1>3, <1>4, <1>5, <1>6 DEF Typed, wfHistory
<1>8. up' /\ stored' # None
  BY <1>5, Awake, SnapIsNotNone
<1> QED BY <1>2, <1>3, <1>5, <1>7, <1>8 DEF Quiet, StaleDrives, StaleCalls, m

LEMMA DriveSavesKeeps ==
  ASSUME WInv, NEW d \in Drives, NEW snap \in SnapRec, NEW n, Fine(n), n.pc # "load",
         Busy(drive[d]), DriveSaves(d, snap, n), UNCHANGED <<now, up, resumed, wfHistory>>,
         Sound /\ drive[d].fresh => SaveOK(d, snap, n)
  PROVE  WInv' /\ JournalStep
<1>1. Typed /\ Quiet /\ drive[d].pc # "idle"
  BY DEF WInv, Busy
<1>2. /\ Typed' /\ Quiet' /\ stored' = snap /\ raced' = (raced \/ ~drive[d].fresh)
      /\ drive'[d] = [n EXCEPT !.fresh = TRUE]
      /\ \A e \in Drives : e # d => drive'[e] = [drive[e] EXCEPT !.fresh = (drive[e].pc = "idle")]
      /\ \A c \in Callers : call'[c] = [call[c] EXCEPT !.fresh = (call[c].pc = "idle")]
  BY <1>1, SaveTyped
<1>3. SUFFICES ASSUME ~raced' PROVE Sound' /\ JournalStep
  BY <1>2 DEF WInv, JournalStep
<1>4. Sound /\ drive[d].fresh /\ SaveOK(d, snap, n) /\ stored \in SnapRec
  BY <1>1, <1>2, <1>3, Awake DEF WInv
<1>5. Agrees(drive[d], stored) /\ stored.status \notin TERMINAL
  BY <1>4 DEF Sound, Agrees
<1>6. JournalStep
  BY <1>2, <1>4, <1>5 DEF JournalStep, SaveOK
<1> DEFINE m == drive'[d]
<1>7. /\ m.pc = n.pc /\ m.snap = n.snap /\ m.captured = n.captured /\ m.target = n.target
      /\ Busy(m) <=> Busy(n)
  BY <1>2 DEF Fine, DriveRec, Busy
<1>8. \A e \in Drives : e # d => drive[e].pc = "idle" /\ drive'[e].pc = "idle"
  <2> TAKE e \in Drives
  <2>1. e # d => drive[e].pc = "idle"
    BY <1>1, <1>4 DEF Sound, Active
  <2> QED BY <2>1, <1>1, <1>2 DEF Typed, DriveRec
<1>9. \A a, b \in Active' : a = b
  BY <1>8 DEF Active
<1>10. \A e \in Drives : Busy(drive'[e]) => Agrees(drive'[e], stored')
  <2>1. Busy(m) => Agrees(m, snap)
    BY <1>4, <1>7 DEF SaveOK, Agrees
  <2> QED BY <2>1, <1>2, <1>8 DEF Busy
<1>11. \A c \in Callers : CallOK(c)'
  <2> TAKE c \in Callers
  <2>1. call[c] \in CallRec
    BY <1>1 DEF Typed
  <2>2. call'[c].pc = "write" => ~call'[c].fresh
    BY <1>2, <2>1 DEF CallRec
  <2> QED BY <2>2 DEF CallOK
<1>12. stored' # None /\ rollbacks' = rollbacks /\ crashes' = crashes /\ faults' = faults
  BY <1>2, SnapIsNotNone DEF wfHistory
<1>13. rollbacks \in Seq(Positions) /\ Len(rollbacks) \in Nat /\ \A k \in 1..Len(rollbacks) : rollbacks[k] \in Positions
  BY <1>1 DEF Typed
<1>14. ASSUME NEW k \in 1..Len(rollbacks) PROVE RolledBack(rollbacks[k])'
  <2> DEFINE r == rollbacks[k]
  <2>1. r \in Positions /\ Completed(stored, r) /\ (r \in drive[d].captured => drive[d].snap.commands[r].compensated)
    BY <1>4, <1>13 DEF Sound, RolledBack
  <2> HIDE DEF r
  <2>2. r \in 1..Len(stored.commands) /\ stored.commands[r].status = "completed"
    BY <2>1, ProgramLength, <1>4 DEF Completed, SnapRec
  <2>3. Completed(snap, r)
    BY <1>4, <2>2 DEF SaveOK, Grows, Completed
  <2>4. Busy(m) /\ r \in m.captured => m.snap.commands[r].compensated
    BY <1>4, <1>7, <2>1 DEF SaveOK
  <2>5. \A e \in Drives : Busy(drive'[e]) /\ r \in drive'[e].captured => drive'[e].snap.commands[r].compensated
    BY <1>8, <2>4 DEF Busy
  <2>6. rollbacks'[k] = r
    BY <1>12 DEF r
  <2> QED BY <1>2, <2>3, <2>5, <2>6, <1>12 DEF RolledBack, r
<1>15. Uninterrupted' => OrderOK'
  <2> SUFFICES ASSUME Uninterrupted PROVE OrderOK'
    BY <1>12 DEF Uninterrupted
  <2>1. OrderOK
    BY <1>4 DEF Sound
  <2>2. \A i, k \in 1..Len(rollbacks') : i < k => rollbacks'[i] > rollbacks'[k]
    BY <2>1, <1>12 DEF OrderOK
  <2>3. Targets(m) = Targets(n)
    BY <1>7 DEF Targets
  <2>4. ASSUME rollbacks # <<>> PROVE stored'.status = "compensated" \/ RollsBack(d)'
    <3>1. RollsBack(d)
      BY <2>1, <2>4, <1>5, <1>8 DEF OrderOK, RollsBack, TERMINAL, Compensating
    <3>2. snap.status = "compensated" \/ (n.pc \in Compensating /\ Targets(n) \subseteq Targets(drive[d]))
      BY <1>4, <3>1 DEF SaveOK, RollsBack
    <3> QED BY <1>2, <1>7, <1>12, <2>3, <3>1, <3>2 DEF RollsBack
  <2>5. ASSUME NEW e \in Drives, drive'[e].pc \in Compensating
        PROVE  stored'.status \notin {"completed", "compensated"}
    <3>1. e = d
      BY <1>8, <2>5 DEF Compensating
    <3>2. Busy(n)
      BY <1>7, <2>5, <3>1 DEF Busy, Compensating
    <3> QED BY <3>2, <1>2, <1>4 DEF SaveOK, TERMINAL
  <2> QED BY <2>2, <2>4, <2>5, <1>12 DEF OrderOK
<1>16. \A i, k \in 1..Len(rollbacks') : i < k => rollbacks'[i] # rollbacks'[k]
  BY <1>4, <1>12 DEF Sound
<1>17. JournalOK(stored'.commands)
  BY <1>2, <1>4 DEF SaveOK
<1> QED BY <1>6, <1>9, <1>10, <1>11, <1>12, <1>14, <1>15, <1>16, <1>17 DEF Sound

----------------------------------------------------------------------------
(* The steps of a drive that save.                                         *)

LEMMA MarkedJournal ==
  ASSUME NEW cmds \in Seq(CmdRec), NEW t \in 1..Len(cmds)
  PROVE  /\ Marked(cmds, t) \in Seq(CmdRec) /\ Len(Marked(cmds, t)) = Len(cmds)
         /\ Marked(cmds, t)[t].compensated = TRUE
         /\ \A k \in 1..Len(cmds) : /\ Marked(cmds, t)[k].status = cmds[k].status
                                    /\ k # t => Marked(cmds, t)[k] = cmds[k]
<1> DEFINE c == [cmds[t] EXCEPT !.compensated = TRUE]
<1>1. cmds[t] \in CmdRec
  OBVIOUS
<1>2. c \in CmdRec /\ c.compensated = TRUE /\ c.status = cmds[t].status
  BY <1>1 DEF CmdRec
<1>3. Marked(cmds, t) = [cmds EXCEPT ![t] = c]
  BY DEF Marked
<1> HIDE DEF c
<1>4. /\ [cmds EXCEPT ![t] = c] \in Seq(CmdRec) /\ Len([cmds EXCEPT ![t] = c]) = Len(cmds)
      /\ \A k \in 1..Len(cmds) : [cmds EXCEPT ![t] = c][k] = IF k = t THEN c ELSE cmds[k]
  BY <1>2, ExceptSeq
<1> QED BY <1>2, <1>3, <1>4

(* A save that leaves the journal of the drive as it is.                   *)
LEMMA SameJournalOK ==
  ASSUME WInv, Sound, NEW d \in Drives, Busy(drive[d]), NEW snap \in SnapRec,
         snap.commands = drive[d].snap.commands
  PROVE  JournalOK(snap.commands) /\ Grows(stored.commands, snap.commands)
<1> DEFINE s == drive[d]
           cmds == stored.commands
<1>1. /\ stored \in SnapRec /\ stored # None /\ Agrees(s, stored) /\ JournalOK(cmds)
      /\ Typed
  BY Awake, SnapIsNotNone DEF WInv, Sound, Busy
<1>2. cmds \in Seq(CmdRec) /\ Len(cmds) \in Nat /\ \A i \in 1..Len(cmds) : cmds[i] \in CmdRec
  BY <1>1 DEF SnapRec
<1>3. CASE s.pc \notin {"mark", "markFailed"}
  <2>1. snap.commands = cmds
    BY <1>1, <1>3 DEF Agrees
  <2> QED BY <1>1, <2>1, GrowsFromItself
<1>4. CASE s.pc \in {"mark", "markFailed"}
  <2> DEFINE new == Marked(cmds, s.target)
  <2>1. snap.commands = new /\ s.target \in 1..Len(cmds) /\ cmds[s.target].status = "completed"
    BY <1>1, <1>4 DEF Agrees
  <2>2. Len(new) = Len(cmds)
    BY <1>2, <2>1, MarkedJournal
  <2>3. \A i \in 1..Len(cmds) : /\ new[i].status = cmds[i].status
                                /\ cmds[i].compensated => new[i].compensated
                                /\ new[i].compensated => cmds[i].compensated \/ i = s.target
    BY <1>2, <2>1, MarkedJournal, ZenonT(30)
  <2> HIDE DEF new
  <2>4. JournalOK(new)
    BY <1>1, <1>2, <2>1, <2>2, <2>3, SMTT(30) DEF JournalOK
  <2>5. Grows(cmds, new)
    BY <1>2, <2>2, <2>3 DEF Grows
  <2> QED BY <2>1, <2>4, <2>5
<1> QED BY <1>3, <1>4

LEMMA NormalizeKeeps ==
  ASSUME WInv, NEW d \in Drives, Normalize(d)
  PROVE  WInv' /\ JournalStep
<1> DEFINE s == drive[d]
           snap == [s.snap EXCEPT !.status = "running"]
           t == [s EXCEPT !.snap = snap]
           n == Advance(t)
<1>1. Fine(s) /\ s.pc = "normalize" /\ Busy(s) /\ s.snap \in SnapRec /\ now \in Nat
  BY DEF WInv, Typed, Normalize, Fine, Busy
<1>2. snap \in SnapRec /\ snap.commands = s.snap.commands /\ snap.status = "running"
  BY <1>1 DEF SnapRec, Statuses
<1>3. DriveSaves(d, snap, n) /\ UNCHANGED <<now, up, resumed, wfHistory>>
  BY DEF Normalize
<1> HIDE DEF snap
<1>4. t \in DriveRec /\ t.snap = snap /\ t.captured = s.captured
  BY <1>1, <1>2 DEF Fine, DriveRec
<1> HIDE DEF t
<1>5. /\ Fine(n) /\ n.snap = snap /\ n.captured = s.captured
      /\ n.pc \in {"complete", "fail", "execute", "record"}
  BY <1>1, <1>2, <1>4, AdvanceFine DEF SameBut, TERMINAL
<1> HIDE DEF n
<1>6. ASSUME Sound PROVE SaveOK(d, snap, n)
  <2>1. JournalOK(snap.commands) /\ Grows(stored.commands, snap.commands)
    BY <1>1, <1>2, <1>6, SameJournalOK
  <2> QED BY <1>1, <1>2, <1>5, <2>1 DEF SaveOK, Compensating, TERMINAL
<1> QED BY <1>1, <1>2, <1>3, <1>5, <1>6, DriveSavesKeeps

LEMMA FinalizeKeeps ==
  ASSUME WInv, NEW d \in Drives, NEW status \in TERMINAL, Finalize(d, status)
  PROVE  WInv' /\ JournalStep
<1> DEFINE s == drive[d]
           snap == [s.snap EXCEPT !.status = status]
<1>1. /\ Fine(s) /\ Busy(s) /\ s.snap \in SnapRec
      /\ s.pc \in Compensating => status = "compensated"
  BY DEF WInv, Typed, Finalize, Fine, Busy, Compensating
<1>2. snap \in SnapRec /\ snap.commands = s.snap.commands /\ snap.status = status
  BY <1>1 DEF SnapRec, Statuses
<1>3. DriveSaves(d, snap, NoDrive) /\ UNCHANGED <<now, up, resumed, wfHistory>>
  BY DEF Finalize
<1> HIDE DEF snap
<1>4. Fine(NoDrive) /\ ~Busy(NoDrive) /\ NoDrive.pc # "load"
  BY NewDriveFine DEF NoDrive
<1>5. ASSUME Sound PROVE SaveOK(d, snap, NoDrive)
  <2>1. JournalOK(snap.commands) /\ Grows(stored.commands, snap.commands)
    BY <1>1, <1>2, <1>5, SameJournalOK
  <2> QED BY <1>1, <1>2, <1>4, <2>1 DEF SaveOK
<1> QED BY <1>1, <1>2, <1>3, <1>4, <1>5, DriveSavesKeeps

LEMMA StartCompensatingKeeps ==
  ASSUME WInv, NEW d \in Drives, StartCompensating(d)
  PROVE  WInv' /\ JournalStep
<1> DEFINE s == drive[d]
           snap == [s.snap EXCEPT !.status = "compensating"]
           n == [s EXCEPT !.snap = snap, !.pc = "compensate"]
<1>1. Fine(s) /\ Busy(s) /\ s.snap \in SnapRec /\ s.pc = "fail"
  BY DEF WInv, Typed, StartCompensating, Fine, Busy
<1>2. snap \in SnapRec /\ snap.commands = s.snap.commands /\ snap.status = "compensating"
  BY <1>1 DEF SnapRec, Statuses
<1>3. DriveSaves(d, snap, n) /\ UNCHANGED <<now, up, resumed, wfHistory>>
  BY DEF StartCompensating
<1> HIDE DEF snap
<1>4. n \in DriveRec /\ n.snap = snap /\ n.captured = s.captured /\ n.pc = "compensate"
  BY <1>1, <1>2 DEF Fine, DriveRec, DrivePc, Compensating
<1> HIDE DEF n
<1>5. Fine(n)
  BY <1>2, <1>4 DEF Fine, TERMINAL
<1>6. ASSUME Sound PROVE SaveOK(d, snap, n)
  <2>1. JournalOK(snap.commands) /\ Grows(stored.commands, snap.commands)
    BY <1>1, <1>2, <1>6, SameJournalOK
  <2> QED BY <1>1, <1>2, <1>4, <2>1 DEF SaveOK, Compensating, TERMINAL
<1> QED BY <1>1, <1>2, <1>3, <1>4, <1>5, <1>6, DriveSavesKeeps

LEMMA CompensationStartedKeeps ==
  ASSUME WInv, NEW d \in Drives, CompensationStarted(d)
  PROVE  WInv' /\ JournalStep
<1> DEFINE s == drive[d]
           n == [s EXCEPT !.pc = "rollback", !.target = LatestOf(Targets(s))]
<1>1. /\ Fine(s) /\ Busy(s) /\ s.snap \in SnapRec /\ s.pc = "compensate" /\ Targets(s) # {}
      /\ s.snap.status \notin TERMINAL
  BY DEF WInv, Typed, CompensationStarted, Fine, Busy
<1>2. Targets(s) \subseteq Positions
  BY <1>1 DEF Targets, Fine, DriveRec
<1>3. LatestOf(Targets(s)) \in Targets(s) /\ \A t \in Targets(s) : t <= LatestOf(Targets(s))
  BY <1>1, <1>2, LatestIsMax
<1>4. DriveSaves(d, s.snap, n) /\ UNCHANGED <<now, up, resumed, wfHistory>>
  BY DEF CompensationStarted
<1>5. /\ n \in DriveRec /\ n.snap = s.snap /\ n.captured = s.captured /\ n.pc = "rollback"
      /\ n.target = LatestOf(Targets(s))
  BY <1>1, <1>2, <1>3 DEF Fine, DriveRec, DrivePc, Compensating
<1> HIDE DEF n
<1>6. Targets(n) = Targets(s)
  BY <1>5 DEF Targets
<1>7. Fine(n)
  BY <1>1, <1>3, <1>5, <1>6 DEF Fine
<1>8. ASSUME Sound PROVE SaveOK(d, s.snap, n)
  <2>1. JournalOK(s.snap.commands) /\ Grows(stored.commands, s.snap.commands)
    BY <1>1, <1>8, SameJournalOK
  <2> QED BY <1>1, <1>5, <1>6, <1>8, <2>1 DEF SaveOK, Compensating
<1> QED BY <1>1, <1>4, <1>5, <1>7, <1>8, DriveSavesKeeps

LEMMA CompensationDoneKeeps ==
  ASSUME WInv, NEW d \in Drives, CompensationDone(d)
  PROVE  WInv' /\ JournalStep
<1> DEFINE s == drive[d]
           n == [s EXCEPT !.pc = "compensate", !.target = None]
<1>1. /\ Fine(s) /\ Busy(s) /\ s.snap \in SnapRec /\ s.pc \in {"mark", "markFailed"}
      /\ s.snap.status \notin TERMINAL
  BY DEF WInv, Typed, CompensationDone, Fine, Busy
<1>2. DriveSaves(d, s.snap, n) /\ UNCHANGED <<now, up, resumed, wfHistory>>
  BY DEF CompensationDone
<1>3. n \in DriveRec /\ n.snap = s.snap /\ n.captured = s.captured /\ n.pc = "compensate"
  BY <1>1 DEF Fine, DriveRec, DrivePc, Compensating
<1> HIDE DEF n
<1>4. Targets(n) = Targets(s)
  BY <1>3 DEF Targets
<1>5. Fine(n)
  BY <1>1, <1>3 DEF Fine
<1>6. ASSUME Sound PROVE SaveOK(d, s.snap, n)
  <2>1. JournalOK(s.snap.commands) /\ Grows(stored.commands, s.snap.commands)
    BY <1>1, <1>6, SameJournalOK
  <2> QED BY <1>1, <1>3, <1>4, <1>6, <2>1 DEF SaveOK, Compensating
<1> QED BY <1>1, <1>2, <1>3, <1>5, <1>6, DriveSavesKeeps

LEMMA RecordedJournal ==
  ASSUME NEW cmds \in Seq(CmdRec), NEW i \in Nat, i >= 1, i - 1 <= Len(cmds), NEW cmd \in CmdRec,
         NEW new, new = SubSeq(cmds, 1, i - 1) \o <<cmd>>
  PROVE  /\ new \in Seq(CmdRec) /\ Len(new) = i /\ new[i] = cmd
         /\ \A k \in 1..(i - 1) : new[k] = cmds[k]
<1> DEFINE head == SubSeq(cmds, 1, i - 1)
<1>1. /\ head \in Seq(CmdRec) /\ Len(head) = i - 1
      /\ \A k \in 1..(i - 1) : head[k] = cmds[k]
  <2>1. \A k \in 1..(i - 1) : cmds[k] \in CmdRec
    OBVIOUS
  <2> QED BY <2>1, SubSeqProperties
<1> HIDE DEF head
<1>2. new = head \o <<cmd>> /\ <<cmd>> \in Seq(CmdRec) /\ Len(<<cmd>>) = 1 /\ <<cmd>>[1] = cmd
  BY DEF head
<1>3. /\ head \o <<cmd>> \in Seq(CmdRec) /\ Len(head \o <<cmd>>) = Len(head) + 1
      /\ \A k \in 1..(Len(head) + 1) :
           (head \o <<cmd>>)[k] = IF k <= Len(head) THEN head[k] ELSE <<cmd>>[k - Len(head)]
  BY <1>1, <1>2, ConcatProperties
<1> QED BY <1>1, <1>2, <1>3

LEMMA BeforeFrontier ==
  ASSUME NEW snap \in SnapRec, Frontier(snap) \in Positions, ~Failed(snap, Frontier(snap))
  PROVE  /\ Frontier(snap) \in Nat /\ Frontier(snap) >= 1 /\ Frontier(snap) - 1 <= Len(snap.commands)
         /\ Frontier(snap) <= Len(Program) /\ ~Settled(snap, Frontier(snap))
         /\ \A k \in 1..(Frontier(snap) - 1) : snap.commands[k].status # "waiting"
<1> DEFINE i == Frontier(snap)
<1>1. /\ i \in Positions => ~Settled(snap, i) \/ Failed(snap, i)
      /\ \A k \in 1..(i - 1) : Settled(snap, k) /\ ~Failed(snap, k)
  BY FrontierFinds
<1>2. i \in 1..Len(Program) /\ Len(Program) \in Nat
  BY ProgramLength
<1> HIDE DEF i
<1>3. Len(snap.commands) \in Nat
  BY DEF SnapRec
<1>4. i - 1 <= Len(snap.commands)
  <2>1. CASE i = 1
    BY <1>3, <2>1
  <2>2. CASE i # 1
    <3>1. i - 1 \in 1..(i - 1)
      BY <1>2, <2>2
    <3> QED BY <1>1, <3>1 DEF Settled
  <2> QED BY <2>1, <2>2
<1>5. i \in Positions /\ ~Failed(snap, i)
  BY DEF i
<1> QED BY <1>1, <1>2, <1>4, <1>5 DEF Settled, i

LEMMA RecordKeeps ==
  ASSUME WInv, NEW d \in Drives, Record(d)
  PROVE  WInv' /\ JournalStep
<1> DEFINE s == drive[d]
           i == Frontier(s.snap)
           cmds == s.snap.commands
           cmd == [status |-> s.out.status, compensated |-> FALSE, expiresAt |-> s.out.expiresAt]
           new == SubSeq(cmds, 1, i - 1) \o <<cmd>>
           snap == [s.snap EXCEPT !.status = IF s.out.status = "waiting" THEN "waiting" ELSE @,
                                  !.commands = SubSeq(@, 1, i - 1) \o <<cmd>>]
           t == [s EXCEPT !.snap = snap, !.out = None]
           n == IF s.out.status = "waiting" THEN NoDrive ELSE Advance(t)
<1>1. /\ Fine(s) /\ s.pc = "record" /\ Busy(s) /\ s.snap \in SnapRec /\ now \in Nat
      /\ s.out \in OutRec /\ i \in Positions /\ ~Failed(s.snap, i) /\ s.snap.status \notin TERMINAL
  BY DEF WInv, Typed, Record, Fine, Busy
<1>2. /\ i \in Nat /\ i >= 1 /\ i - 1 <= Len(cmds) /\ i <= Len(Program) /\ ~Settled(s.snap, i)
      /\ \A k \in 1..(i - 1) : cmds[k].status # "waiting"
  BY <1>1, BeforeFrontier
<1>3. cmds \in Seq(CmdRec) /\ cmd \in CmdRec /\ cmd.status = s.out.status /\ cmd.compensated = FALSE
  BY <1>1 DEF SnapRec, OutRec, CmdRec
<1>4. DriveSaves(d, snap, n) /\ UNCHANGED <<now, up, resumed, wfHistory>>
  BY DEF Record
<1> HIDE DEF i, cmd
<1>5. /\ new \in Seq(CmdRec) /\ Len(new) = i /\ new[i] = cmd
      /\ \A k \in 1..(i - 1) : new[k] = cmds[k]
  <2>1. new = SubSeq(cmds, 1, i - 1) \o <<cmd>>
    OBVIOUS
  <2> HIDE DEF new, cmds
  <2> QED BY <2>1, <1>2, <1>3, RecordedJournal
<1>6. snap = [s.snap EXCEPT !.status = IF s.out.status = "waiting" THEN "waiting" ELSE s.snap.status,
                            !.commands = new]
  BY <1>1 DEF SnapRec
<1> HIDE DEF new, snap
<1>7. /\ snap \in SnapRec /\ snap.commands = new
      /\ snap.status = (IF s.out.status = "waiting" THEN "waiting" ELSE s.snap.status)
  BY <1>1, <1>5, <1>6 DEF SnapRec, Statuses
<1>8. t \in DriveRec /\ t.snap = snap /\ t.captured = s.captured
  BY <1>1, <1>7 DEF Fine, DriveRec
<1> HIDE DEF t
<1>9. snap.status \notin TERMINAL
  BY <1>1, <1>7 DEF TERMINAL
<1>10. /\ Fine(n) /\ n.pc # "load"
       /\ Busy(n) => /\ n.snap = snap /\ n.captured = s.captured
                     /\ n.pc \in {"complete", "fail", "execute", "record"}
  <2>1. CASE s.out.status = "waiting"
    <3>1. n = NoDrive
      BY <2>1
    <3> QED BY <3>1, NewDriveFine DEF NoDrive
  <2>2. CASE s.out.status # "waiting"
    <3>1. n = Advance(t)
      BY <2>2
    <3>2. Fine(Advance(t)) /\ SameBut(t, Advance(t)) /\ Advance(t).pc \in {"complete", "fail", "execute", "record"}
      BY <1>1, <1>7, <1>8, <1>9, AdvanceFine
    <3> HIDE DEF n
    <3> QED BY <1>8, <3>1, <3>2 DEF SameBut
  <2> QED BY <2>1, <2>2
<1> HIDE DEF n
<1>11. ASSUME Sound PROVE SaveOK(d, snap, n)
  <2>1. /\ stored \in SnapRec /\ Agrees(s, stored) /\ stored.commands = cmds /\ JournalOK(cmds)
    BY <1>1, <1>11, Awake, SnapIsNotNone DEF WInv, Sound, Busy, Agrees
  <2>2. Len(cmds) \in Nat /\ \A k \in 1..Len(cmds) : cmds[k] \in CmdRec
    BY <1>3
  <2> HIDE DEF cmds
  <2>3. Len(cmds) <= i /\ (i \in 1..Len(cmds) => cmds[i].status = "waiting" /\ ~cmds[i].compensated)
    <3>1. i \in 1..Len(cmds) => cmds[i].status = "waiting"
      BY <1>2, <2>2 DEF Settled, cmds
    <3>2. i \in 1..Len(cmds) => ~cmds[i].compensated
      BY <3>1, <2>1 DEF JournalOK
    <3>3. Len(cmds) <= i
      BY <3>1, <1>2, <2>1, <2>2 DEF JournalOK
    <3> QED BY <3>1, <3>2, <3>3
  <2>4. \A k \in 1..Len(cmds) : k = i \/ k \in 1..(i - 1)
    BY <1>2, <2>2, <2>3
  <2>5. Grows(cmds, new)
    <3> SUFFICES ASSUME NEW k \in 1..Len(cmds)
                 PROVE  /\ k <= Len(new)
                        /\ cmds[k].status # "waiting" => new[k].status = cmds[k].status
                        /\ cmds[k].compensated => new[k].compensated
      BY DEF Grows
    <3>1. CASE k = i
      BY <1>2, <1>5, <2>3, <3>1
    <3>2. CASE k \in 1..(i - 1)
      BY <1>2, <1>5, <3>2
    <3> QED BY <2>4, <3>1, <3>2
  <2>6. JournalOK(new)
    <3>1. Len(new) <= Len(Program)
      BY <1>2, <1>5
    <3>2. ASSUME NEW k \in 1..Len(new) PROVE new[k].compensated => new[k].status = "completed"
      <4>1. CASE k = i
        BY <1>3, <1>5, <4>1
      <4>2. CASE k \in 1..(i - 1)
        <5>1. k \in 1..Len(cmds) /\ new[k] = cmds[k]
          BY <1>2, <1>5, <2>2, <4>2 DEF cmds
        <5> QED BY <2>1, <5>1 DEF JournalOK
      <4> QED BY <1>2, <1>5, <4>1, <4>2
    <3>3. ASSUME NEW k \in 1..(Len(new) - 1) PROVE new[k].status # "waiting"
      BY <1>2, <1>5, <3>3 DEF cmds
    <3> QED BY <3>1, <3>2, <3>3 DEF JournalOK
  <2>7. ASSUME NEW r \in Positions, Completed(stored, r), cmds[r].compensated
        PROVE  snap.commands[r].compensated
    <3>1. r \in 1..Len(cmds)
      BY <2>1, <2>2, <2>7, ProgramLength DEF Completed, cmds
    <3> QED BY <1>7, <2>5, <2>7, <3>1 DEF Grows
  <2> QED BY <1>1, <1>7, <1>9, <1>10, <2>1, <2>5, <2>6, <2>7 DEF SaveOK, Compensating, cmds
<1> QED BY <1>1, <1>4, <1>7, <1>10, <1>11, DriveSavesKeeps

----------------------------------------------------------------------------
(* The steps of a drive that save nothing.                                 *)
MoveOK(d, n) ==
  Busy(n) =>
    /\ Agrees(n, stored)
    /\ \A r \in n.captured :
         Completed(stored, r) => /\ Busy(drive[d]) /\ r \in drive[d].captured
                                 /\ n.snap.commands[r].compensated = drive[d].snap.commands[r].compensated

LEMMA DriveMovesKeeps ==
  ASSUME WInv, NEW d \in Drives, NEW n, Fine(n), n.pc # "load", drive[d].pc # "idle",
         drive' = [drive EXCEPT ![d] = n],
         UNCHANGED <<now, stored, call, up, resumed, rollbacks, crashes, raced>>,
         executions' \in [Positions -> Nat],
         \/ faults' = faults + 1
         \/ faults' = faults /\ drive[d].pc \notin Compensating /\ n.pc \notin Compensating,
         Sound => MoveOK(d, n)
  PROVE  WInv' /\ JournalStep
<1>1. Typed /\ Quiet /\ up /\ stored \in SnapRec /\ stored # None
  BY Awake, SnapIsNotNone DEF WInv
<1>2. /\ drive' \in [Drives -> DriveRec] /\ \A e \in Drives : Fine(drive'[e])
      /\ drive'[d] = n /\ \A e \in Drives : e # d => drive'[e] = drive[e]
  <2>1. drive \in [Drives -> DriveRec] /\ \A e \in Drives : Fine(drive[e])
    BY <1>1 DEF Typed
  <2>2. n \in DriveRec
    BY DEF Fine
  <2> QED BY <2>1, <2>2
<1>3. Typed'
  BY <1>1, <1>2 DEF Typed
<1>4. Quiet'
  BY <1>1 DEF Quiet
<1>5. JournalStep
  BY <1>1, GrowsFromItself DEF JournalStep
<1>6. ASSUME ~raced' PROVE Sound'
  <2>1. Sound /\ MoveOK(d, n)
    BY <1>6 DEF WInv
  <2>2. \A a, b \in Active' : a = b
    BY <1>2, <2>1 DEF Sound, Active
  <2>3. \A e \in Drives : Busy(drive'[e]) => Agrees(drive'[e], stored')
    BY <1>2, <2>1 DEF Sound, MoveOK
  <2>4. \A c \in Callers : CallOK(c)'
    BY <2>1 DEF Sound, CallOK
  <2>5. ASSUME NEW k \in 1..Len(rollbacks) PROVE RolledBack(rollbacks[k])'
    <3> DEFINE r == rollbacks[k]
    <3>1. RolledBack(r)
      BY <2>1 DEF Sound
    <3>2. rollbacks'[k] = r
      OBVIOUS
    <3> HIDE DEF r
    <3>3. Busy(n) /\ r \in n.captured => n.snap.commands[r].compensated
      BY <2>1, <3>1 DEF RolledBack, MoveOK
    <3>4. \A e \in Drives : Busy(drive'[e]) /\ r \in drive'[e].captured => drive'[e].snap.commands[r].compensated
      BY <1>2, <3>1, <3>3 DEF RolledBack
    <3> QED BY <3>1, <3>2, <3>4 DEF RolledBack, r
  <2>6. ASSUME Uninterrupted' PROVE OrderOK'
    <3>1. /\ Uninterrupted /\ faults' = faults
          /\ drive[d].pc \notin Compensating /\ n.pc \notin Compensating
      BY <1>1, <2>6 DEF Uninterrupted, Typed
    <3>2. OrderOK
      BY <2>1, <3>1 DEF Sound
    <3>3. \A e \in Drives : drive'[e].pc \in Compensating => drive'[e] = drive[e]
      BY <1>2, <3>1
    <3>4. \A e \in Drives : RollsBack(e) => RollsBack(e)'
      BY <1>2, <3>1 DEF RollsBack
    <3> QED BY <3>2, <3>3, <3>4 DEF OrderOK
  <2> QED BY <2>1, <2>2, <2>3, <2>4, <2>5, <2>6 DEF Sound
<1> QED BY <1>3, <1>4, <1>5, <1>6 DEF WInv

LEMMA DriveLoadKeeps ==
  ASSUME WInv, NEW d \in Drives, DriveLoad(d)
  PROVE  WInv' /\ JournalStep
<1> DEFINE s == [drive[d] EXCEPT !.snap = stored, !.fresh = TRUE]
           n == IF stored.status \in TERMINAL \cup {"paused"} THEN NoDrive
                ELSE IF stored.status = "running" THEN Advance(s)
                ELSE [s EXCEPT !.pc = "normalize"]
<1>1. /\ Fine(drive[d]) /\ drive[d].pc = "load" /\ drive[d].captured = {}
      /\ stored \in SnapRec /\ Typed /\ now \in Nat
  BY Awake DEF WInv, Typed, DriveLoad, Fine
<1>2. s \in DriveRec /\ s.snap = stored /\ s.captured = {} /\ s.fresh = TRUE
  BY <1>1 DEF Fine, DriveRec
<1>3. /\ drive' = [drive EXCEPT ![d] = n]
      /\ UNCHANGED <<now, stored, call, up, resumed, rollbacks, crashes, raced, executions, faults>>
  BY DEF DriveLoad, wfHistory
<1> HIDE DEF s
<1>4. /\ Fine(n) /\ n.pc # "load" /\ n.pc \notin Compensating
      /\ Busy(n) => /\ n.snap = stored /\ n.captured = {} /\ stored.status \notin TERMINAL
                    /\ n.pc \notin {"mark", "markFailed"}
  <2>1. CASE stored.status \in TERMINAL \cup {"paused"}
    <3>1. n = NoDrive
      BY <2>1
    <3> QED BY <3>1, NewDriveFine DEF NoDrive, Compensating
  <2>2. CASE stored.status = "running"
    <3>1. stored.status \notin TERMINAL \cup {"paused"}
      BY <2>2 DEF TERMINAL
    <3>2. n = Advance(s)
      BY <2>2, <3>1
    <3>3. Fine(Advance(s)) /\ SameBut(s, Advance(s)) /\ Advance(s).pc \in {"complete", "fail", "execute", "record"}
      BY <1>1, <1>2, <3>1, AdvanceFine
    <3> HIDE DEF n
    <3> QED BY <1>2, <3>1, <3>2, <3>3 DEF SameBut, Compensating
  <2>3. CASE stored.status \notin TERMINAL \cup {"paused", "running"}
    <3>1. n = [s EXCEPT !.pc = "normalize"]
      BY <2>3
    <3>2. n \in DriveRec /\ n.pc = "normalize" /\ n.snap = stored /\ n.captured = {}
      BY <1>2, <3>1 DEF DriveRec, DrivePc
    <3> HIDE DEF n
    <3> QED BY <1>1, <2>3, <3>2 DEF Fine, Compensating
  <2> QED BY <2>1, <2>2, <2>3
<1> HIDE DEF n
<1>5. MoveOK(d, n)
  BY <1>4 DEF MoveOK, Agrees
<1>6. executions' \in [Positions -> Nat] /\ drive[d].pc \notin Compensating
  BY <1>1, <1>3 DEF Typed, Compensating
<1> QED BY <1>1, <1>3, <1>4, <1>5, <1>6, DriveMovesKeeps

(* What a step that leaves the copy of a drive alone owes.                 *)
LEMMA SameCopyOK ==
  ASSUME Sound, NEW d \in Drives, Busy(drive[d]), NEW n, n.snap = drive[d].snap,
         n.captured = drive[d].captured, n.target = drive[d].target,
         n.fresh = drive[d].fresh,
         n.pc \in {"mark", "markFailed"} <=> drive[d].pc \in {"mark", "markFailed"}
  PROVE  MoveOK(d, n)
<1>1. Agrees(drive[d], stored)
  BY DEF Sound
<1>2. Agrees(n, stored)
  BY <1>1 DEF Agrees
<1> QED BY <1>2 DEF MoveOK

LEMMA ExecuteKeeps ==
  ASSUME WInv, NEW d \in Drives, Execute(d)
  PROVE  WInv' /\ JournalStep
<1> DEFINE s == drive[d]
           n == [s EXCEPT !.pc = "running", !.attempt = 1, !.aborted = FALSE]
<1>1. Fine(s) /\ s.pc = "execute" /\ Busy(s) /\ drive \in [Drives -> DriveRec]
  BY DEF WInv, Typed, Execute, Fine, Busy
<1>2. /\ n \in DriveRec /\ n.pc = "running" /\ n.snap = s.snap /\ n.captured = s.captured
      /\ n.target = s.target /\ n.fresh = s.fresh
  BY <1>1 DEF Fine, DriveRec, DrivePc
<1>3. drive' = [drive EXCEPT ![d] = n]
  BY <1>1 DEF Execute, DriveRec
<1>4. UNCHANGED <<now, stored, call, up, resumed, rollbacks, crashes, raced, faults>>
  BY DEF Execute
<1>5. executions' \in [Positions -> Nat]
  <2>1. executions' = [executions EXCEPT ![Frontier(s.snap)] = @ + 1] /\ executions \in [Positions -> Nat]
    BY DEF Execute, WInv, Typed
  <2>2. Frontier(s.snap) \in Positions
    BY <1>1 DEF Fine
  <2> QED BY <2>1, <2>2
<1> HIDE DEF n
<1>6. Fine(n)
  BY <1>1, <1>2 DEF Fine, Busy
<1>7. Sound => MoveOK(d, n)
  BY <1>1, <1>2, SameCopyOK
<1>8. n.pc \notin Compensating /\ s.pc \notin Compensating
  BY <1>1, <1>2 DEF Compensating
<1> QED BY <1>1, <1>2, <1>3, <1>4, <1>5, <1>6, <1>7, <1>8, DriveMovesKeeps

LEMMA EffectSucceedsKeeps ==
  ASSUME WInv, NEW d \in Drives, EffectSucceeds(d)
  PROVE  WInv' /\ JournalStep
<1> DEFINE s == drive[d]
           i == Frontier(s.snap)
           caught == IF Program[i].compensable THEN s.captured \cup {i} ELSE s.captured
           n == [s EXCEPT !.pc = "record", !.attempt = 0, !.out = Outcome("completed", None),
                          !.captured = caught]
<1>1. /\ Fine(s) /\ s.pc = "running" /\ Busy(s) /\ i \in Positions /\ ~Failed(s.snap, i)
      /\ s.snap \in SnapRec /\ Typed
  BY DEF WInv, Typed, EffectSucceeds, Fine, Busy
<1>2. /\ drive' = [drive EXCEPT ![d] = n]
      /\ UNCHANGED <<now, stored, call, up, resumed, rollbacks, crashes, raced, executions, faults>>
  BY DEF EffectSucceeds, wfHistory
<1>3. caught \subseteq Positions /\ caught \subseteq s.captured \cup {i}
  BY <1>1 DEF Fine, DriveRec
<1>4. Outcome("completed", None) \in OutRec
  BY DEF Outcome, OutRec
<1> HIDE DEF caught
<1>5. /\ n \in DriveRec /\ n.pc = "record" /\ n.snap = s.snap /\ n.captured = caught
      /\ n.target = s.target /\ n.fresh = s.fresh /\ n.out = Outcome("completed", None)
  BY <1>1, <1>3, <1>4 DEF Fine, DriveRec, DrivePc
<1> HIDE DEF n
<1>6. Fine(n)
  BY <1>1, <1>4, <1>5 DEF Fine, Busy
<1>7. ASSUME Sound PROVE MoveOK(d, n)
  <2>1. Agrees(s, stored)
    BY <1>1, <1>7 DEF Sound
  <2>2. s.snap.commands = stored.commands
    BY <1>1, <2>1 DEF Agrees
  <2>3. Agrees(n, stored)
    BY <1>1, <1>5, <2>1 DEF Agrees
  <2>4. ~Settled(s.snap, i)
    BY <1>1, BeforeFrontier
  <2>5. ~Completed(stored, i)
    BY <2>2, <2>4 DEF Settled, Completed
  <2> QED BY <1>1, <1>3, <1>5, <2>3, <2>5 DEF MoveOK
<1>8. n.pc \notin Compensating /\ s.pc \notin Compensating /\ executions' \in [Positions -> Nat]
  BY <1>1, <1>2, <1>5 DEF Compensating, Typed
<1> QED BY <1>1, <1>2, <1>5, <1>6, <1>7, <1>8, DriveMovesKeeps

LEMMA EffectFailsKeeps ==
  ASSUME WInv, NEW d \in Drives, EffectFails(d)
  PROVE  WInv' /\ JournalStep
<1> DEFINE s == drive[d]
           n == IF Program[Frontier(s.snap)].kind = "bridge"
                THEN [s EXCEPT !.pc = "fail", !.attempt = 0]
                ELSE IF s.attempt < MaxAttempts /\ ~s.aborted
                THEN [s EXCEPT !.attempt = s.attempt + 1]
                ELSE [s EXCEPT !.pc = "record", !.attempt = 0, !.out = Outcome("failed", None)]
<1>1. Fine(s) /\ s.pc = "running" /\ Busy(s) /\ Typed
  BY DEF WInv, Typed, EffectFails, Fine, Busy
<1>2. /\ drive' = [drive EXCEPT ![d] = n]
      /\ UNCHANGED <<now, stored, call, up, resumed, rollbacks, crashes, raced, executions, faults>>
  BY DEF EffectFails, wfHistory
<1>3. Outcome("failed", None) \in OutRec
  BY DEF Outcome, OutRec
<1>4. /\ n \in DriveRec /\ n.pc \in {"fail", "running", "record"} /\ n.snap = s.snap
      /\ n.captured = s.captured /\ n.target = s.target /\ n.fresh = s.fresh
      /\ n.pc = "record" => n.out \in OutRec
  <2>1. CASE Program[Frontier(s.snap)].kind = "bridge"
    <3>1. n = [s EXCEPT !.pc = "fail", !.attempt = 0]
      BY <2>1
    <3> HIDE DEF n
    <3> QED BY <1>1, <3>1 DEF Fine, DriveRec, DrivePc
  <2>2. CASE Program[Frontier(s.snap)].kind # "bridge" /\ s.attempt < MaxAttempts /\ ~s.aborted
    <3>1. n = [s EXCEPT !.attempt = s.attempt + 1]
      BY <2>2
    <3> HIDE DEF n
    <3> QED BY <1>1, <3>1 DEF Fine, DriveRec, DrivePc
  <2>3. CASE Program[Frontier(s.snap)].kind # "bridge" /\ ~(s.attempt < MaxAttempts /\ ~s.aborted)
    <3>1. n = [s EXCEPT !.pc = "record", !.attempt = 0, !.out = Outcome("failed", None)]
      BY <2>3
    <3> HIDE DEF n
    <3> QED BY <1>1, <1>3, <3>1 DEF Fine, DriveRec, DrivePc
  <2> QED BY <2>1, <2>2, <2>3
<1> HIDE DEF n
<1>5. Fine(n)
  BY <1>1, <1>4 DEF Fine, Busy
<1>6. Sound => MoveOK(d, n)
  BY <1>1, <1>4, SameCopyOK
<1>7. n.pc \notin Compensating /\ s.pc \notin Compensating /\ executions' \in [Positions -> Nat]
  BY <1>1, <1>2, <1>4 DEF Compensating, Typed
<1> QED BY <1>1, <1>2, <1>4, <1>5, <1>6, <1>7, DriveMovesKeeps

LEMMA SaveFailsKeeps ==
  ASSUME WInv, NEW d \in Drives, SaveFails(d)
  PROVE  WInv' /\ JournalStep
<1> DEFINE s == drive[d]
           n == CASE s.pc \in {"record", "complete"} -> [s EXCEPT !.pc = "fail", !.out = None]
                  [] s.pc = "mark" -> [s EXCEPT !.pc = "markFailed"]
                  [] OTHER -> NoDrive
<1>1. /\ Fine(s) /\ Busy(s) /\ Typed
      /\ s.pc \in {"normalize", "record", "complete", "fail", "compensate", "mark", "markFailed"}
  BY DEF WInv, Typed, SaveFails, Fine, Busy
<1>2. /\ drive' = [drive EXCEPT ![d] = n] /\ faults' = faults + 1
      /\ UNCHANGED <<now, stored, call, up, resumed, rollbacks, crashes, raced, executions>>
  BY DEF SaveFails
<1>3. CASE s.pc \in {"record", "complete"}
  <2>1. n = [s EXCEPT !.pc = "fail", !.out = None]
    BY <1>3
  <2> HIDE DEF n
  <2>2. /\ n \in DriveRec /\ n.pc = "fail" /\ n.snap = s.snap
        /\ n.captured = s.captured /\ n.target = s.target /\ n.fresh = s.fresh
    BY <1>1, <2>1 DEF Fine, DriveRec, DrivePc
  <2>3. Fine(n)
    BY <1>1, <2>2 DEF Fine, Busy
  <2>4. Sound => MoveOK(d, n)
    BY <1>1, <1>3, <2>2, SameCopyOK
  <2> QED BY <1>1, <1>2, <2>2, <2>3, <2>4, DriveMovesKeeps DEF Typed
<1>4. CASE s.pc = "mark"
  <2>1. n = [s EXCEPT !.pc = "markFailed"]
    BY <1>4
  <2> HIDE DEF n
  <2>2. /\ n \in DriveRec /\ n.pc = "markFailed" /\ n.snap = s.snap
        /\ n.captured = s.captured /\ n.target = s.target /\ n.fresh = s.fresh
    BY <1>1, <2>1 DEF Fine, DriveRec, DrivePc, Compensating
  <2>3. Fine(n)
    BY <1>1, <2>2 DEF Fine, Busy
  <2>4. Sound => MoveOK(d, n)
    BY <1>1, <1>4, <2>2, SameCopyOK
  <2> QED BY <1>1, <1>2, <2>2, <2>3, <2>4, DriveMovesKeeps DEF Typed
<1>5. CASE s.pc \notin {"record", "complete", "mark"}
  <2>1. n = NoDrive
    BY <1>5
  <2>2. Fine(NoDrive) /\ ~Busy(NoDrive) /\ NoDrive.pc # "load"
    BY NewDriveFine DEF NoDrive
  <2>3. MoveOK(d, NoDrive)
    BY <2>2 DEF MoveOK
  <2> QED BY <1>1, <1>2, <2>1, <2>2, <2>3, DriveMovesKeeps DEF Typed
<1> QED BY <1>3, <1>4, <1>5

LEMMA RollbackKeeps ==
  ASSUME WInv, NEW d \in Drives, Rollback(d)
  PROVE  WInv' /\ JournalStep
<1> DEFINE s == drive[d]
           t == s.target
           cmds == s.snap.commands
           new == Marked(cmds, t)
           n(pc) == [s EXCEPT !.pc = pc, !.snap.commands[s.target].compensated = TRUE]
<1>1. /\ Fine(s) /\ s.pc = "rollback" /\ Busy(s) /\ s.snap \in SnapRec /\ s.snap.status \notin TERMINAL
      /\ t \in Targets(s) /\ (\A x \in Targets(s) : x <= t)
      /\ Typed /\ Quiet /\ up /\ stored \in SnapRec /\ stored # None
  BY Awake, SnapIsNotNone DEF WInv, Typed, Rollback, Fine, Busy
<1>2. /\ rollbacks' = Append(rollbacks, t)
      /\ UNCHANGED <<now, stored, call, up, resumed, executions, crashes, faults, raced>>
  BY DEF Rollback
<1>3. PICK pc \in {"mark", "markFailed"} : drive' = [drive EXCEPT ![d] = n(pc)]
  BY DEF Rollback
<1>4. cmds \in Seq(CmdRec) /\ Len(cmds) \in Nat
  BY <1>1 DEF SnapRec
<1>5. /\ t \in 1..Len(cmds) /\ t \in Positions /\ t \in s.captured
      /\ cmds[t].status = "completed" /\ ~cmds[t].compensated
  BY <1>1, <1>4, ProgramLength DEF Targets, Completed, Fine, DriveRec
<1> DEFINE m == n(pc)
<1>6. m = [s EXCEPT !.pc = pc, !.snap = [s.snap EXCEPT !.commands = new]]
  BY <1>1 DEF Fine, DriveRec, SnapRec, Marked
<1> HIDE DEF m
<1>7. /\ new \in Seq(CmdRec) /\ Len(new) = Len(cmds) /\ new[t].compensated = TRUE
      /\ \A k \in 1..Len(cmds) : new[k].status = cmds[k].status /\ (k # t => new[k] = cmds[k])
  <2> HIDE DEF cmds, t
  <2> QED BY <1>4, <1>5, MarkedJournal
<1> HIDE DEF new
<1>8. /\ m \in DriveRec /\ m.pc = pc /\ m.snap \in SnapRec /\ m.snap.commands = new
      /\ m.snap.status = s.snap.status /\ m.captured = s.captured /\ m.target = t /\ m.fresh = s.fresh
  <2> DEFINE sn == [s.snap EXCEPT !.commands = new]
  <2>1. sn \in SnapRec /\ sn.commands = new /\ sn.status = s.snap.status
    BY <1>1, <1>7 DEF SnapRec
  <2> HIDE DEF sn
  <2> QED BY <1>1, <1>3, <1>6, <2>1 DEF Fine, DriveRec, DrivePc, Compensating, sn
<1>9. Fine(m)
  BY <1>1, <1>3, <1>8 DEF Fine
<1>10. drive \in [Drives -> DriveRec] /\ \A e \in Drives : Fine(drive[e])
  BY <1>1 DEF Typed
<1>11. /\ drive' \in [Drives -> DriveRec] /\ \A e \in Drives : Fine(drive'[e])
       /\ drive'[d] = m /\ \A e \in Drives : e # d => drive'[e] = drive[e]
  BY <1>3, <1>8, <1>9, <1>10 DEF m
<1>12. /\ rollbacks \in Seq(Positions) /\ Len(rollbacks) \in Nat
       /\ \A k \in 1..Len(rollbacks) : rollbacks[k] \in Positions
  BY <1>1 DEF Typed
<1>13. /\ rollbacks' \in Seq(Positions) /\ Len(rollbacks') = Len(rollbacks) + 1
       /\ rollbacks'[Len(rollbacks) + 1] = t
       /\ \A k \in 1..Len(rollbacks) : rollbacks'[k] = rollbacks[k]
  BY <1>2, <1>5, <1>12, AppendProperties
<1>14. Typed'
  BY <1>1, <1>2, <1>11, <1>13 DEF Typed
<1>15. Quiet' /\ JournalStep
  BY <1>1, <1>2, GrowsFromItself DEF Quiet, JournalStep
<1>16. ASSUME ~raced' PROVE Sound'
  <2>1. Sound /\ Agrees(s, stored) /\ s.snap.commands = stored.commands
    BY <1>1, <1>2, <1>16 DEF WInv, Sound, Agrees
  <2>2. \A e \in Drives : e # d => drive[e].pc = "idle" /\ drive'[e].pc = "idle"
    BY <1>1, <1>11, <2>1 DEF Sound, Active
  <2>3. \A a, b \in Active' : a = b
    BY <2>2 DEF Active
  <2>4. ASSUME NEW e \in Drives, Busy(drive'[e]) PROVE Agrees(drive'[e], stored')
    <3>1. e = d /\ drive'[e] = m
      BY <1>11, <2>2, <2>4 DEF Busy
    <3>2. s.fresh => stored.status \notin TERMINAL
      BY <2>1 DEF Agrees
    <3>3. m.snap.commands = Marked(stored.commands, m.target)
      BY <1>8, <2>1 DEF new
    <3>4. m.target \in 1..Len(stored.commands) /\ stored.commands[m.target].status = "completed"
      BY <1>5, <1>8, <2>1
    <3> QED BY <1>2, <1>3, <1>8, <3>1, <3>2, <3>3, <3>4 DEF Agrees
  <2>5. \A c \in Callers : CallOK(c)'
    BY <1>2, <2>1 DEF Sound, CallOK
  <2>6. \A k \in 1..Len(rollbacks) : rollbacks[k] # t
    BY <1>1, <1>5, <2>1 DEF Sound, RolledBack
  <2>7. ASSUME NEW k \in 1..Len(rollbacks') PROVE RolledBack(rollbacks[k])'
    <3> DEFINE r == rollbacks'[k]
    <3>1. k \in 1..Len(rollbacks) \/ k = Len(rollbacks) + 1
      BY <1>12, <1>13
    <3>2. CASE k = Len(rollbacks) + 1
      <4>1. r = t
        BY <1>13, <3>2
      <4> HIDE DEF r
      <4>2. Completed(stored, r) /\ m.snap.commands[r].compensated
        BY <1>4, <1>5, <1>7, <1>8, <2>1, <4>1 DEF Completed
      <4> QED BY <1>2, <1>11, <2>2, <4>2 DEF RolledBack, Busy, r
    <3>3. CASE k \in 1..Len(rollbacks)
      <4>1. r = rollbacks[k] /\ r # t /\ RolledBack(r) /\ r \in Positions
        BY <1>12, <1>13, <2>1, <2>6, <3>3 DEF Sound
      <4> HIDE DEF r
      <4>2. Completed(stored, r) /\ r \in 1..Len(cmds)
        BY <1>4, <2>1, <4>1, ProgramLength DEF RolledBack, Completed
      <4>3. r \in m.captured => m.snap.commands[r].compensated
        BY <1>1, <1>7, <1>8, <4>1, <4>2 DEF RolledBack
      <4> QED BY <1>2, <1>11, <2>2, <4>2, <4>3 DEF RolledBack, Busy, r
    <3> QED BY <3>1, <3>2, <3>3
  <2>8. \A i, k \in 1..Len(rollbacks') : i < k => rollbacks'[i] # rollbacks'[k]
    <3> SUFFICES ASSUME NEW i \in 1..Len(rollbacks'), NEW k \in 1..Len(rollbacks'), i < k
                 PROVE  rollbacks'[i] # rollbacks'[k]
      OBVIOUS
    <3>1. i \in 1..Len(rollbacks) /\ (k \in 1..Len(rollbacks) \/ k = Len(rollbacks) + 1)
      BY <1>12, <1>13
    <3> QED BY <1>13, <2>1, <2>6, <3>1 DEF Sound
  <2>9. ASSUME Uninterrupted' PROVE OrderOK'
    <3>1. OrderOK
      BY <1>2, <2>1, <2>9 DEF Sound, Uninterrupted
    <3>2. stored.status \notin {"completed", "compensated"}
      BY <1>1, <3>1 DEF OrderOK, Compensating
    <3>3. \A i \in 1..Len(rollbacks) : rollbacks[i] > t
      <4> SUFFICES ASSUME NEW i \in 1..Len(rollbacks) PROVE rollbacks[i] > t
        OBVIOUS
      <4>1. rollbacks # <<>> /\ Len(rollbacks) >= 1 /\ Len(rollbacks) \in 1..Len(rollbacks)
        BY <1>12
      <4>2. RollsBack(d)
        BY <2>2, <3>1, <3>2, <4>1 DEF OrderOK, RollsBack, Compensating
      <4>3. t < rollbacks[Len(rollbacks)]
        BY <1>1, <4>2 DEF RollsBack
      <4>4. i < Len(rollbacks) => rollbacks[i] > rollbacks[Len(rollbacks)]
        BY <3>1, <4>1 DEF OrderOK
      <4>5. rollbacks[i] \in Nat /\ rollbacks[Len(rollbacks)] \in Nat /\ t \in Nat
        BY <1>5, <1>12, <4>1, ProgramLength
      <4> QED BY <1>12, <4>3, <4>4, <4>5
    <3>4. ASSUME NEW i \in 1..Len(rollbacks'), NEW k \in 1..Len(rollbacks'), i < k
          PROVE  rollbacks'[i] > rollbacks'[k]
      <4>1. i \in 1..Len(rollbacks) /\ (k \in 1..Len(rollbacks) \/ k = Len(rollbacks) + 1)
        BY <1>12, <1>13, <3>4
      <4>2. CASE k = Len(rollbacks) + 1
        BY <1>13, <3>3, <4>1, <4>2
      <4>3. CASE k \in 1..Len(rollbacks)
        BY <1>13, <3>1, <3>4, <4>1, <4>3 DEF OrderOK
      <4> QED BY <4>1, <4>2, <4>3
    <3>5. RollsBack(d)'
      <4>1. m.pc \in Compensating
        BY <1>3, <1>8 DEF Compensating
      <4>2. ASSUME NEW x \in Targets(m) PROVE x < t
        <5>1. x \in s.captured /\ x \in Positions /\ x \in 1..Len(cmds)
          BY <1>1, <1>7, <1>8, <4>2, <1>4, ProgramLength DEF Targets, Completed, Fine, DriveRec
        <5>2. new[x].status = "completed" /\ ~new[x].compensated
          BY <1>8, <4>2 DEF Targets, Completed
        <5>3. x # t /\ new[x] = cmds[x]
          BY <1>7, <5>1, <5>2
        <5>4. x \in Targets(s)
          BY <5>1, <5>2, <5>3, <1>4 DEF Targets, Completed
        <5> QED BY <1>1, <1>5, <5>1, <5>3, <5>4, ProgramLength
      <4>3. rollbacks'[Len(rollbacks')] = t
        BY <1>13
      <4> QED BY <1>11, <4>1, <4>2, <4>3 DEF RollsBack
    <3> QED BY <1>2, <3>2, <3>4, <3>5 DEF OrderOK
  <2>10. stored' # None /\ JournalOK(stored'.commands)
    BY <1>1, <1>2, <2>1 DEF Sound
  <2> QED BY <2>3, <2>4, <2>5, <2>7, <2>8, <2>9, <2>10 DEF Sound
<1> QED BY <1>14, <1>15, <1>16 DEF WInv

----------------------------------------------------------------------------
(* The calls, and the steps that start and end drives.                     *)

(* The drives stay as they are, but for their flags.                       *)
Kept ==
  \A e \in Drives : /\ drive'[e].pc = drive[e].pc /\ drive'[e].snap = drive[e].snap
                    /\ drive'[e].captured = drive[e].captured /\ drive'[e].target = drive[e].target

LEMMA KeptSound ==
  ASSUME Sound, stored # None, stored' # None, stored'.commands = stored.commands, Kept,
         UNCHANGED <<rollbacks, crashes, faults>>,
         \A e \in Drives : Busy(drive[e]) /\ drive'[e].fresh => stored'.status \notin TERMINAL,
         \/ stored'.status = stored.status
         \/ stored.status \notin TERMINAL /\ stored'.status \notin {"completed", "compensated"},
         \A c \in Callers : CallOK(c)'
  PROVE  Sound'
<1>1. \A a, b \in Active' : a = b
  BY DEF Sound, Active, Kept
<1>2. JournalOK(stored'.commands)
  BY DEF Sound
<1>3. ASSUME NEW e \in Drives, Busy(drive'[e]) PROVE Agrees(drive'[e], stored')
  <2>1. Busy(drive[e]) /\ Agrees(drive[e], stored)
    BY <1>3 DEF Sound, Busy, Kept
  <2> QED BY <2>1 DEF Agrees, Kept
<1>4. ASSUME NEW k \in 1..Len(rollbacks) PROVE RolledBack(rollbacks[k])'
  <2>1. RolledBack(rollbacks[k])
    BY DEF Sound
  <2> QED BY <2>1 DEF RolledBack, Completed, Kept, Busy
<1>5. ASSUME Uninterrupted' PROVE OrderOK'
  <2>1. OrderOK
    BY <1>5 DEF Sound, Uninterrupted
  <2>2. \A e \in Drives : Targets(drive'[e]) = Targets(drive[e])
    BY DEF Targets, Kept
  <2>3. \A e \in Drives : RollsBack(e) => RollsBack(e)'
    BY <2>2 DEF RollsBack, Kept
  <2>4. rollbacks # <<>> => stored'.status = "compensated" \/ \E e \in Drives : RollsBack(e)'
    BY <2>1, <2>3 DEF OrderOK, TERMINAL
  <2>5. \A e \in Drives : drive'[e].pc \in Compensating => stored'.status \notin {"completed", "compensated"}
    BY <2>1 DEF OrderOK, Kept
  <2> QED BY <2>1, <2>4, <2>5 DEF OrderOK
<1> QED BY <1>1, <1>2, <1>3, <1>4, <1>5 DEF Sound

LEMMA StartedSound ==
  ASSUME Sound, Active = {}, stored # None, stored' # None, stored.status \notin TERMINAL,
         stored'.commands = stored.commands, UNCHANGED <<rollbacks, crashes, faults>>,
         NEW f \in Drives, drive'[f].pc = "load",
         \A e \in Drives : e # f => drive'[e].pc = "idle",
         \A c \in Callers : CallOK(c)'
  PROVE  Sound'
<1>1. (\A a, b \in Active' : a = b) /\ \A e \in Drives : ~Busy(drive'[e])
  BY DEF Active, Busy
<1>2. JournalOK(stored'.commands)
  BY DEF Sound
<1>3. ASSUME NEW k \in 1..Len(rollbacks) PROVE RolledBack(rollbacks[k])'
  <2>1. Completed(stored, rollbacks[k])
    BY DEF Sound, RolledBack
  <2> QED BY <1>1, <2>1 DEF RolledBack, Completed
<1>4. ASSUME Uninterrupted' PROVE OrderOK'
  <2>1. OrderOK
    BY <1>4 DEF Sound, Uninterrupted
  <2>2. rollbacks = <<>>
    BY <2>1 DEF OrderOK, TERMINAL, RollsBack, Active, Compensating
  <2> QED BY <1>1, <2>1, <2>2 DEF OrderOK, Busy, Compensating
<1> QED BY <1>1, <1>2, <1>3, <1>4 DEF Sound

LEMMA FreeSlotIsFree ==
  ASSUME Active # Drives
  PROVE  FreeSlot \in Drives /\ drive[FreeSlot].pc = "idle"
<1>1. \E d \in Drives : d \notin Active
  BY DEF Active
<1>2. FreeSlot \in Drives /\ FreeSlot \notin Active
  BY <1>1 DEF FreeSlot
<1> QED BY <1>2 DEF Active

LEMMA StartedTyped ==
  ASSUME NEW ds \in [Drives -> DriveRec], \A e \in Drives : Fine(ds[e]) /\ ds[e].pc = drive[e].pc,
         StartDrive(ds)
  PROVE  /\ drive' \in [Drives -> DriveRec] /\ \A e \in Drives : Fine(drive'[e])
         /\ FreeSlot \in Drives /\ drive'[FreeSlot].pc = "load"
         /\ Active = {} => \A e \in Drives : e # FreeSlot => drive'[e].pc = "idle"
<1> DEFINE n == [NoDrive EXCEPT !.pc = "load"]
<1>1. FreeSlot \in Drives /\ drive' = [ds EXCEPT ![FreeSlot] = n]
  BY FreeSlotIsFree DEF StartDrive
<1>2. Fine(n) /\ n.pc = "load"
  BY NewDriveFine DEF NoDrive
<1> HIDE DEF n
<1>3. /\ drive' \in [Drives -> DriveRec] /\ \A e \in Drives : Fine(drive'[e])
      /\ drive'[FreeSlot] = n /\ \A e \in Drives : e # FreeSlot => drive'[e] = ds[e]
  BY <1>1, <1>2 DEF Fine
<1> QED BY <1>1, <1>2, <1>3 DEF Active

LEMMA CallLoadKeeps ==
  ASSUME WInv, NEW c \in Callers, NEW op \in {"cancel", "pause", "signal"},
         NEW name \in Names \cup {None}, op = "signal" => name \in Names, CallLoad(c, op, name)
  PROVE  WInv' /\ JournalStep
<1> DEFINE k == [pc |-> "write", op |-> op, name |-> name, snap |-> stored, fresh |-> TRUE]
<1>1. /\ Typed /\ Quiet /\ up /\ stored \in SnapRec /\ stored # None
      /\ stored.status \notin TERMINAL
      /\ call' = [call EXCEPT ![c] = k]
      /\ drive' = IF op = "cancel" THEN Aborted(drive) ELSE drive
      /\ UNCHANGED <<now, stored, up, resumed, executions, rollbacks, crashes, faults, raced>>
  BY DEF WInv, Typed, CallLoad, TERMINAL, wfHistory
<1>2. FineCall(k) /\ k.snap = stored
  BY <1>1 DEF FineCall, CallRec
<1> HIDE DEF k
<1>3. /\ call' \in [Callers -> CallRec] /\ \A x \in Callers : FineCall(call'[x])
      /\ call'[c] = k /\ \A x \in Callers : x # c => call'[x] = call[x]
  BY <1>1, <1>2 DEF Typed, FineCall
<1>4. ASSUME NEW e \in Drives
      PROVE  /\ Fine(Aborted(drive)[e]) /\ Aborted(drive)[e] \in DriveRec
             /\ Aborted(drive)[e].pc = drive[e].pc /\ Aborted(drive)[e].snap = drive[e].snap
             /\ Aborted(drive)[e].captured = drive[e].captured
             /\ Aborted(drive)[e].target = drive[e].target
             /\ Aborted(drive)[e].fresh = drive[e].fresh
  <2>1. Fine(drive[e]) /\ drive[e] \in DriveRec /\ (drive[e].pc = "running") \in BOOLEAN
    BY <1>1 DEF Typed
  <2>2. Aborted(drive)[e] = [drive[e] EXCEPT !.aborted = (drive[e].pc = "running")]
    BY DEF Aborted
  <2>3. Fine(Aborted(drive)[e])
    BY <2>1, <2>2, FlagsDoNotMatter, ZenonT(30)
  <2> QED BY <2>1, <2>2, <2>3 DEF DriveRec
<1>5. /\ drive' \in [Drives -> DriveRec] /\ \A e \in Drives : Fine(drive'[e]) /\ drive'[e].fresh = drive[e].fresh
      /\ Kept
  <2>1. CASE op = "cancel"
    <3>1. drive' = Aborted(drive) /\ Aborted(drive) = [d \in Drives |-> Aborted(drive)[d]]
      BY <1>1, <2>1 DEF Aborted
    <3> QED BY <1>4, <3>1 DEF Kept
  <2>2. CASE op # "cancel"
    BY <1>1, <2>2 DEF Typed, Kept
  <2> QED BY <2>1, <2>2
<1>6. Typed'
  BY <1>1, <1>3, <1>5 DEF Typed
<1>7. Quiet' /\ JournalStep
  BY <1>1, GrowsFromItself DEF Quiet, JournalStep
<1>8. ASSUME ~raced' PROVE Sound'
  <2>1. Sound
    BY <1>1, <1>8 DEF WInv
  <2>2. \A x \in Callers : CallOK(x)'
    <3> TAKE x \in Callers
    <3>1. CASE x = c
      BY <1>1, <1>2, <1>3, <3>1 DEF CallOK
    <3>2. CASE x # c
      BY <1>1, <1>3, <2>1, <3>2 DEF Sound, CallOK
    <3> QED BY <3>1, <3>2
  <2> QED BY <1>1, <1>5, <2>1, <2>2, KeptSound
<1> QED BY <1>6, <1>7, <1>8 DEF WInv

(* A call puts its snapshot over the stored one and is over.               *)
LEMMA CallWriteTyped ==
  ASSUME Typed, NEW c \in Callers, call' = [StaleCalls(call) EXCEPT ![c] = NoCall]
  PROVE  /\ call' \in [Callers -> CallRec] /\ \A x \in Callers : FineCall(call'[x])
         /\ \A x \in Callers : CallOK(x)'
<1>1. FineCall(NoCall) /\ NoCall.pc = "idle"
  BY DEF FineCall, NoCall, CallRec
<1>2. /\ call' \in [Callers -> CallRec] /\ (\A x \in Callers : FineCall(call'[x]))
      /\ call'[c] = NoCall /\ \A x \in Callers : x # c => call'[x] = StaleCalls(call)[x]
  <2>1. StaleCalls(call) \in [Callers -> CallRec] /\ \A x \in Callers : FineCall(StaleCalls(call)[x])
    BY StaleTyped
  <2> QED BY <1>1, <2>1 DEF FineCall
<1>3. ASSUME NEW x \in Callers, x # c, call'[x].pc = "write" PROVE ~call'[x].fresh
  <2>1. call[x] \in CallRec
    BY DEF Typed
  <2>2. call'[x] = [call[x] EXCEPT !.fresh = (call[x].pc = "idle")]
    BY <1>2, <1>3 DEF StaleCalls
  <2>3. call'[x].pc = call[x].pc /\ call'[x].fresh = (call[x].pc = "idle")
    BY <2>1, <2>2, ZenonT(30) DEF CallRec
  <2> QED BY <1>3, <2>3
<1>4. \A x \in Callers : CallOK(x)'
  BY <1>1, <1>2, <1>3 DEF CallOK
<1> QED BY <1>2, <1>4

LEMMA StaleKept ==
  ASSUME Typed, NEW e \in Drives
  PROVE  /\ StaleDrives(drive)[e].pc = drive[e].pc /\ StaleDrives(drive)[e].snap = drive[e].snap
         /\ StaleDrives(drive)[e].captured = drive[e].captured
         /\ StaleDrives(drive)[e].target = drive[e].target
         /\ Busy(drive[e]) => ~StaleDrives(drive)[e].fresh
<1>1. drive[e] \in DriveRec
  BY DEF Typed
<1>2. StaleDrives(drive)[e] = [drive[e] EXCEPT !.fresh = (drive[e].pc = "idle")]
  BY DEF StaleDrives
<1> QED BY <1>1, <1>2 DEF DriveRec, Busy

LEMMA TransitionWriteKeeps ==
  ASSUME WInv, NEW c \in Callers, NEW op, NEW status \in {"cancelled", "paused"},
         TransitionWrite(c, op, status)
  PROVE  WInv' /\ JournalStep
<1> DEFINE snap == [call[c].snap EXCEPT !.status = status]
<1>1. /\ Typed /\ Quiet /\ call[c].pc = "write" /\ call[c] \in CallRec /\ call[c].snap \in SnapRec
      /\ up /\ stored \in SnapRec /\ stored # None
  BY Awake, SnapIsNotNone DEF WInv, Typed, TransitionWrite, FineCall
<1>2. /\ stored' = snap /\ raced' = (raced \/ ~call[c].fresh)
      /\ call' = [StaleCalls(call) EXCEPT ![c] = NoCall] /\ drive' = StaleDrives(drive)
      /\ UNCHANGED <<now, up, resumed, executions, rollbacks, crashes, faults>>
  BY DEF TransitionWrite, Save, wfHistory
<1>3. snap \in SnapRec /\ snap.status = status /\ snap.commands = call[c].snap.commands
  BY <1>1 DEF SnapRec, Statuses, TERMINAL
<1> HIDE DEF snap
<1>4. /\ call' \in [Callers -> CallRec] /\ \A x \in Callers : FineCall(call'[x])
      /\ \A x \in Callers : CallOK(x)'
  BY <1>1, <1>2, CallWriteTyped
<1>5. /\ drive' \in [Drives -> DriveRec] /\ (\A e \in Drives : Fine(drive'[e])) /\ Kept
      /\ \A e \in Drives : Busy(drive[e]) => ~drive'[e].fresh
  BY <1>1, <1>2, StaleTyped, StaleKept DEF Kept
<1>6. raced' \in BOOLEAN
  BY <1>1, <1>2 DEF Typed, CallRec
<1>7. Typed'
  BY <1>1, <1>2, <1>3, <1>4, <1>5, <1>6 DEF Typed
<1>8. Quiet'
  BY <1>1, <1>2, <1>3, SnapIsNotNone DEF Quiet
<1>9. ASSUME ~raced' PROVE Sound' /\ JournalStep
  <2>1. Sound /\ call[c].snap = stored /\ stored.status \notin TERMINAL
    BY <1>1, <1>2, <1>9 DEF WInv, Sound, CallOK
  <2>2. stored' # None /\ stored'.commands = stored.commands /\ stored'.status = status
    BY <1>2, <1>3, <2>1, SnapIsNotNone
  <2>3. Sound'
    BY <1>1, <1>2, <1>4, <1>5, <2>1, <2>2, KeptSound
  <2>4. JournalStep
    BY <1>1, <2>1, <2>2, GrowsFromItself DEF JournalStep
  <2> QED BY <2>3, <2>4
<1>10. JournalStep
  BY <1>9 DEF JournalStep
<1> QED BY <1>7, <1>8, <1>9, <1>10 DEF WInv

LEMMA SignalWriteKeeps ==
  ASSUME WInv, NEW c \in Callers, SignalWrite(c)
  PROVE  WInv' /\ JournalStep
<1> DEFINE snap == [call[c].snap EXCEPT !.signals = Append(@, call[c].name)]
           wait == Len(snap.commands)
           resumes == AwaitsIn(snap, call[c].name) /\ wait \notin resumed
<1>1. /\ Typed /\ Quiet /\ call[c].pc = "write" /\ call[c] \in CallRec /\ call[c].snap \in SnapRec
      /\ call[c].name \in Names /\ up /\ stored \in SnapRec /\ stored # None
  BY Awake, SnapIsNotNone DEF WInv, Typed, SignalWrite, FineCall
<1>2. /\ stored' = snap /\ raced' = (raced \/ ~call[c].fresh \/ (resumes /\ Overlaps))
      /\ call' = [StaleCalls(call) EXCEPT ![c] = NoCall]
      /\ IF resumes THEN StartDrive(StaleDrives(drive)) /\ resumed' = resumed \cup {wait}
         ELSE drive' = StaleDrives(drive) /\ resumed' = resumed
      /\ UNCHANGED <<now, up, executions, rollbacks, crashes, faults>>
  BY DEF SignalWrite, wfHistory
<1>3. /\ snap \in SnapRec /\ snap.commands = call[c].snap.commands
      /\ snap.status = call[c].snap.status
  <2>1. Append(call[c].snap.signals, call[c].name) \in Seq(Names)
    BY <1>1 DEF SnapRec
  <2> QED BY <1>1, <2>1 DEF SnapRec
<1>4. wait \in Nat /\ resumes \in BOOLEAN
  BY <1>3 DEF SnapRec, AwaitsIn
<1>5. AwaitsIn(snap, call[c].name) => snap.status \notin TERMINAL
  BY DEF AwaitsIn, TERMINAL
<1> HIDE DEF snap, wait
<1>6. /\ call' \in [Callers -> CallRec] /\ \A x \in Callers : FineCall(call'[x])
      /\ \A x \in Callers : CallOK(x)'
  BY <1>1, <1>2, CallWriteTyped
<1>7. /\ StaleDrives(drive) \in [Drives -> DriveRec]
      /\ \A e \in Drives : Fine(StaleDrives(drive)[e]) /\ StaleDrives(drive)[e].pc = drive[e].pc
  BY <1>1, StaleTyped, StaleKept
<1>8. /\ resumes => /\ drive' \in [Drives -> DriveRec] /\ \A e \in Drives : Fine(drive'[e])
                    /\ FreeSlot \in Drives /\ drive'[FreeSlot].pc = "load"
                    /\ Active = {} => \A e \in Drives : e # FreeSlot => drive'[e].pc = "idle"
      /\ ~resumes => /\ drive' \in [Drives -> DriveRec] /\ (\A e \in Drives : Fine(drive'[e]))
                     /\ Kept /\ \A e \in Drives : Busy(drive[e]) => ~drive'[e].fresh
  <2>1. CASE resumes
    <3>1. StartDrive(StaleDrives(drive))
      BY <1>2, <2>1
    <3> QED BY <1>7, <2>1, <3>1, StartedTyped
  <2>2. CASE ~resumes
    <3>1. drive' = StaleDrives(drive)
      BY <1>2, <2>2
    <3> QED BY <1>1, <1>7, <2>2, <3>1, StaleKept DEF Kept
  <2> QED BY <2>1, <2>2
<1> HIDE DEF resumes
<1>9. Overlaps \in BOOLEAN /\ call[c].fresh \in BOOLEAN
  BY <1>1 DEF Overlaps, CallRec
<1>10. raced' \in BOOLEAN /\ resumed' \subseteq Nat
  BY <1>1, <1>2, <1>4, <1>9 DEF Typed
<1>11. Typed'
  BY <1>1, <1>2, <1>3, <1>6, <1>8, <1>10 DEF Typed
<1>12. Quiet'
  BY <1>1, <1>2, <1>3, SnapIsNotNone DEF Quiet
<1>13. ASSUME ~raced' PROVE Sound' /\ JournalStep
  <2>1. /\ Sound /\ call[c].snap = stored /\ stored.status \notin TERMINAL
        /\ resumes => Active = {}
    BY <1>1, <1>2, <1>13 DEF WInv, Sound, CallOK, Overlaps
  <2>2. stored' # None /\ stored'.commands = stored.commands /\ stored'.status = stored.status
    BY <1>2, <1>3, <2>1, SnapIsNotNone
  <2>3. ASSUME resumes PROVE Sound'
    BY <1>1, <1>2, <1>6, <1>8, <2>1, <2>2, <2>3, StartedSound
  <2>4. ASSUME ~resumes PROVE Sound'
    BY <1>1, <1>2, <1>6, <1>8, <2>1, <2>2, <2>4, KeptSound
  <2>5. JournalStep
    BY <1>1, <2>1, <2>2, GrowsFromItself DEF JournalStep
  <2> QED BY <1>4, <2>3, <2>4, <2>5
<1>14. JournalStep
  BY <1>13 DEF JournalStep
<1> QED BY <1>11, <1>12, <1>13, <1>14 DEF WInv

LEMMA RunKeeps ==
  ASSUME WInv, Run
  PROVE  WInv' /\ JournalStep
<1> DEFINE initial == [status |-> "running", commands |-> <<>>, signals |-> <<>>]
           t == [NoDrive EXCEPT !.snap = initial]
           n == Advance(t)
<1>1. /\ Typed /\ Quiet /\ up /\ stored = None /\ now \in Nat
      /\ stored' = initial /\ raced' = (raced \/ ~TRUE)
      /\ drive' = [drive EXCEPT ![FreeSlot] = n]
      /\ UNCHANGED <<now, call, up, resumed, executions, rollbacks, crashes, faults>>
  BY DEF WInv, Typed, Run, Save, wfHistory
<1>2. initial \in SnapRec /\ initial.commands = <<>> /\ initial.status = "running"
  BY DEF SnapRec, Statuses
<1>3. (\A d \in Drives : drive[d].pc = "idle") /\ \A c \in Callers : call[c].pc = "idle"
  BY <1>1 DEF Quiet
<1>4. FreeSlot \in Drives
  <2>1. Active # Drives
    BY <1>3, WorkflowAssumption DEF Active
  <2> QED BY <2>1, FreeSlotIsFree
<1> HIDE DEF initial
<1>5. t \in DriveRec /\ t.snap = initial /\ t.captured = {}
  BY <1>2 DEF NoDrive, DriveRec, DrivePc
<1> HIDE DEF t
<1>6. /\ Fine(n) /\ n.snap = initial /\ n.captured = {}
      /\ n.pc \in {"complete", "fail", "execute", "record"}
  BY <1>1, <1>2, <1>5, AdvanceFine DEF SameBut, TERMINAL
<1> HIDE DEF n
<1>7. /\ drive' \in [Drives -> DriveRec] /\ (\A e \in Drives : Fine(drive'[e]))
      /\ drive'[FreeSlot] = n /\ \A e \in Drives : e # FreeSlot => drive'[e].pc = "idle"
  BY <1>1, <1>3, <1>4, <1>6 DEF Typed, Fine
<1>8. raced' = raced
  BY <1>1 DEF Typed
<1>9. Typed'
  BY <1>1, <1>2, <1>7, <1>8 DEF Typed
<1>10. stored' # None
  BY <1>1, <1>2, SnapIsNotNone
<1>11. Quiet' /\ JournalStep
  BY <1>1, <1>10 DEF Quiet, JournalStep
<1>12. ASSUME ~raced' PROVE Sound'
  <2>1. rollbacks = <<>>
    BY <1>1, <1>8, <1>12 DEF WInv, Sound
  <2>2. \A a, b \in Active' : a = b
    BY <1>7 DEF Active
  <2>3. JournalOK(stored'.commands)
    BY <1>1, <1>2, ProgramLength DEF JournalOK
  <2>4. \A e \in Drives : Busy(drive'[e]) => Agrees(drive'[e], stored')
    <3>1. Agrees(n, initial)
      BY <1>2, <1>6 DEF Agrees, TERMINAL
    <3> QED BY <1>1, <1>7, <3>1 DEF Busy
  <2>5. \A c \in Callers : CallOK(c)'
    BY <1>1, <1>3 DEF CallOK
  <2>6. OrderOK'
    BY <1>1, <1>6, <1>7, <2>1 DEF OrderOK, Compensating
  <2> QED BY <1>1, <1>10, <2>1, <2>2, <2>3, <2>4, <2>5, <2>6 DEF Sound
<1> QED BY <1>9, <1>11, <1>12 DEF WInv

LEMMA ResumeKeeps ==
  ASSUME WInv, Resume
  PROVE  WInv' /\ JournalStep
<1>1. /\ Typed /\ up /\ stored # None /\ stored.status \notin TERMINAL /\ StartDrive(drive)
      /\ raced' = (raced \/ Overlaps)
      /\ UNCHANGED <<now, stored, call, up, resumed, executions, rollbacks, crashes, faults>>
  BY DEF WInv, Resume, wfHistory
<1>2. drive \in [Drives -> DriveRec] /\ \A e \in Drives : Fine(drive[e]) /\ drive[e].pc = drive[e].pc
  BY <1>1 DEF Typed
<1>3. /\ drive' \in [Drives -> DriveRec] /\ (\A e \in Drives : Fine(drive'[e]))
      /\ FreeSlot \in Drives /\ drive'[FreeSlot].pc = "load"
      /\ Active = {} => \A e \in Drives : e # FreeSlot => drive'[e].pc = "idle"
  BY <1>1, <1>2, StartedTyped
<1>4. raced' \in BOOLEAN
  BY <1>1 DEF Typed, Overlaps
<1>5. Typed'
  BY <1>1, <1>3, <1>4 DEF Typed
<1>6. Quiet' /\ JournalStep
  BY <1>1, GrowsFromItself DEF Quiet, JournalStep
<1>7. ASSUME ~raced' PROVE Sound'
  <2>1. Sound /\ Active = {}
    BY <1>1, <1>7 DEF WInv, Overlaps
  <2>2. \A c \in Callers : CallOK(c)'
    BY <1>1, <2>1 DEF Sound, CallOK
  <2> QED BY <1>1, <1>3, <2>1, <2>2, StartedSound
<1> QED BY <1>5, <1>6, <1>7 DEF WInv

LEMMA DefineKeeps ==
  ASSUME WInv, Define
  PROVE  WInv' /\ JournalStep
<1> DEFINE again == stored # None /\ stored.status \notin TERMINAL
<1>1. /\ Typed /\ Quiet /\ ~up /\ up' = TRUE
      /\ IF again THEN StartDrive(drive) ELSE drive' = drive
      /\ UNCHANGED <<now, stored, call, resumed, executions, rollbacks, crashes, faults, raced>>
  BY DEF WInv, Define, wfHistory
<1>2. (\A e \in Drives : drive[e].pc = "idle") /\ (\A c \in Callers : call[c].pc = "idle") /\ Active = {}
  BY <1>1 DEF Quiet, Active
<1>3. drive \in [Drives -> DriveRec] /\ \A e \in Drives : Fine(drive[e]) /\ drive[e].pc = drive[e].pc
  BY <1>1 DEF Typed
<1>4. JournalStep
  BY <1>1, GrowsFromItself DEF JournalStep
<1>5. \A c \in Callers : CallOK(c)'
  BY <1>1, <1>2 DEF CallOK
<1>6. CASE again
  <2>1. /\ drive' \in [Drives -> DriveRec] /\ (\A e \in Drives : Fine(drive'[e]))
        /\ FreeSlot \in Drives /\ drive'[FreeSlot].pc = "load"
        /\ \A e \in Drives : e # FreeSlot => drive'[e].pc = "idle"
    BY <1>1, <1>2, <1>3, <1>6, StartedTyped
  <2>2. Typed'
    BY <1>1, <2>1 DEF Typed
  <2>3. Quiet'
    BY <1>1, <1>6 DEF Quiet
  <2>4. ASSUME ~raced' PROVE Sound'
    <3>1. Sound
      BY <1>1, <2>4 DEF WInv
    <3> QED BY <1>1, <1>2, <1>5, <1>6, <2>1, <3>1, StartedSound
  <2> QED BY <1>4, <2>2, <2>3, <2>4 DEF WInv
<1>7. CASE ~again
  <2>1. drive' = drive
    BY <1>1, <1>7
  <2>2. Typed'
    BY <1>1, <2>1 DEF Typed
  <2>3. Quiet'
    BY <1>1, <1>2, <2>1 DEF Quiet
  <2>4. ASSUME ~raced' PROVE Sound'
    <3>1. Sound
      BY <1>1, <2>4 DEF WInv
    <3> QED BY <1>1, <2>1, <3>1 DEF Sound, Active, CallOK, RolledBack, Uninterrupted, OrderOK, RollsBack
  <2> QED BY <1>4, <2>2, <2>3, <2>4 DEF WInv
<1> QED BY <1>6, <1>7

LEMMA ProcessCrashKeeps ==
  ASSUME WInv, ProcessCrash
  PROVE  WInv' /\ JournalStep
<1>1. /\ Typed /\ Quiet /\ up' = FALSE /\ crashes' = crashes + 1 /\ resumed' = {}
      /\ drive' = [d \in Drives |-> NoDrive] /\ call' = [c \in Callers |-> NoCall]
      /\ UNCHANGED <<now, stored, executions, rollbacks, faults, raced>>
  BY DEF WInv, ProcessCrash
<1>2. Fine(NoDrive) /\ NoDrive \in DriveRec /\ NoDrive.pc = "idle" /\ ~Busy(NoDrive)
  BY NewDriveFine DEF Fine, NoDrive
<1>3. FineCall(NoCall) /\ NoCall \in CallRec /\ NoCall.pc = "idle"
  BY DEF FineCall, NoCall, CallRec
<1>4. Typed'
  <2>1. drive' \in [Drives -> DriveRec] /\ \A d \in Drives : Fine(drive'[d])
    BY <1>1, <1>2
  <2>2. call' \in [Callers -> CallRec] /\ \A c \in Callers : FineCall(call'[c])
    BY <1>1, <1>3
  <2>3. up' \in BOOLEAN /\ crashes' \in Nat /\ resumed' \subseteq Nat
    <3>1. crashes \in Nat
      BY <1>1 DEF Typed
    <3>2. up' \in BOOLEAN /\ resumed' \subseteq Nat
      BY <1>1, Zenon
    <3>3. crashes' \in Nat
      BY <1>1, <3>1
    <3> QED BY <3>2, <3>3
  <2> QED BY <1>1, <2>1, <2>2, <2>3 DEF Typed
<1>5. Quiet' /\ JournalStep
  BY <1>1, <1>2, <1>3, GrowsFromItself DEF Quiet, JournalStep
<1>6. ASSUME ~raced' PROVE Sound'
  <2>1. Sound
    BY <1>1, <1>6 DEF WInv
  <2>2. ~Uninterrupted'
    BY <1>1 DEF Uninterrupted, Typed
  <2>3. \A e \in Drives : drive'[e].pc = "idle" /\ ~Busy(drive'[e])
    BY <1>1, <1>2
  <2>4. \A c \in Callers : CallOK(c)'
    BY <1>1, <1>3 DEF CallOK
  <2>5. \A k \in 1..Len(rollbacks) : RolledBack(rollbacks[k])'
    BY <1>1, <2>1, <2>3 DEF Sound, RolledBack
  <2>6. \A a, b \in Active' : a = b
    BY <2>3 DEF Active
  <2> QED BY <1>1, <2>1, <2>2, <2>3, <2>4, <2>5, <2>6 DEF Sound
<1> QED BY <1>4, <1>5, <1>6 DEF WInv

LEMMA NothingHappens ==
  ASSUME WInv, UNCHANGED <<stored, drive, call, up, resumed, executions, rollbacks, crashes, faults, raced>>,
         now' \in Nat
  PROVE  WInv' /\ JournalStep
<1>1. Typed /\ Quiet
  BY DEF WInv
<1>2. Typed'
  BY <1>1 DEF Typed
<1>3. Quiet' /\ JournalStep
  BY <1>1, GrowsFromItself DEF Quiet, JournalStep
<1>4. ASSUME ~raced' PROVE Sound'
  <2>1. Sound
    BY <1>4 DEF WInv
  <2> QED BY <2>1 DEF Sound, Active, CallOK, RolledBack, Uninterrupted, OrderOK, RollsBack
<1> QED BY <1>2, <1>3, <1>4 DEF WInv

----------------------------------------------------------------------------
(* The invariant, and what each step does to the journal.                  *)
LEMMA WInitHolds == WInit => WInv
<1> SUFFICES ASSUME WInit PROVE WInv
  OBVIOUS
<1>1. Fine(NoDrive) /\ NoDrive \in DriveRec /\ NoDrive.pc = "idle" /\ ~Busy(NoDrive)
  BY NewDriveFine DEF Fine, NoDrive
<1>2. FineCall(NoCall) /\ NoCall \in CallRec /\ NoCall.pc = "idle"
  BY DEF FineCall, NoCall, CallRec
<1>3. drive \in [Drives -> DriveRec] /\ \A d \in Drives : Fine(drive[d]) /\ drive[d].pc = "idle" /\ ~Busy(drive[d])
  BY <1>1 DEF WInit
<1>4. call \in [Callers -> CallRec] /\ \A c \in Callers : FineCall(call[c]) /\ call[c].pc = "idle"
  BY <1>2 DEF WInit
<1>5. /\ now \in Nat /\ stored = None /\ up = TRUE /\ raced = FALSE /\ resumed = {} /\ crashes \in Nat
      /\ faults \in Nat /\ rollbacks = <<>> /\ executions \in [Positions -> Nat]
  BY DEF WInit
<1>6. Typed /\ Quiet
  <2>1. up \in BOOLEAN /\ raced \in BOOLEAN /\ resumed \subseteq Nat
    BY <1>5, Zenon
  <2>2. rollbacks \in Seq(Positions) /\ stored \in SnapRec \cup {None}
    BY <1>5
  <2> QED BY <1>3, <1>4, <1>5, <2>1, <2>2 DEF Typed, Quiet
<1>7. Sound
  BY <1>3, <1>4, <1>5 DEF Sound, Active, CallOK, OrderOK, Compensating
<1> QED BY <1>6, <1>7 DEF WInv

LEMMA WNextKeeps ==
  ASSUME WInv, [WNext]_wfVars
  PROVE  WInv' /\ JournalStep
<1>1. CASE UNCHANGED wfVars
  <2>1. now' \in Nat
    BY <1>1 DEF wfVars, WInv, Typed
  <2> QED BY <1>1, <2>1, NothingHappens DEF wfVars, wfHistory
<1>2. CASE ClockTick
  <2>1. now' \in Nat
    BY <1>2 DEF ClockTick, WInv, Typed
  <2> QED BY <1>2, <2>1, NothingHappens DEF ClockTick, wfHistory
<1>3. CASE ProcessCrash \/ Define \/ Run \/ Resume
  BY <1>3, ProcessCrashKeeps, DefineKeeps, RunKeeps, ResumeKeeps
<1>4. ASSUME NEW d \in Drives, DriveStep(d) \/ SaveFails(d) PROVE WInv' /\ JournalStep
  <2>1. CASE DriveLoad(d) \/ Normalize(d) \/ Execute(d) \/ EffectSucceeds(d) \/ EffectFails(d)
    BY <2>1, DriveLoadKeeps, NormalizeKeeps, ExecuteKeeps, EffectSucceedsKeeps, EffectFailsKeeps
  <2>2. ASSUME NEW status \in TERMINAL, Finalize(d, status) PROVE WInv' /\ JournalStep
    BY <2>2, FinalizeKeeps
  <2>3. CASE Record(d) \/ StartCompensating(d) \/ CompensationStarted(d) \/ Rollback(d)
             \/ CompensationDone(d) \/ SaveFails(d)
    BY <2>3, RecordKeeps, StartCompensatingKeeps, CompensationStartedKeeps, RollbackKeeps,
       CompensationDoneKeeps, SaveFailsKeeps
  <2> QED BY <1>4, <2>1, <2>2, <2>3 DEF DriveStep
<1>5. ASSUME NEW c \in Callers, CallLoad(c, "cancel", None) \/ CallLoad(c, "pause", None)
      PROVE  WInv' /\ JournalStep
  BY <1>5, CallLoadKeeps
<1>6. ASSUME NEW c \in Callers, NEW n \in Names, CallLoad(c, "signal", n) PROVE WInv' /\ JournalStep
  BY <1>6, CallLoadKeeps
<1>7. ASSUME NEW c \in Callers, CallWrite(c) PROVE WInv' /\ JournalStep
  BY <1>7, TransitionWriteKeeps, SignalWriteKeeps DEF CallWrite
<1> QED BY <1>1, <1>2, <1>3, <1>4, <1>5, <1>6, <1>7 DEF WNext

LEMMA WInvariance == WSpec => []WInv
<1>1. WInv /\ [WNext]_wfVars => WInv'
  BY WNextKeeps
<1> QED BY <1>1, WInitHolds, PTL DEF WSpec

(* Nothing but Execute counts an execution.                                *)
LEMMA OnlyExecuteExecutes ==
  ASSUME WNext
  PROVE  executions' = executions \/ \E d \in Drives : Execute(d)
<1>1. CASE ClockTick \/ ProcessCrash \/ Define \/ Run \/ Resume
  BY <1>1 DEF ClockTick, ProcessCrash, Define, Run, Resume, wfHistory
<1>2. ASSUME NEW d \in Drives, DriveStep(d) \/ SaveFails(d) PROVE executions' = executions \/ Execute(d)
  BY <1>2 DEF DriveStep, SaveFails, DriveLoad, Normalize, EffectSucceeds, EffectFails, Record, Finalize,
              StartCompensating, CompensationStarted, Rollback, CompensationDone, wfHistory
<1>3. ASSUME NEW c \in Callers, NEW op, NEW name, CallLoad(c, op, name) PROVE executions' = executions
  BY <1>3 DEF CallLoad, wfHistory
<1>4. ASSUME NEW c \in Callers, CallWrite(c) PROVE executions' = executions
  BY <1>4 DEF CallWrite, TransitionWrite, SignalWrite, wfHistory
<1> QED BY <1>1, <1>2, <1>3, <1>4 DEF WNext

----------------------------------------------------------------------------
(* As long as no two writers raced, a command the store records as settled *)
(* is not executed again, whatever waits, resumes, failed saves and        *)
(* crashes come between: the journal replays it (journal.ts).              *)
THEOREM SettledNotReexecuted == WSpec => NoReexecution
<1>1. WInv /\ [WNext]_wfVars =>
        [\A i \in Positions :
           (/\ executions'[i] # executions[i] /\ ~raced'
            /\ i <= Len(stored.commands)) => stored.commands[i].status = "waiting"]_wfVars
  <2> SUFFICES ASSUME WInv, WNext, NEW i \in Positions, executions'[i] # executions[i], ~raced',
                      i <= Len(stored.commands)
               PROVE  stored.commands[i].status = "waiting"
    BY DEF wfVars
  <2>1. PICK d \in Drives : Execute(d)
    BY OnlyExecuteExecutes
  <2> DEFINE s == drive[d]
  <2>2. /\ s.pc = "execute" /\ raced' = raced
        /\ executions' = [executions EXCEPT ![Frontier(s.snap)] = @ + 1]
    BY <2>1 DEF Execute
  <2>3. /\ Typed /\ Sound /\ s.snap \in SnapRec
        /\ Frontier(s.snap) \in Positions /\ ~Failed(s.snap, Frontier(s.snap))
    BY <2>2 DEF WInv, Typed, Fine, Busy
  <2>4. i = Frontier(s.snap)
    BY <2>2, <2>3 DEF Typed
  <2>5. ~Settled(s.snap, i)
    BY <2>3, <2>4, BeforeFrontier
  <2>6. s.snap.commands = stored.commands
    BY <2>2, <2>3 DEF Sound, Busy, Agrees
  <2> QED BY <2>5, <2>6 DEF Settled
<1> QED BY <1>1, WInvariance, PTL DEF WSpec, NoReexecution

(* As long as no two writers raced, no save shortens the journal, changes  *)
(* a settled outcome or takes back the mark of a compensation.             *)
THEOREM JournalOnlyGrows == WSpec => JournalGrows
<1>1. WInv /\ [WNext]_wfVars =>
        [(stored # None /\ ~raced') =>
           \A i \in 1..Len(stored.commands) :
             LET old == stored.commands[i] new == stored'.commands[i] IN
             /\ i <= Len(stored'.commands)
             /\ old.status # "waiting" => new.status = old.status
             /\ old.compensated => new.compensated]_wfVars
  BY WNextKeeps DEF JournalStep, Grows
<1> QED BY <1>1, WInvariance, PTL DEF WSpec, JournalGrows

(* As long as no stale copy is saved, no late call, resume or restart      *)
(* changes a run that completed, failed, was compensated or cancelled.     *)
THEOREM OverIsOver == WSpec => TerminalIsFinal
<1>1. WInv /\ [WNext]_wfVars =>
        [(stored # None /\ ~raced') =>
           (stored.status \in TERMINAL => stored' = stored)]_wfVars
  BY WNextKeeps DEF JournalStep
<1> QED BY <1>1, WInvariance, PTL DEF WSpec, TerminalIsFinal

(* As long as no two writers raced, no compensation runs twice, crashes    *)
(* and failed saves included; without those, compensations run in reverse  *)
(* order and never in a run that completes (compensator.ts).               *)
THEOREM RollbacksReversedOnce == WSpec => []RollbackReverseOnce
<1>1. WInv => RollbackReverseOnce
  <2> SUFFICES ASSUME WInv PROVE RollbackReverseOnce
    OBVIOUS
  <2>1. ~raced => \A i, k \in 1..Len(rollbacks) : i < k => rollbacks[i] # rollbacks[k]
    BY DEF WInv, Sound
  <2>2. ASSUME ~raced, crashes = 0, faults = 0
        PROVE  /\ \A i, k \in 1..Len(rollbacks) : i < k => rollbacks[i] > rollbacks[k]
               /\ RunIs({"completed"}) => rollbacks = <<>>
    <3>1. OrderOK
      BY <2>2 DEF WInv, Sound, Uninterrupted
    <3>2. RunIs({"completed"}) => stored.status = "completed"
      BY DEF RunIs
    <3> QED BY <3>1, <3>2 DEF OrderOK, RollsBack
  <2> QED BY <2>1, <2>2 DEF RollbackReverseOnce
<1> QED BY <1>1, WInvariance, PTL
=============================================================================
