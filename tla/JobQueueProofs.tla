---------------------------- MODULE JobQueueProofs ----------------------------
(***************************************************************************)
(* Proofs about JobQueue: its types, and that no accepted job is lost, for *)
(* any number of workers, slots and jobs and any bounds on crashes, failed *)
(* statements, stops and prunes (Inv); that the retry policy is kept       *)
(* (PolicyInv); and that the reaper takes orphans only (BeatInv).          *)
(***************************************************************************)
EXTENDS JobQueue, FiniteSetTheorems, TLAPS

Row == [status : {"none", "pending", "running", "failed"},
        attempts : 0..(maxAttempts - 1), due : Nat,
        worker : Workers \cup {None}, age : 0..(staleJobThreshold + 1)]
Slot == [pc : {"idle", "selected", "executing", "delete", "retry", "bury", "markFailed"},
         job : Jobs \cup {None}, attempt : 0..(maxAttempts - 1)]

(* A dispatch names a job; it deletes a row only after success and retries *)
(* only a job with attempts left.                                          *)
SlotOK(s) ==
  /\ s.pc # "idle" => s.job \in Jobs
  /\ s.pc = "delete" => s.job \in succeeded
  /\ s.pc = "retry" => s.attempt + 1 < maxAttempts

SlotsOK == \A s \in Slots : SlotOK(slot[s])

TypeInv == JobsTypeOK /\ accepted \subseteq Jobs /\ SlotsOK
Inv == TypeInv /\ NoJobLost

(* No row goes away.                                                       *)
RowsKept == \A k \in Jobs : row[k].status # "none" => row'[k].status # "none"

(* A step that keeps the rows, the dead letters and the history loses no   *)
(* job.                                                                    *)
LEMMA NothingLost ==
  ASSUME NoJobLost, accepted \subseteq Jobs, accepted' = accepted,
         succeeded \subseteq succeeded', pruned' = pruned, dlq' = dlq, RowsKept
  PROVE  NoJobLost'
BY DEF NoJobLost, RowsKept

(* A row with some of its columns set anew is a row.                       *)
Statuses == {"pending", "running", "failed"}
Ages == 0..(staleJobThreshold + 1)

LEMMA SetStatus ==
  ASSUME NEW q \in Row, NEW st \in Statuses
  PROVE  [q EXCEPT !.status = st] \in Row /\ [q EXCEPT !.status = st].status = st
BY DEF Row, Statuses

LEMMA SetDue ==
  ASSUME NEW q \in Row, NEW st \in Statuses, NEW d \in Nat
  PROVE  /\ [q EXCEPT !.status = st, !.due = d] \in Row
         /\ [q EXCEPT !.status = st, !.due = d].status = st
BY DEF Row, Statuses

LEMMA SetAge ==
  ASSUME NEW q \in Row, NEW a \in Ages
  PROVE  [q EXCEPT !.age = a] \in Row /\ [q EXCEPT !.age = a].status = q.status
BY DEF Row, Ages

LEMMA SetDueAge ==
  ASSUME NEW q \in Row, NEW d \in Nat, NEW a \in Ages
  PROVE  /\ [q EXCEPT !.due = d, !.age = a] \in Row
         /\ [q EXCEPT !.due = d, !.age = a].status = q.status
BY DEF Row, Ages

LEMMA SetOwner ==
  ASSUME NEW q \in Row, NEW st \in Statuses, NEW w \in Workers \cup {None}
  PROVE  /\ [q EXCEPT !.status = st, !.worker = w, !.age = 0] \in Row
         /\ [q EXCEPT !.status = st, !.worker = w, !.age = 0].status = st
<1>1. 0 \in Ages
  BY JobsAssumption DEF Ages
<1> QED
  BY <1>1 DEF Row, Statuses, Ages

LEMMA NoRowTyped == NoRow \in Row /\ NoRow.status = "none"
BY JobsAssumption DEF NoRow, Row

LEMMA UpdateKeeps ==
  ASSUME JobsTypeOK, NEW j \in Jobs, NEW r \in Row, r.status # "none" \/ row[j].status = "none",
         Update(j, r)
  PROVE  row' \in [Jobs -> Row] /\ RowsKept
BY DEF JobsTypeOK, Row, Update, RowsKept

LEMMA DeleteTyped ==
  ASSUME JobsTypeOK, NEW j \in Jobs, Delete(j)
  PROVE  /\ row' \in [Jobs -> Row]
         /\ \A k \in Jobs \ {j} : row'[k] = row[k]
<1>1. NoRow \in Row
  BY JobsAssumption DEF NoRow, Row
<1> QED
  BY <1>1 DEF JobsTypeOK, Row, Delete

LEMMA DoneTyped ==
  ASSUME TypeInv, NEW s \in Slots, Done(s), succeeded' = succeeded
  PROVE  /\ slot' \in [Slots -> Slot] /\ inFlight' \in [Workers -> SUBSET Jobs]
         /\ SlotsOK'
<1>1. Free \in Slot /\ Free.pc = "idle"
  BY JobsAssumption DEF Free, Slot
<1>2. slot \in [Slots -> Slot] /\ inFlight \in [Workers -> SUBSET Jobs]
  BY DEF TypeInv, JobsTypeOK, Slot
<1>3. slot' \in [Slots -> Slot] /\ inFlight' \in [Workers -> SUBSET Jobs]
  BY <1>1, <1>2 DEF Done
<1>4. \A t \in Slots : slot'[t] = slot[t] \/ slot'[t] = Free
  BY <1>2 DEF Done
<1>5. SlotsOK'
  BY <1>1, <1>4 DEF TypeInv, SlotsOK, SlotOK
<1> QED
  BY <1>3, <1>5

LEMMA StepTyped ==
  ASSUME TypeInv, NEW s \in Slots, slot[s].pc # "idle",
         NEW pc \in {"executing", "delete", "retry", "bury", "markFailed"}, Step(s, pc),
         pc = "delete" => slot[s].job \in succeeded',
         pc = "retry" => slot[s].attempt + 1 < maxAttempts,
         succeeded \subseteq succeeded'
  PROVE  slot' \in [Slots -> Slot] /\ SlotsOK'
<1>1. slot \in [Slots -> Slot]
  BY DEF TypeInv, JobsTypeOK, Slot
<1>2. /\ slot' \in [Slots -> Slot]
      /\ slot'[s].pc = pc /\ slot'[s].job = slot[s].job /\ slot'[s].attempt = slot[s].attempt
      /\ \A t \in Slots \ {s} : slot'[t] = slot[t]
  BY <1>1 DEF Step, Slot
<1>3. slot[s].job \in Jobs
  BY DEF TypeInv, SlotsOK, SlotOK
<1>4. SlotOK(slot[s])'
  BY <1>2, <1>3 DEF SlotOK
<1>5. \A t \in Slots \ {s} : SlotOK(slot[t])'
  BY <1>2 DEF TypeInv, SlotsOK, SlotOK
<1> QED
  BY <1>2, <1>4, <1>5 DEF SlotsOK

LEMMA FailurePcTyped ==
  ASSUME TypeInv, NEW s \in Slots
  PROVE  /\ FailurePc(s) \in {"retry", "bury"}
         /\ FailurePc(s) = "retry" => slot[s].attempt + 1 < maxAttempts
BY JobsAssumption DEF FailurePc, TypeInv, JobsTypeOK

----------------------------------------------------------------------------
LEMMA InitOK == JobsInit => Inv
<1> SUFFICES ASSUME JobsInit PROVE Inv
  OBVIOUS
<1>1. NoRow \in Row /\ Free \in Slot /\ Free.pc = "idle"
  BY JobsAssumption DEF NoRow, Row, Free, Slot
<1>2. JobsTypeOK
  BY <1>1, JobsAssumption DEF JobsInit, JobsTypeOK, Row, Slot
<1>3. SlotsOK
  BY <1>1 DEF JobsInit, SlotsOK, SlotOK
<1>4. accepted = {}
  BY DEF JobsInit
<1> QED
  BY <1>2, <1>3, <1>4 DEF Inv, TypeInv, NoJobLost

LEMMA EnqueueOK ==
  ASSUME Inv, NEW j \in Jobs, NEW delay \in 0..1, enqueue(j, delay)
  PROVE  Inv'
<1>1. /\ [NoRow EXCEPT !.status = "pending", !.due = delay] \in Row
      /\ [NoRow EXCEPT !.status = "pending", !.due = delay].status = "pending"
  <2>1. "pending" \in Statuses /\ delay \in Nat /\ NoRow \in Row
    BY NoRowTyped DEF Statuses
  <2> QED
    BY <2>1, SetDue, Zenon
<1>2. /\ row' \in [Jobs -> Row] /\ row'[j].status = "pending"
      /\ \A k \in Jobs \ {j} : row'[k] = row[k]
  BY <1>1 DEF enqueue, Inv, TypeInv, JobsTypeOK, Row
<1>3. JobsTypeOK'
  BY <1>2 DEF enqueue, Inv, TypeInv, JobsTypeOK, Row, beats
<1>4. SlotsOK'
  BY DEF enqueue, Inv, TypeInv, SlotsOK, SlotOK
<1>5. NoJobLost'
  BY <1>2 DEF enqueue, Inv, TypeInv, NoJobLost
<1>6. accepted' \subseteq Jobs
  BY DEF enqueue, Inv, TypeInv
<1> QED
  BY <1>3, <1>4, <1>5, <1>6 DEF Inv, TypeInv

LEMMA PollOK ==
  ASSUME Inv, NEW s \in Slots, NEW j \in Jobs, Poll(s, j)
  PROVE  Inv'
<1>1. [pc |-> "selected", job |-> j, attempt |-> row[j].attempts] \in Slot
  BY DEF Inv, TypeInv, JobsTypeOK, Slot
<1>2. /\ slot' \in [Slots -> Slot]
      /\ \A t \in Slots : \/ slot'[t] = slot[t]
                          \/ slot'[t].pc = "selected" /\ slot'[t].job = j
  BY <1>1 DEF Poll, Inv, TypeInv, JobsTypeOK, Slot
<1>3. JobsTypeOK'
  BY <1>2 DEF Poll, Inv, TypeInv, JobsTypeOK, Slot, beats
<1>4. SlotsOK'
  BY <1>2 DEF Poll, Inv, TypeInv, SlotsOK, SlotOK
<1>5. NoJobLost'
  BY NothingLost DEF Poll, RowsKept, Inv, TypeInv
<1>6. accepted' \subseteq Jobs
  BY DEF Poll, Inv, TypeInv
<1> QED
  BY <1>3, <1>4, <1>5, <1>6 DEF Inv, TypeInv

LEMMA LockOK ==
  ASSUME Inv, NEW s \in Slots, Lock(s)
  PROVE  Inv'
<1> DEFINE j == slot[s].job
           r == [row[j] EXCEPT !.status = "running", !.worker = WorkerOf[s], !.age = 0]
<1>1. j \in Jobs
  BY DEF Lock, Inv, TypeInv, SlotsOK, SlotOK
<1>2. r \in Row /\ r.status # "none"
  <2> HIDE DEF j
  <2>1. row[j] \in Row
    BY <1>1 DEF Inv, TypeInv, JobsTypeOK, Row
  <2>2. WorkerOf[s] \in Workers \cup {None} /\ "running" \in Statuses
    BY JobsAssumption DEF Statuses
  <2>3. r \in Row /\ r.status = "running"
    BY <2>1, <2>2, SetOwner, Zenon
  <2> QED
    BY <2>3
<1>3. row' \in [Jobs -> Row] /\ RowsKept
  BY <1>1, <1>2, UpdateKeeps DEF Lock, Inv, TypeInv
<1>4. slot' \in [Slots -> Slot] /\ SlotsOK'
  BY StepTyped DEF Lock, Inv, seen
<1>5. inFlight' \in [Workers -> SUBSET Jobs]
  BY <1>1 DEF Lock, Inv, TypeInv, JobsTypeOK
<1>6. JobsTypeOK'
  BY <1>3, <1>4, <1>5 DEF Lock, Inv, TypeInv, JobsTypeOK, Row, Slot, beats
<1>7. NoJobLost'
  BY <1>3, NothingLost DEF Lock, seen, Inv, TypeInv
<1> QED
  BY <1>4, <1>6, <1>7 DEF Lock, seen, Inv, TypeInv

(* The handler's return: only the slot and the history change.             *)
LEMMA HandlerOK ==
  ASSUME Inv, NEW s \in Slots, HandlerSucceeds(s) \/ HandlerFails(s)
  PROVE  Inv'
<1>1. slot' \in [Slots -> Slot] /\ SlotsOK'
  <2>1. CASE HandlerSucceeds(s)
    BY <2>1, StepTyped DEF HandlerSucceeds, Inv
  <2>2. CASE HandlerFails(s)
    BY <2>2, StepTyped, FailurePcTyped DEF HandlerFails, Inv
  <2> QED
    BY <2>1, <2>2
<1>2. /\ UNCHANGED <<row, dlq, inFlight, beat, accepted, pruned>>
      /\ succeeded \subseteq succeeded'
  BY DEF HandlerSucceeds, HandlerFails, beats
<1>3. JobsTypeOK'
  BY <1>1, <1>2 DEF Inv, TypeInv, JobsTypeOK, Slot
<1>4. NoJobLost'
  BY <1>2, NothingLost DEF RowsKept, Inv, TypeInv
<1> QED
  BY <1>1, <1>2, <1>3, <1>4 DEF Inv, TypeInv

(* A row is deleted only for a job that a handler completed.               *)
LEMMA DeleteDoneOK ==
  ASSUME Inv, NEW s \in Slots, DeleteDone(s)
  PROVE  Inv'
<1>1. slot[s].job \in Jobs /\ slot[s].job \in succeeded
  BY DEF DeleteDone, Inv, TypeInv, SlotsOK, SlotOK
<1>2. row' \in [Jobs -> Row] /\ \A k \in Jobs \ {slot[s].job} : row'[k] = row[k]
  BY <1>1, DeleteTyped DEF DeleteDone, Inv, TypeInv
<1>3. /\ slot' \in [Slots -> Slot] /\ inFlight' \in [Workers -> SUBSET Jobs]
      /\ SlotsOK'
  BY DoneTyped DEF DeleteDone, seen, Inv
<1>4. JobsTypeOK'
  BY <1>2, <1>3 DEF DeleteDone, Inv, TypeInv, JobsTypeOK, Row, Slot, beats
<1>5. NoJobLost'
  BY <1>1, <1>2 DEF DeleteDone, seen, Inv, TypeInv, NoJobLost
<1> QED
  BY <1>3, <1>4, <1>5 DEF DeleteDone, seen, Inv, TypeInv

LEMMA RetryOK ==
  ASSUME Inv, NEW s \in Slots, NEW delay \in 0..BackoffMax, Retry(s, delay)
  PROVE  Inv'
<1> DEFINE r == [status |-> "pending", attempts |-> slot[s].attempt + 1,
                 due |-> delay, worker |-> None, age |-> 0]
<1>1. slot[s].job \in Jobs /\ slot[s].attempt + 1 < maxAttempts /\ slot[s].attempt \in Nat
  BY DEF Retry, Inv, TypeInv, SlotsOK, SlotOK, JobsTypeOK
<1>2. r \in Row /\ r.status # "none"
  BY <1>1, JobsAssumption DEF Row
<1>3. row' \in [Jobs -> Row] /\ RowsKept
  BY <1>1, <1>2, UpdateKeeps DEF Retry, Inv, TypeInv
<1>4. /\ slot' \in [Slots -> Slot] /\ inFlight' \in [Workers -> SUBSET Jobs]
      /\ SlotsOK'
  BY DoneTyped DEF Retry, seen, Inv
<1>5. JobsTypeOK'
  BY <1>3, <1>4 DEF Retry, Inv, TypeInv, JobsTypeOK, Row, Slot, beats
<1>6. NoJobLost'
  BY <1>3, NothingLost DEF Retry, seen, Inv, TypeInv
<1> QED
  BY <1>4, <1>5, <1>6 DEF Retry, seen, Inv, TypeInv

(* The dead letter is written in the transaction that deletes the row.     *)
LEMMA BuryOK ==
  ASSUME Inv, NEW s \in Slots, Bury(s)
  PROVE  Inv'
<1> DEFINE j == slot[s].job
<1>1. j \in Jobs
  BY DEF Bury, Inv, TypeInv, SlotsOK, SlotOK
<1>2. row' \in [Jobs -> Row] /\ \A k \in Jobs \ {j} : row'[k] = row[k]
  BY <1>1, DeleteTyped DEF Bury, Inv, TypeInv
<1>3. /\ slot' \in [Slots -> Slot] /\ inFlight' \in [Workers -> SUBSET Jobs]
      /\ SlotsOK'
  BY DoneTyped DEF Bury, seen, Inv
<1>4. dlq \in Seq(Jobs)
  BY DEF Inv, TypeInv, JobsTypeOK
<1>5. /\ dlq' \in Seq(Jobs) /\ Len(dlq') = Len(dlq) + 1 /\ dlq'[Len(dlq) + 1] = j
      /\ \A i \in 1..Len(dlq) : dlq'[i] = dlq[i]
  BY <1>1, <1>4 DEF Bury
<1>6. JobsTypeOK'
  BY <1>2, <1>3, <1>5 DEF Bury, Inv, TypeInv, JobsTypeOK, Row, Slot, beats
<1>7. NoJobLost'
  <2> SUFFICES ASSUME NEW k \in accepted'
               PROVE  \/ row'[k].status # "none"
                      \/ k \in succeeded' \cup pruned'
                      \/ \E i \in 1..Len(dlq') : dlq'[i] = k
    BY DEF NoJobLost
  <2>1. CASE k = j
    BY <2>1, <1>4, <1>5
  <2>2. CASE k # j
    <3>1. k \in accepted /\ k \in Jobs
      BY DEF Bury, seen, Inv, TypeInv
    <3>2. \/ row'[k].status # "none"
          \/ k \in succeeded' \cup pruned'
          \/ \E i \in 1..Len(dlq) : dlq[i] = k
      BY <2>2, <3>1, <1>2 DEF Bury, seen, Inv, NoJobLost
    <3>3. ASSUME NEW i \in 1..Len(dlq), dlq[i] = k
          PROVE  i \in 1..Len(dlq') /\ dlq'[i] = k
      BY <3>3, <1>4, <1>5
    <3>4. (\E i \in 1..Len(dlq) : dlq[i] = k) => \E i \in 1..Len(dlq') : dlq'[i] = k
      BY <3>3
    <3> QED
      BY <3>2, <3>4
  <2> QED
    BY <2>1, <2>2
<1> QED
  BY <1>3, <1>6, <1>7 DEF Bury, seen, Inv, TypeInv

LEMMA MarkFailedOK ==
  ASSUME Inv, NEW s \in Slots, MarkFailed(s)
  PROVE  Inv'
<1> DEFINE j == slot[s].job
           r == [row[j] EXCEPT !.status = "failed"]
<1>1. j \in Jobs
  BY DEF MarkFailed, Inv, TypeInv, SlotsOK, SlotOK
<1>2. r \in Row /\ r.status # "none"
  <2>1. row[j] \in Row
    BY <1>1 DEF Inv, TypeInv, JobsTypeOK, Row
  <2> QED
    BY <2>1, SetStatus DEF Statuses
<1>3. row' \in [Jobs -> Row] /\ RowsKept
  BY <1>1, <1>2, UpdateKeeps DEF MarkFailed, Inv, TypeInv
<1>4. /\ slot' \in [Slots -> Slot] /\ inFlight' \in [Workers -> SUBSET Jobs]
      /\ SlotsOK'
  BY DoneTyped DEF MarkFailed, seen, Inv
<1>5. JobsTypeOK'
  BY <1>3, <1>4 DEF MarkFailed, Inv, TypeInv, JobsTypeOK, Row, Slot, beats
<1>6. NoJobLost'
  BY <1>3, NothingLost DEF MarkFailed, seen, Inv, TypeInv
<1> QED
  BY <1>4, <1>5, <1>6 DEF MarkFailed, seen, Inv, TypeInv

(* A failed statement changes no row: only the dispatch moves on.          *)
LEMMA StatementFailsOK ==
  ASSUME Inv, NEW s \in Slots, StatementFails(s)
  PROVE  Inv'
<1>1. slot[s].pc # "idle" /\ succeeded' = succeeded
  BY DEF StatementFails, seen
<1>2. slot \in [Slots -> Slot] /\ inFlight \in [Workers -> SUBSET Jobs]
  BY DEF Inv, TypeInv, JobsTypeOK, Slot
<1>3. /\ slot' \in [Slots -> Slot] /\ inFlight' \in [Workers -> SUBSET Jobs]
      /\ SlotsOK'
  <2>1. CASE slot[s].pc = "delete"
    <3>1. Step(s, FailurePc(s)) /\ inFlight' = inFlight
      BY <2>1 DEF StatementFails
    <3> QED
      BY <3>1, <1>1, <1>2, StepTyped, FailurePcTyped DEF Inv
  <2>2. CASE slot[s].pc = "bury"
    <3>1. Step(s, "markFailed") /\ inFlight' = inFlight
      BY <2>2 DEF StatementFails
    <3> QED
      BY <3>1, <1>1, <1>2, StepTyped DEF Inv
  <2>3. CASE slot[s].pc = "selected"
    <3>1. slot' = [slot EXCEPT ![s] = Free] /\ inFlight' = inFlight
      BY <2>3 DEF StatementFails
    <3>2. Free \in Slot /\ Free.pc = "idle"
      BY JobsAssumption DEF Free, Slot
    <3>3. slot' \in [Slots -> Slot] /\ \A t \in Slots : slot'[t] = slot[t] \/ slot'[t] = Free
      BY <3>1, <3>2, <1>2
    <3>4. SlotsOK'
      BY <3>2, <3>3, <1>1 DEF Inv, TypeInv, SlotsOK, SlotOK
    <3> QED
      BY <3>1, <3>3, <3>4, <1>2
  <2>4. CASE slot[s].pc \notin {"delete", "bury", "selected"}
    <3>1. Done(s)
      BY <2>4 DEF StatementFails
    <3> QED
      BY <3>1, <1>1, DoneTyped DEF Inv
  <2> QED
    BY <2>1, <2>2, <2>3, <2>4
<1>4. UNCHANGED <<row, dlq, beat, accepted, succeeded, pruned>>
  BY DEF StatementFails, seen, beats
<1>5. JobsTypeOK'
  BY <1>3, <1>4 DEF Inv, TypeInv, JobsTypeOK, Slot
<1>6. NoJobLost'
  BY <1>4, NothingLost DEF RowsKept, Inv, TypeInv
<1> QED
  BY <1>3, <1>4, <1>5, <1>6 DEF Inv, TypeInv

(* A step that leaves slots, dead letters and history alone, keeps every   *)
(* row and types what it changes, keeps the invariant.                     *)
LEMMA RowsOnlyOK ==
  ASSUME Inv, UNCHANGED <<dlq, slot, inFlight, seen>>,
         row' \in [Jobs -> Row], RowsKept, beat' \in [Workers -> 0..heartbeatInterval]
  PROVE  Inv'
<1>1. JobsTypeOK'
  BY DEF Inv, TypeInv, JobsTypeOK, Row
<1>2. SlotsOK' /\ accepted' \subseteq Jobs
  BY DEF seen, Inv, TypeInv, SlotsOK, SlotOK
<1>3. NoJobLost'
  BY NothingLost DEF seen, Inv, TypeInv
<1> QED
  BY <1>1, <1>2, <1>3 DEF Inv, TypeInv

LEMMA HeartbeatOK ==
  ASSUME Inv, NEW w \in Workers, Heartbeat(w)
  PROVE  Inv'
<1>1. row \in [Jobs -> Row] /\ beat \in [Workers -> 0..heartbeatInterval]
  BY DEF Inv, TypeInv, JobsTypeOK, Row
<1>2. 0 \in Ages /\ 0 \in 0..heartbeatInterval
  BY JobsAssumption DEF Ages
<1>3. beat' \in [Workers -> 0..heartbeatInterval]
  BY <1>1, <1>2 DEF Heartbeat
<1>4. \A j \in Jobs : [row[j] EXCEPT !.age = 0] \in Row /\ [row[j] EXCEPT !.age = 0].status = row[j].status
  BY <1>1, <1>2, SetAge
<1>5. row' \in [Jobs -> Row] /\ RowsKept
  BY <1>1, <1>4 DEF Heartbeat, RowsKept
<1> QED
  BY <1>3, <1>5, RowsOnlyOK DEF Heartbeat

LEMMA HeartbeatFailsOK ==
  ASSUME Inv, NEW w \in Workers, HeartbeatFails(w)
  PROVE  Inv'
<1>1. row \in [Jobs -> Row] /\ beat \in [Workers -> 0..heartbeatInterval]
  BY DEF Inv, TypeInv, JobsTypeOK, Row
<1>2. beat' \in [Workers -> 0..heartbeatInterval]
  BY <1>1, JobsAssumption DEF HeartbeatFails
<1> QED
  BY <1>1, <1>2, RowsOnlyOK DEF HeartbeatFails, RowsKept

LEMMA ReapOK ==
  ASSUME Inv, NEW w \in Workers, Reap(w)
  PROVE  Inv'
<1>1. row \in [Jobs -> Row] /\ beat \in [Workers -> 0..heartbeatInterval]
  BY DEF Inv, TypeInv, JobsTypeOK, Row
<1> DEFINE Freed(j) == [row[j] EXCEPT !.status = "pending", !.worker = None, !.age = 0]
<1>2. "pending" \in Statuses /\ None \in Workers \cup {None}
  BY DEF Statuses
<1>3. \A j \in Jobs : Freed(j) \in Row /\ Freed(j).status = "pending"
  BY <1>1, <1>2, SetOwner, Zenon
<1>4. row' = [j \in Jobs |-> IF Stale(j) THEN Freed(j) ELSE row[j]]
  BY DEF Reap
<1>5. row' \in [Jobs -> Row] /\ RowsKept
  <2> HIDE DEF Freed
  <2> QED
    BY <1>1, <1>3, <1>4 DEF RowsKept
<1> QED
  BY <1>1, <1>5, RowsOnlyOK DEF Reap, beats

LEMMA StopStartOK ==
  ASSUME Inv, NEW w \in Workers, Stop(w) \/ Start(w)
  PROVE  Inv'
<1>1. row \in [Jobs -> Row] /\ beat \in [Workers -> 0..heartbeatInterval]
  BY DEF Inv, TypeInv, JobsTypeOK, Row
<1>2. beat' \in [Workers -> 0..heartbeatInterval]
  BY <1>1, JobsAssumption DEF Stop, Start
<1>3. UNCHANGED <<row, dlq, slot, inFlight, seen>>
  BY DEF Stop, Start
<1> QED
  BY <1>1, <1>2, <1>3, RowsOnlyOK DEF RowsKept

(* The slots of a dead process are free; its rows stay.                    *)
LEMMA CrashOK ==
  ASSUME Inv, NEW w \in Workers, Crash(w)
  PROVE  Inv'
<1>1. Free \in Slot /\ Free.pc = "idle"
  BY JobsAssumption DEF Free, Slot
<1>2. slot \in [Slots -> Slot] /\ inFlight \in [Workers -> SUBSET Jobs]
  BY DEF Inv, TypeInv, JobsTypeOK, Slot
<1>3. slot' \in [Slots -> Slot] /\ \A t \in Slots : slot'[t] = slot[t] \/ slot'[t] = Free
  BY <1>1, <1>2 DEF Crash
<1>4. UNCHANGED <<row, dlq, accepted, succeeded, pruned>>
  BY DEF Crash, seen
<1>5. SlotsOK'
  BY <1>1, <1>3, <1>4 DEF Inv, TypeInv, SlotsOK, SlotOK
<1>6. inFlight' \in [Workers -> SUBSET Jobs] /\ beat' \in [Workers -> 0..heartbeatInterval]
  BY <1>2, JobsAssumption DEF Crash, Inv, TypeInv, JobsTypeOK
<1>7. JobsTypeOK'
  BY <1>3, <1>4, <1>6 DEF Inv, TypeInv, JobsTypeOK, Slot
<1>8. NoJobLost'
  BY <1>4, NothingLost DEF RowsKept, Inv, TypeInv
<1> QED
  BY <1>4, <1>5, <1>7, <1>8 DEF Inv, TypeInv

(* A pruned dead letter is remembered, the others move to the front.       *)
LEMMA PruneOK ==
  ASSUME Inv, NEW n \in 0..1, pruneDeadLetterQueue(n)
  PROVE  Inv'
<1> DEFINE gone == Len(dlq) - n
<1>1. dlq \in Seq(Jobs) /\ Len(dlq) \in Nat /\ Len(dlq) > n
  BY DEF pruneDeadLetterQueue, Inv, TypeInv, JobsTypeOK
<1>2. gone \in Nat /\ gone + n = Len(dlq)
  BY <1>1
<1>3. /\ dlq' \in Seq(Jobs) /\ Len(dlq') = n
      /\ \A i \in 1..n : dlq'[i] = dlq[gone + i]
  BY <1>1, <1>2 DEF pruneDeadLetterQueue
<1>4. pruned' = pruned \cup {dlq[i] : i \in 1..gone}
  BY DEF pruneDeadLetterQueue
<1>5. UNCHANGED <<row, slot, inFlight, beat, accepted, succeeded>>
  BY DEF pruneDeadLetterQueue, beats
<1>6. JobsTypeOK'
  BY <1>3, <1>5 DEF Inv, TypeInv, JobsTypeOK
<1>7. SlotsOK'
  BY <1>5 DEF Inv, TypeInv, SlotsOK, SlotOK
<1>8. NoJobLost'
  <2> SUFFICES ASSUME NEW k \in accepted, NEW i \in 1..Len(dlq), dlq[i] = k
               PROVE  k \in pruned' \/ \E m \in 1..Len(dlq') : dlq'[m] = k
    BY <1>4, <1>5 DEF Inv, NoJobLost
  <2>1. CASE i \in 1..gone
    BY <2>1, <1>4
  <2>2. CASE i \notin 1..gone
    <3>1. i - gone \in 1..n /\ gone + (i - gone) = i
      BY <2>2, <1>1, <1>2
    <3> QED
      BY <3>1, <1>3
  <2> QED
    BY <2>1, <2>2
<1> QED
  BY <1>5, <1>6, <1>7, <1>8 DEF Inv, TypeInv

LEMMA TickOK ==
  ASSUME Inv, Tick
  PROVE  Inv'
<1>1. row \in [Jobs -> Row] /\ beat \in [Workers -> 0..heartbeatInterval]
  BY DEF Inv, TypeInv, JobsTypeOK, Row
<1>2. beat' \in [Workers -> 0..heartbeatInterval]
  BY <1>1, JobsAssumption DEF Tick
<1>3. \A j \in Jobs : Ticking(j) \in Row /\ Ticking(j).status = row[j].status
  <2> SUFFICES ASSUME NEW j \in Jobs
               PROVE  Ticking(j) \in Row /\ Ticking(j).status = row[j].status
    OBVIOUS
  <2> DEFINE d == IF row[j].due > 0 THEN row[j].due - 1 ELSE 0
             a == IF row[j].status = "running" /\ row[j].age <= staleJobThreshold
                  THEN row[j].age + 1 ELSE row[j].age
  <2>1. row[j] \in Row /\ row[j].due \in Nat /\ row[j].age \in 0..(staleJobThreshold + 1)
    BY <1>1 DEF Row
  <2>2. d \in Nat
    BY <2>1
  <2>3. a \in Ages
    BY <2>1, JobsAssumption DEF Ages
  <2>4. Ticking(j) = [row[j] EXCEPT !.due = d, !.age = a]
    BY DEF Ticking
  <2> HIDE DEF d, a
  <2>5. /\ [row[j] EXCEPT !.due = d, !.age = a] \in Row
        /\ [row[j] EXCEPT !.due = d, !.age = a].status = row[j].status
    BY <2>1, <2>2, <2>3, SetDueAge, Zenon
  <2> QED
    BY <2>4, <2>5
<1>4. row' \in [Jobs -> Row] /\ RowsKept
  BY <1>1, <1>3 DEF Tick, RowsKept
<1> QED
  BY <1>2, <1>4, RowsOnlyOK DEF Tick

----------------------------------------------------------------------------
LEMMA StepOK == Inv /\ [JobsNext]_jobVars => Inv'
<1> SUFFICES ASSUME Inv, [JobsNext]_jobVars PROVE Inv'
  OBVIOUS
<1>1. ASSUME NEW j \in Jobs, NEW delay \in 0..1, enqueue(j, delay) PROVE Inv'
  BY <1>1, EnqueueOK
<1>2. ASSUME NEW s \in Slots, Dispatch(s) PROVE Inv'
  BY <1>2, LockOK, HandlerOK, DeleteDoneOK, RetryOK, BuryOK, MarkFailedOK DEF Dispatch
<1>3. ASSUME NEW s \in Slots, StatementFails(s) PROVE Inv'
  BY <1>3, StatementFailsOK
<1>4. ASSUME NEW s \in Slots, NEW j \in Jobs, Poll(s, j) PROVE Inv'
  BY <1>4, PollOK
<1>5. ASSUME NEW w \in Workers, \/ Heartbeat(w) \/ HeartbeatFails(w) \/ Reap(w)
                                \/ Stop(w) \/ Start(w) \/ Crash(w)
      PROVE  Inv'
  BY <1>5, HeartbeatOK, HeartbeatFailsOK, ReapOK, StopStartOK, CrashOK
<1>6. ASSUME NEW n \in 0..1, pruneDeadLetterQueue(n) PROVE Inv'
  BY <1>6, PruneOK
<1>7. CASE Tick
  BY <1>7, TickOK
<1>8. CASE UNCHANGED jobVars
  <2>1. row \in [Jobs -> Row] /\ beat \in [Workers -> 0..heartbeatInterval]
    BY DEF Inv, TypeInv, JobsTypeOK, Row
  <2> QED
    BY <1>8, <2>1, RowsOnlyOK DEF jobVars, RowsKept, beats
<1> QED
  BY <1>1, <1>2, <1>3, <1>4, <1>5, <1>6, <1>7, <1>8 DEF JobsNext

(* Rows, dispatches and heartbeats of queue.ts stay within their types: in *)
(* particular no row's attempts reach maxAttempts, since _handleFailure    *)
(* buries the job instead.                                                 *)
THEOREM JobsTypeCorrect == JobsSpec => []JobsTypeOK
<1>1. Inv => JobsTypeOK
  BY DEF Inv, TypeInv
<1> QED
  BY <1>1, InitOK, StepOK, PTL DEF JobsSpec

(* An accepted job keeps its row until a handler has completed it or its   *)
(* dead letter is written, for any number of workers that dispatch it at   *)
(* once, crash, stop, or have statements fail.                             *)
THEOREM NoJobIsLost == JobsSpec => []NoJobLost
<1>1. Inv => NoJobLost
  BY DEF Inv
<1> QED
  BY <1>1, InitOK, StepOK, PTL DEF JobsSpec

----------------------------------------------------------------------------
(***************************************************************************)
(* The retry policy of a job that is never dispatched twice at once.       *)
(*                                                                         *)
(* PolicyKept speaks of dead letters and failures; what keeps it is that a *)
(* dispatch has the row to itself, with the attempts it read still those   *)
(* of the row (Single), that a buried job has no row to be polled again    *)
(* (Buried), and that a failure is in the row's attempts as soon as the    *)
(* dispatch that met it has ended, unless a crash or a failed statement    *)
(* ended it (Counted).                                                     *)
(***************************************************************************)
On(s, j) == slot[s].job = j
Dead(j) == \E i \in 1..Len(dlq) : dlq[i] = j
Once(j) == \A i, k \in 1..Len(dlq) : dlq[i] = j /\ dlq[k] = j => i = k
Failing(j) == \E s \in Slots : On(s, j) /\ slot[s].pc \in {"retry", "bury"}

Known(j) ==
  /\ row[j].status # "none" \/ Dead(j) \/ j \in succeeded \/ (\E s \in Slots : On(s, j))
       => j \in accepted
  /\ j \notin accepted => failures[j] = 0

Single(j) ==
  /\ \A r, s \in Slots : On(r, j) /\ On(s, j) => r = s
  /\ \A s \in Slots : On(s, j) => row[j].status # "none" /\ slot[s].attempt = row[j].attempts

Buried(j) == Once(j) /\ (Dead(j) => row[j].status = "none")

Counted(j) ==
  /\ row[j].status = "none" => failures[j] <= crashes + faults + maxAttempts
  /\ row[j].status # "none" => failures[j] <= crashes + faults + row[j].attempts + 1
  /\ row[j].status # "none" /\ ~Failing(j) => failures[j] <= crashes + faults + row[j].attempts

Handled(j) ==
  crashes + faults = 0 /\ j \in succeeded =>
    /\ ~Dead(j)
    /\ row[j].status # "none" => \E s \in Slots : On(s, j) /\ slot[s].pc = "delete"

PolicyOK(j) == Known(j) /\ (j \notin overlap => Single(j) /\ Buried(j) /\ Counted(j) /\ Handled(j))

PolicyTypes ==
  /\ failures \in [Jobs -> Nat] /\ crashes \in Nat /\ faults \in Nat
  /\ \A s \in Slots : slot[s].pc = "idle" => slot[s].job = None

PolicyInv == PolicyTypes /\ \A j \in Jobs : PolicyOK(j)

----------------------------------------------------------------------------
(* A step that does not concern job k.                                     *)
Spares(k) ==
  /\ row'[k].status = "none" <=> row[k].status = "none"
  /\ row'[k].attempts = row[k].attempts /\ failures'[k] = failures[k]
  /\ \A t \in Slots : (slot'[t].job = k <=> On(t, k)) /\ (On(t, k) => slot'[t] = slot[t])
  /\ k \in succeeded' <=> k \in succeeded
  /\ k \in accepted' <=> k \in accepted
  /\ Dead(k)' => Dead(k)
  /\ Once(k) => Once(k)'
  /\ crashes' \in Nat /\ faults' \in Nat /\ crashes <= crashes' /\ faults <= faults'
  /\ overlap \subseteq overlap'

LEMMA SparesKeeps ==
  ASSUME TypeInv, PolicyTypes, NEW k \in Jobs, PolicyOK(k), Spares(k)
  PROVE  PolicyOK(k)'
<1>t. row[k].attempts \in Nat /\ failures[k] \in Nat /\ crashes \in Nat /\ faults \in Nat
      /\ maxAttempts \in Nat
  BY JobsAssumption DEF TypeInv, JobsTypeOK, PolicyTypes
<1>1. Known(k)'
  BY DEF PolicyOK, Known, Spares, On
<1>2. ASSUME k \notin overlap' PROVE Single(k)' /\ Buried(k)' /\ Counted(k)' /\ Handled(k)'
  <2>0. Single(k) /\ Buried(k) /\ Counted(k) /\ Handled(k)
    BY <1>2 DEF PolicyOK, Spares
  <2>1. Single(k)'
    BY <2>0 DEF Single, Spares, On
  <2>2. Buried(k)'
    BY <2>0 DEF Buried, Spares
  <2>3. Failing(k)' <=> Failing(k)
    BY DEF Failing, Spares, On
  <2>4. Counted(k)'
    BY <2>0, <2>3, <1>t DEF Counted, Spares
  <2>5. Handled(k)'
    BY <2>0, <1>t DEF Handled, Spares, On
  <2> QED BY <2>1, <2>2, <2>4, <2>5
<1> QED BY <1>1, <1>2 DEF PolicyOK

LEMMA SameDlq ==
  ASSUME dlq' = dlq
  PROVE  \A k : (Dead(k)' <=> Dead(k)) /\ (Once(k)' <=> Once(k))
BY DEF Dead, Once

LEMMA AppendDlq ==
  ASSUME dlq \in Seq(Jobs), NEW j \in Jobs, dlq' = Append(dlq, j)
  PROVE  /\ \A k : k # j => (Dead(k)' => Dead(k)) /\ (Once(k) => Once(k)')
         /\ ~Dead(j) => Once(j)'
<1>1. /\ Len(dlq) \in Nat /\ Len(dlq') = Len(dlq) + 1 /\ dlq'[Len(dlq) + 1] = j
      /\ \A i \in 1..Len(dlq) : dlq'[i] = dlq[i]
  OBVIOUS
<1>2. \A i \in 1..Len(dlq') : i = Len(dlq) + 1 \/ i \in 1..Len(dlq)
  BY <1>1
<1>3. \A k : k # j => (Dead(k)' => Dead(k))
  BY <1>1, <1>2 DEF Dead
<1>4. \A k : k # j /\ Once(k) => Once(k)'
  BY <1>1, <1>2 DEF Once
<1>5. ~Dead(j) => Once(j)'
  BY <1>1, <1>2 DEF Dead, Once
<1> QED BY <1>3, <1>4, <1>5

LEMMA PruneDlq ==
  ASSUME dlq \in Seq(Jobs), NEW n \in 0..1, Len(dlq) > n,
         dlq' = SubSeq(dlq, Len(dlq) - n + 1, Len(dlq))
  PROVE  \A k : (Dead(k)' => Dead(k)) /\ (Once(k) => Once(k)')
<1> DEFINE gone == Len(dlq) - n
<1>1. Len(dlq) \in Nat /\ gone \in Nat /\ gone + n = Len(dlq)
  OBVIOUS
<1>2. Len(dlq') = n /\ \A i \in 1..n : dlq'[i] = dlq[gone + i] /\ gone + i \in 1..Len(dlq)
  BY <1>1
<1>3. \A k : Dead(k)' => Dead(k)
  BY <1>2 DEF Dead
<1>4. ASSUME NEW k, Once(k), NEW i \in 1..n, NEW m \in 1..n, dlq'[i] = k, dlq'[m] = k
      PROVE  i = m
  BY <1>1, <1>2, <1>4 DEF Once
<1> QED BY <1>2, <1>3, <1>4 DEF Once

(* A step of the dispatch in slot s, which has job j, spares the others.   *)
LEMMA DispatchSpares ==
  ASSUME Inv, PolicyTypes, NEW s \in Slots, NEW j \in Jobs, slot[s].job \in {j, None},
         slot'[s].job \in {j, None}, \A t \in Slots \ {s} : slot'[t] = slot[t],
         \A k \in Jobs \ {j} : row'[k] = row[k] /\ failures'[k] = failures[k],
         succeeded' \in {succeeded, succeeded \cup {j}},
         accepted' = accepted, overlap \subseteq overlap',
         dlq' = dlq \/ dlq' = Append(dlq, j), crashes' = crashes,
         faults' \in {faults, faults + 1},
         NEW k \in Jobs, k # j
  PROVE  Spares(k)
<1>1. dlq \in Seq(Jobs) /\ k # None
  BY JobsAssumption DEF Inv, TypeInv, JobsTypeOK
<1>2. (Dead(k)' => Dead(k)) /\ (Once(k) => Once(k)')
  BY <1>1, SameDlq, AppendDlq
<1>3. \A t \in Slots : (slot'[t].job = k <=> On(t, k)) /\ (On(t, k) => slot'[t] = slot[t])
  BY <1>1 DEF On
<1> QED BY <1>2, <1>3 DEF Spares, PolicyTypes

(* The dispatch ends, or goes on to another place.                         *)
Ends(s) == slot'[s] = Free /\ \A t \in Slots \ {s} : slot'[t] = slot[t]
GoesOn(s, pc) ==
  /\ slot'[s].pc = pc /\ slot'[s].job = slot[s].job /\ slot'[s].attempt = slot[s].attempt
  /\ \A t \in Slots \ {s} : slot'[t] = slot[t]

LEMMA SlotSteps ==
  ASSUME Inv, NEW s \in Slots, slot[s].pc # "idle"
  PROVE  /\ slot[s].job \in Jobs /\ slot[s].job # None /\ slot[s].attempt \in Nat
         /\ Done(s) => Ends(s)
         /\ slot' = [slot EXCEPT ![s] = Free] => Ends(s)
         /\ \A pc : Step(s, pc) => GoesOn(s, pc)
<1>1. slot \in [Slots -> Slot] /\ slot[s].job \in Jobs /\ slot[s].attempt \in Nat
  BY DEF Inv, TypeInv, JobsTypeOK, Slot, SlotsOK, SlotOK
<1> QED BY <1>1, JobsAssumption DEF Done, Ends, Step, GoesOn, Slot

(* What is left to show of a step of the dispatch in slot s.               *)
LEMMA DispatchPolicy ==
  ASSUME Inv, PolicyInv, NEW s \in Slots, slot[s].pc # "idle",
         Ends(s) \/ \E pc : pc # "idle" /\ GoesOn(s, pc), NEW j \in Jobs, j = slot[s].job,
         \A k \in Jobs \ {j} : row'[k] = row[k],
         failures' \in [Jobs -> Nat], \A k \in Jobs \ {j} : failures'[k] = failures[k],
         succeeded' \in {succeeded, succeeded \cup {j}},
         UNCHANGED <<accepted, overlap, crashes>>, faults' \in {faults, faults + 1},
         dlq' = dlq \/ dlq' = Append(dlq, j),
         j \notin overlap /\ Single(j) /\ Buried(j) /\ Counted(j) /\ Handled(j)
            => Single(j)' /\ Buried(j)' /\ Counted(j)' /\ Handled(j)'
  PROVE  PolicyInv'
<1>1. \A t \in Slots \ {s} : slot'[t] = slot[t]
  BY DEF Ends, GoesOn
<1>2. slot'[s] = Free \/ (slot'[s].pc # "idle" /\ slot'[s].job = j)
  <2>1. CASE Ends(s)
    BY <2>1 DEF Ends
  <2>2. ASSUME NEW pc, pc # "idle", GoesOn(s, pc) PROVE slot'[s].pc # "idle" /\ slot'[s].job = j
    BY <2>2 DEF GoesOn
  <2> QED BY <2>1, <2>2
<1>3. Free.job = None /\ j # None
  BY JobsAssumption DEF Free
<1>4. PolicyTypes'
  BY <1>1, <1>2, <1>3 DEF PolicyInv, PolicyTypes
<1>5. ASSUME NEW k \in Jobs, k # j PROVE PolicyOK(k)'
  <2>1. Spares(k)
    BY <1>1, <1>2, <1>3, <1>5, DispatchSpares DEF PolicyInv
  <2> QED BY <2>1, SparesKeeps DEF Inv, PolicyInv
<1>6. PolicyOK(j)'
  <2>1. j \in accepted /\ PolicyOK(j)
    BY DEF PolicyInv, PolicyOK, Known, On
  <2>2. Known(j)'
    BY <2>1 DEF Known
  <2> QED BY <2>1, <2>2 DEF PolicyOK
<1> QED BY <1>4, <1>5, <1>6 DEF PolicyInv

(* A dispatch that has its job to itself, moving on or ending.             *)
LEMMA SoleMoves ==
  ASSUME NEW s \in Slots, NEW j, j # None, j = slot[s].job, Single(j)
  PROVE  /\ Ends(s) => ~Failing(j)' /\ \A t \in Slots : slot'[t].job # j
         /\ \A pc : GoesOn(s, pc) =>
              /\ Failing(j)' <=> pc \in {"retry", "bury"}
              /\ \A t \in Slots : slot'[t].job = j <=> t = s
<1>1. \A t \in Slots : On(t, j) <=> t = s
  BY DEF Single, On
<1>2. Free.job = None
  BY DEF Free
<1> QED BY <1>1, <1>2 DEF Ends, GoesOn, Failing, On

LEMMA RowTypes ==
  ASSUME Inv, PolicyInv, NEW j \in Jobs
  PROVE  /\ row[j].attempts \in Nat /\ row[j].attempts < maxAttempts /\ failures[j] \in Nat
         /\ crashes \in Nat /\ faults \in Nat /\ maxAttempts \in Nat /\ dlq \in Seq(Jobs)
         /\ row \in [Jobs -> Row]
BY JobsAssumption DEF Inv, TypeInv, JobsTypeOK, PolicyInv, PolicyTypes, Row

(* Steps that keep the row, as far as the policy goes, and the history.    *)
LEMMA LockPolicy ==
  ASSUME Inv, PolicyInv, NEW s \in Slots, Lock(s)
  PROVE  PolicyInv'
<1>0. slot[s].pc = "selected" /\ Step(s, "executing") /\ UNCHANGED <<dlq, seen, counters>>
  BY DEF Lock
<1>1. PICK j \in Jobs : j = slot[s].job
  BY <1>0, SlotSteps
<1>2. GoesOn(s, "executing") /\ j # None
  BY <1>0, <1>1, SlotSteps
<1>3. /\ \A k \in Jobs \ {j} : row'[k] = row[k]
      /\ row'[j].status = "none" <=> row[j].status = "none"
      /\ row'[j].attempts = row[j].attempts
  BY <1>1, RowTypes DEF Lock, Update, Row
<1>4. ASSUME Single(j), Buried(j), Counted(j), Handled(j)
      PROVE  Single(j)' /\ Buried(j)' /\ Counted(j)' /\ Handled(j)'
  <2>1. ~Failing(j) /\ ~Failing(j)' /\ \A t \in Slots : slot'[t].job = j <=> t = s
    <3>1. ~Failing(j)
      BY <1>0, <1>1, <1>4 DEF Failing, Single, On
    <3> QED BY <1>1, <1>2, <1>4, <3>1, SoleMoves
  <2>2. Single(j)'
    BY <1>1, <1>2, <1>3, <1>4, <2>1 DEF Single, On, GoesOn
  <2>3. Buried(j)'
    BY <1>0, <1>3, <1>4, SameDlq DEF Buried
  <2>4. Counted(j)'
    BY <1>0, <1>3, <1>4, <2>1 DEF Counted, seen, counters
  <2>5. Handled(j)'
    BY <1>0, <1>1, <1>3, <1>4, SameDlq DEF Handled, seen, counters, Single, On
  <2> QED BY <2>2, <2>3, <2>4, <2>5
<1> QED BY <1>0, <1>1, <1>2, <1>3, <1>4, DispatchPolicy DEF seen, counters, PolicyInv, PolicyTypes

LEMMA SucceedsPolicy ==
  ASSUME Inv, PolicyInv, NEW s \in Slots, HandlerSucceeds(s)
  PROVE  PolicyInv'
<1>0. /\ slot[s].pc = "executing" /\ Step(s, "delete") /\ UNCHANGED <<row, dlq, failures, counters>>
      /\ succeeded' = succeeded \cup {slot[s].job} /\ UNCHANGED <<accepted, overlap>>
  BY DEF HandlerSucceeds
<1>1. PICK j \in Jobs : j = slot[s].job
  BY <1>0, SlotSteps
<1>2. GoesOn(s, "delete") /\ j # None
  BY <1>0, <1>1, SlotSteps
<1>4. ASSUME Single(j), Buried(j), Counted(j), Handled(j)
      PROVE  Single(j)' /\ Buried(j)' /\ Counted(j)' /\ Handled(j)'
  <2>1. ~Failing(j) /\ ~Failing(j)' /\ \A t \in Slots : slot'[t].job = j <=> t = s
    <3>1. ~Failing(j)
      BY <1>0, <1>1, <1>4 DEF Failing, Single, On
    <3> QED BY <1>1, <1>2, <1>4, <3>1, SoleMoves
  <2>2. Single(j)'
    BY <1>0, <1>1, <1>2, <1>4, <2>1 DEF Single, On, GoesOn
  <2>3. Buried(j)'
    BY <1>0, <1>4, SameDlq DEF Buried
  <2>4. Counted(j)'
    BY <1>0, <1>4, <2>1 DEF Counted, counters
  <2>5. Handled(j)'
    <3>1. ~Dead(j)'
      BY <1>0, <1>1, <1>4, SameDlq DEF Single, Buried, On
    <3>2. slot'[s].job = j /\ slot'[s].pc = "delete"
      BY <1>1, <1>2 DEF GoesOn
    <3> QED BY <3>1, <3>2 DEF Handled, On
  <2> QED BY <2>2, <2>3, <2>4, <2>5
<1> QED BY <1>0, <1>1, <1>2, <1>4, DispatchPolicy DEF counters, PolicyInv, PolicyTypes

LEMMA FailsPolicy ==
  ASSUME Inv, PolicyInv, NEW s \in Slots, HandlerFails(s)
  PROVE  PolicyInv'
<1>0. /\ slot[s].pc = "executing" /\ Step(s, FailurePc(s))
      /\ UNCHANGED <<row, dlq, succeeded, accepted, overlap, counters>>
      /\ failures' = [failures EXCEPT ![slot[s].job] = @ + 1]
  BY DEF HandlerFails
<1>1. PICK j \in Jobs : j = slot[s].job
  BY <1>0, SlotSteps
<1>2. PICK pc \in {"retry", "bury"} : GoesOn(s, pc)
  BY <1>0, SlotSteps, FailurePcTyped DEF Inv
<1>3. /\ failures' \in [Jobs -> Nat] /\ failures'[j] = failures[j] + 1 /\ j # None
      /\ \A k \in Jobs \ {j} : failures'[k] = failures[k]
  BY <1>0, <1>1, SlotSteps DEF PolicyInv, PolicyTypes
<1>4. ASSUME Single(j), Buried(j), Counted(j), Handled(j)
      PROVE  Single(j)' /\ Buried(j)' /\ Counted(j)' /\ Handled(j)'
  <2>1. ~Failing(j) /\ Failing(j)' /\ \A t \in Slots : slot'[t].job = j <=> t = s
    <3>1. ~Failing(j)
      BY <1>0, <1>1, <1>4 DEF Failing, Single, On
    <3> QED BY <1>1, <1>2, <1>3, <1>4, <3>1, SoleMoves
  <2>2. Single(j)'
    BY <1>0, <1>1, <1>2, <1>4, <2>1 DEF Single, On, GoesOn
  <2>3. Buried(j)'
    BY <1>0, <1>4, SameDlq DEF Buried
  <2>4. Counted(j)'
    <3>1. row[j].status # "none"
      BY <1>1, <1>4 DEF Single, On
    <3> QED BY <1>0, <1>3, <1>4, <2>1, <3>1, RowTypes DEF Counted, counters
  <2>5. Handled(j)'
    BY <1>0, <1>1, <1>4, SameDlq DEF Handled, counters, Single, On
  <2> QED BY <2>2, <2>3, <2>4, <2>5
<1> QED BY <1>0, <1>1, <1>2, <1>3, <1>4, DispatchPolicy DEF counters

(* Steps that end the dispatch and delete the row.                         *)
LEMMA DeletedRow ==
  ASSUME Inv, NEW j \in Jobs, Delete(j)
  PROVE  row'[j].status = "none" /\ \A k \in Jobs \ {j} : row'[k] = row[k]
BY DEF Delete, NoRow, Inv, TypeInv, JobsTypeOK

LEMMA DeletePolicy ==
  ASSUME Inv, PolicyInv, NEW s \in Slots, DeleteDone(s)
  PROVE  PolicyInv'
<1>0. /\ slot[s].pc = "delete" /\ Delete(slot[s].job) /\ Done(s)
      /\ UNCHANGED <<dlq, seen, counters>>
  BY DEF DeleteDone
<1>1. PICK j \in Jobs : j = slot[s].job
  BY <1>0, SlotSteps
<1>2. Ends(s) /\ j # None
  BY <1>0, <1>1, SlotSteps
<1>3. row'[j].status = "none" /\ \A k \in Jobs \ {j} : row'[k] = row[k]
  BY <1>0, <1>1, DeletedRow
<1>4. ASSUME Single(j), Buried(j), Counted(j), Handled(j)
      PROVE  Single(j)' /\ Buried(j)' /\ Counted(j)' /\ Handled(j)'
  <2>1. \A t \in Slots : slot'[t].job # j
    BY <1>1, <1>2, <1>4, SoleMoves
  <2>2. Single(j)'
    BY <2>1 DEF Single, On
  <2>3. Buried(j)'
    BY <1>0, <1>3, <1>4, SameDlq DEF Buried
  <2>4. Counted(j)'
    <3>1. row[j].status # "none" /\ ~Failing(j)
      BY <1>0, <1>1, <1>4 DEF Single, On, Failing
    <3> QED BY <1>0, <1>3, <1>4, <3>1, RowTypes DEF Counted, seen, counters
  <2>5. Handled(j)'
    BY <1>0, <1>3, <1>4, SameDlq DEF Handled, seen, counters
  <2> QED BY <2>2, <2>3, <2>4, <2>5
<1> QED BY <1>0, <1>1, <1>2, <1>3, <1>4, DispatchPolicy DEF seen, counters, PolicyInv, PolicyTypes

LEMMA BuryPolicy ==
  ASSUME Inv, PolicyInv, NEW s \in Slots, Bury(s)
  PROVE  PolicyInv'
<1>0. /\ slot[s].pc = "bury" /\ Delete(slot[s].job) /\ Done(s)
      /\ dlq' = Append(dlq, slot[s].job) /\ UNCHANGED <<seen, counters>>
  BY DEF Bury
<1>1. PICK j \in Jobs : j = slot[s].job
  BY <1>0, SlotSteps
<1>2. Ends(s) /\ j # None
  BY <1>0, <1>1, SlotSteps
<1>3. row'[j].status = "none" /\ \A k \in Jobs \ {j} : row'[k] = row[k]
  BY <1>0, <1>1, DeletedRow
<1>4. ASSUME Single(j), Buried(j), Counted(j), Handled(j)
      PROVE  Single(j)' /\ Buried(j)' /\ Counted(j)' /\ Handled(j)'
  <2>0. row[j].status # "none" /\ ~Dead(j)
    BY <1>1, <1>4 DEF Single, Buried, On
  <2>1. \A t \in Slots : slot'[t].job # j
    BY <1>1, <1>2, <1>4, SoleMoves
  <2>2. Single(j)'
    BY <2>1 DEF Single, On
  <2>3. Buried(j)'
    BY <1>0, <1>1, <1>3, <2>0, RowTypes, AppendDlq DEF Buried
  <2>4. Counted(j)'
    BY <1>0, <1>3, <1>4, <2>0, RowTypes DEF Counted, seen, counters
  <2>5. Handled(j)'
    BY <1>0, <1>1, <1>4, <2>0 DEF Handled, seen, counters, Single, On
  <2> QED BY <2>2, <2>3, <2>4, <2>5
<1> QED BY <1>0, <1>1, <1>2, <1>3, <1>4, DispatchPolicy DEF seen, counters, PolicyInv, PolicyTypes

LEMMA RetryPolicy ==
  ASSUME Inv, PolicyInv, NEW s \in Slots, NEW delay \in 0..BackoffMax, Retry(s, delay)
  PROVE  PolicyInv'
<1>0. /\ slot[s].pc = "retry" /\ Done(s) /\ UNCHANGED <<dlq, seen, counters>>
  BY DEF Retry
<1>1. PICK j \in Jobs : j = slot[s].job
  BY <1>0, SlotSteps
<1>2. Ends(s) /\ j # None
  BY <1>0, <1>1, SlotSteps
<1>3. /\ \A k \in Jobs \ {j} : row'[k] = row[k]
      /\ row[j].status # "none" => row'[j].status # "none" /\ row'[j].attempts = slot[s].attempt + 1
  BY <1>1, RowTypes DEF Retry, Update
<1>4. ASSUME Single(j), Buried(j), Counted(j), Handled(j)
      PROVE  Single(j)' /\ Buried(j)' /\ Counted(j)' /\ Handled(j)'
  <2>0. row[j].status # "none" /\ slot[s].attempt = row[j].attempts /\ ~Dead(j)
    BY <1>1, <1>4 DEF Single, Buried, On
  <2>1. \A t \in Slots : slot'[t].job # j
    BY <1>1, <1>2, <1>4, SoleMoves
  <2>2. Single(j)'
    BY <2>1 DEF Single, On
  <2>3. Buried(j)'
    BY <1>0, <1>4, <2>0, SameDlq DEF Buried
  <2>4. Counted(j)'
    <3>1. row'[j].status # "none" /\ row'[j].attempts = row[j].attempts + 1
      BY <1>3, <2>0
    <3>2. failures'[j] = failures[j] /\ crashes' = crashes /\ faults' = faults
      BY <1>0 DEF seen, counters
    <3>3. failures[j] <= crashes + faults + row[j].attempts + 1
      BY <1>4, <2>0 DEF Counted
    <3>4. /\ failures[j] <= crashes + faults + (row[j].attempts + 1)
          /\ failures[j] <= crashes + faults + (row[j].attempts + 1) + 1
      BY <3>3, RowTypes
    <3> QED BY <3>1, <3>2, <3>4 DEF Counted
  <2>5. Handled(j)'
    BY <1>0, <1>1, <1>4, <2>0 DEF Handled, seen, counters, Single, On
  <2> QED BY <2>2, <2>3, <2>4, <2>5
<1> QED BY <1>0, <1>1, <1>2, <1>3, <1>4, DispatchPolicy DEF seen, counters, PolicyInv, PolicyTypes

LEMMA MarkPolicy ==
  ASSUME Inv, PolicyInv, NEW s \in Slots, MarkFailed(s)
  PROVE  PolicyInv'
<1>0. /\ slot[s].pc = "markFailed" /\ Done(s) /\ UNCHANGED <<dlq, seen, counters>>
  BY DEF MarkFailed
<1>1. PICK j \in Jobs : j = slot[s].job
  BY <1>0, SlotSteps
<1>2. Ends(s) /\ j # None
  BY <1>0, <1>1, SlotSteps
<1>3. /\ \A k \in Jobs \ {j} : row'[k] = row[k]
      /\ row'[j].status = "none" <=> row[j].status = "none"
      /\ row'[j].attempts = row[j].attempts
  BY <1>1, RowTypes DEF MarkFailed, Update, Row
<1>4. ASSUME Single(j), Buried(j), Counted(j), Handled(j)
      PROVE  Single(j)' /\ Buried(j)' /\ Counted(j)' /\ Handled(j)'
  <2>0. row[j].status # "none" /\ ~Failing(j)
    BY <1>0, <1>1, <1>4 DEF Single, On, Failing
  <2>1. ~Failing(j)' /\ \A t \in Slots : slot'[t].job # j
    BY <1>1, <1>2, <1>4, SoleMoves
  <2>2. Single(j)'
    BY <2>1 DEF Single, On
  <2>3. Buried(j)'
    BY <1>0, <1>3, <1>4, SameDlq DEF Buried
  <2>4. Counted(j)'
    BY <1>0, <1>3, <1>4, <2>0, <2>1 DEF Counted, seen, counters
  <2>5. Handled(j)'
    BY <1>0, <1>1, <1>4, <2>0 DEF Handled, seen, counters, Single, On
  <2> QED BY <2>2, <2>3, <2>4, <2>5
<1> QED BY <1>0, <1>1, <1>2, <1>3, <1>4, DispatchPolicy DEF seen, counters, PolicyInv, PolicyTypes

(* A failed statement: the failure it hides, or adds, is paid for by the   *)
(* fault.                                                                  *)
LEMMA FaultPolicy ==
  ASSUME Inv, PolicyInv, NEW s \in Slots, StatementFails(s)
  PROVE  PolicyInv'
<1>0. /\ slot[s].pc # "idle" /\ faults' = faults + 1
      /\ UNCHANGED <<row, dlq, seen, crashes>>
  BY DEF StatementFails
<1>1. PICK j \in Jobs : j = slot[s].job
  BY <1>0, SlotSteps
<1>2. Ends(s) \/ \E pc : pc # "idle" /\ GoesOn(s, pc)
  <2>1. CASE slot[s].pc = "delete"
    <3>1. Step(s, FailurePc(s)) /\ FailurePc(s) # "idle"
      BY <2>1, FailurePcTyped DEF StatementFails, Inv
    <3> QED BY <1>0, <3>1, SlotSteps
  <2>2. CASE slot[s].pc = "bury"
    <3>1. Step(s, "markFailed")
      BY <2>2 DEF StatementFails
    <3> QED BY <1>0, <3>1, SlotSteps
  <2>3. CASE slot[s].pc \notin {"delete", "bury"}
    <3>1. slot' = [slot EXCEPT ![s] = Free] \/ Done(s)
      BY <2>3 DEF StatementFails
    <3> QED BY <1>0, <3>1, SlotSteps
  <2> QED BY <2>1, <2>2, <2>3
<1>3. j # None
  BY JobsAssumption
<1>4. ASSUME Single(j), Buried(j), Counted(j), Handled(j)
      PROVE  Single(j)' /\ Buried(j)' /\ Counted(j)' /\ Handled(j)'
  <2>0. row[j].status # "none"
    BY <1>1, <1>4 DEF Single, On
  <2>2. Single(j)'
    <3>1. CASE Ends(s)
      <4>1. \A t \in Slots : slot'[t].job # j
        BY <1>1, <1>3, <1>4, <3>1, SoleMoves
      <4> QED BY <4>1 DEF Single, On
    <3>2. ASSUME NEW pc, GoesOn(s, pc) PROVE Single(j)'
      <4>1. \A t \in Slots : slot'[t].job = j <=> t = s
        BY <1>1, <1>3, <1>4, <3>2, SoleMoves
      <4>2. slot'[s].attempt = row'[j].attempts /\ row'[j].status # "none"
        BY <1>0, <1>1, <1>4, <3>2 DEF Single, On, GoesOn
      <4> QED BY <4>1, <4>2 DEF Single, On
    <3> QED BY <1>2, <3>1, <3>2
  <2>3. Buried(j)'
    BY <1>0, <1>4, SameDlq DEF Buried
  <2>4. Counted(j)'
    <3>1. failures[j] <= crashes + faults + row[j].attempts + 1
      BY <1>4, <2>0 DEF Counted
    <3>2. /\ failures[j] <= crashes + (faults + 1) + row[j].attempts
          /\ failures[j] <= crashes + (faults + 1) + row[j].attempts + 1
      BY <3>1, RowTypes
    <3>3. UNCHANGED <<row, failures, crashes>>
      BY <1>0 DEF seen
    <3> QED BY <1>0, <2>0, <3>2, <3>3 DEF Counted
  <2>5. Handled(j)'
    <3>1. crashes' + faults' # 0
      BY <1>0, RowTypes
    <3> QED BY <3>1 DEF Handled
  <2> QED BY <2>2, <2>3, <2>4, <2>5
<1> QED BY <1>0, <1>1, <1>2, <1>4, DispatchPolicy DEF seen, PolicyInv, PolicyTypes

(* A poll either finds the job with nobody, or marks it as dispatched      *)
(* twice.                                                                  *)
LEMMA PollPolicy ==
  ASSUME Inv, PolicyInv, NEW s \in Slots, NEW j \in Jobs, Poll(s, j)
  PROVE  PolicyInv'
<1>0. /\ slot[s].pc = "idle" /\ row[j].status = "pending" /\ j # None
      /\ UNCHANGED <<row, dlq, accepted, succeeded, failures, counters>>
      /\ overlap' = IF \E r \in Slots : slot[r].job = j THEN overlap \cup {j} ELSE overlap
  BY JobsAssumption DEF Poll
<1>1. /\ slot'[s].pc = "selected" /\ slot'[s].job = j /\ slot'[s].attempt = row[j].attempts
      /\ \A t \in Slots \ {s} : slot'[t] = slot[t]
      /\ slot[s].job = None
  BY <1>0 DEF Poll, Inv, TypeInv, JobsTypeOK, PolicyInv, PolicyTypes
<1>2. PolicyTypes'
  BY <1>0, <1>1 DEF PolicyInv, PolicyTypes, counters
<1>3. ASSUME NEW k \in Jobs, k # j PROVE PolicyOK(k)'
  <2>1. Spares(k)
    BY <1>0, <1>1, <1>3, DispatchSpares DEF PolicyInv, counters
  <2> QED BY <2>1, SparesKeeps DEF Inv, PolicyInv
<1>4. PolicyOK(j)'
  <2>1. PolicyOK(j) /\ j \in accepted
    BY <1>0 DEF PolicyInv, PolicyOK, Known
  <2>2. Known(j)'
    BY <1>0, <2>1 DEF Known
  <2>3. ASSUME j \notin overlap' PROVE Single(j)' /\ Buried(j)' /\ Counted(j)' /\ Handled(j)'
    <3>1. j \notin overlap /\ \A r \in Slots : slot[r].job # j
      BY <1>0, <2>3
    <3>2. Single(j) /\ Buried(j) /\ Counted(j) /\ Handled(j)
      BY <2>1, <3>1 DEF PolicyOK
    <3>3. \A t \in Slots : slot'[t].job = j <=> t = s
      BY <1>1, <3>1
    <3>4. Single(j)'
      BY <1>0, <1>1, <3>3 DEF Single, On
    <3>5. Buried(j)'
      BY <1>0, <3>2, SameDlq DEF Buried
    <3>6. ~Failing(j) /\ ~Failing(j)'
      BY <1>1, <3>1, <3>3 DEF Failing, On
    <3>7. Counted(j)'
      BY <1>0, <3>2, <3>6 DEF Counted, counters
    <3>8. Handled(j)'
      BY <1>0, <3>1, <3>2, SameDlq DEF Handled, counters, On
    <3> QED BY <3>4, <3>5, <3>7, <3>8
  <2> QED BY <2>2, <2>3 DEF PolicyOK
<1> QED BY <1>2, <1>3, <1>4 DEF PolicyInv

LEMMA EnqueuePolicy ==
  ASSUME Inv, PolicyInv, NEW j \in Jobs, NEW delay \in 0..1, enqueue(j, delay)
  PROVE  PolicyInv'
<1>0. /\ j \notin accepted /\ accepted' = accepted \cup {j}
      /\ UNCHANGED <<dlq, slot, succeeded, failures, overlap, counters>>
  BY DEF enqueue
<1>1. /\ row'[j].status = "pending" /\ row'[j].attempts = 0
      /\ \A k \in Jobs \ {j} : row'[k] = row[k]
  BY RowTypes DEF enqueue, NoRow
<1>2. PolicyTypes'
  BY <1>0 DEF PolicyInv, PolicyTypes, counters
<1>3. ASSUME NEW k \in Jobs, k # j PROVE PolicyOK(k)'
  <2>1. Spares(k)
    BY <1>0, <1>1, <1>3, SameDlq DEF Spares, On, counters, PolicyInv, PolicyTypes
  <2> QED BY <2>1, SparesKeeps DEF Inv, PolicyInv
<1>4. PolicyOK(j)'
  <2>1. /\ row[j].status = "none" /\ ~Dead(j) /\ j \notin succeeded
        /\ \A s \in Slots : slot[s].job # j
        /\ failures[j] = 0
    BY <1>0 DEF PolicyInv, PolicyOK, Known, On
  <2>2. Known(j)'
    BY <1>0 DEF Known
  <2>3. Single(j)'
    BY <1>0, <2>1 DEF Single, On
  <2>4. Buried(j)'
    <3>1. ~Dead(j)'
      BY <1>0, <2>1, SameDlq
    <3> QED BY <3>1 DEF Buried, Dead, Once
  <2>5. Counted(j)'
    <3>1. failures'[j] = 0 /\ crashes' + faults' \in Nat /\ 0 <= crashes' + faults'
      BY <1>0, <2>1, RowTypes DEF counters
    <3> QED BY <1>1, <3>1 DEF Counted
  <2>6. Handled(j)'
    BY <1>0, <2>1 DEF Handled
  <2> QED BY <2>2, <2>3, <2>4, <2>5, <2>6 DEF PolicyOK
<1> QED BY <1>2, <1>3, <1>4 DEF PolicyInv

(* A crash frees the slots of a worker; the failures that had not reached  *)
(* the row are paid for by the crash.                                      *)
LEMMA CrashPolicy ==
  ASSUME Inv, PolicyInv, NEW w \in Workers, Crash(w)
  PROVE  PolicyInv'
<1>0. /\ crashes' = crashes + 1 /\ UNCHANGED <<row, dlq, seen, faults>>
      /\ UNCHANGED <<accepted, succeeded, failures, overlap>>
      /\ \A s \in Slots : slot'[s] = slot[s] \/ slot'[s] = Free
  BY DEF Crash, seen, Inv, TypeInv, JobsTypeOK
<1>1. Free.pc = "idle" /\ Free.job = None
  BY DEF Free
<1>2. PolicyTypes'
  BY <1>0, <1>1 DEF PolicyInv, PolicyTypes
<1>3. ASSUME NEW j \in Jobs PROVE PolicyOK(j)'
  <2>0. PolicyOK(j) /\ j # None
    BY JobsAssumption DEF PolicyInv
  <2>1. \A s \in Slots : slot'[s].job = j => slot[s].job = j /\ slot'[s] = slot[s]
    BY <1>0, <1>1, <2>0
  <2>2. Known(j)'
    BY <1>0, <2>0, <2>1, SameDlq DEF PolicyOK, Known, On
  <2>3. ASSUME j \notin overlap PROVE Single(j)' /\ Buried(j)' /\ Counted(j)' /\ Handled(j)'
    <3>0. Single(j) /\ Buried(j) /\ Counted(j) /\ Handled(j)
      BY <2>0, <2>3 DEF PolicyOK
    <3>1. Single(j)'
      BY <1>0, <2>1, <3>0 DEF Single, On
    <3>2. Buried(j)'
      BY <1>0, <3>0, SameDlq DEF Buried
    <3>3. Counted(j)'
      <4>1. /\ row[j].status = "none" => failures[j] <= crashes + 1 + faults + maxAttempts
            /\ row[j].status # "none" => /\ failures[j] <= crashes + 1 + faults + row[j].attempts
                                         /\ failures[j] <= crashes + 1 + faults + row[j].attempts + 1
        BY <3>0, RowTypes DEF Counted
      <4> QED BY <1>0, <4>1 DEF Counted
    <3>4. Handled(j)'
      <4>1. crashes' + faults' # 0
        BY <1>0, RowTypes
      <4> QED BY <4>1 DEF Handled
    <3> QED BY <3>1, <3>2, <3>3, <3>4
  <2> QED BY <1>0, <2>2, <2>3 DEF PolicyOK
<1> QED BY <1>2, <1>3 DEF PolicyInv

(* The clock, heartbeats, the reaper and pruning concern no job's policy.  *)
LEMMA QuietPolicy ==
  ASSUME Inv, PolicyInv,
         UNCHANGED <<slot, accepted, succeeded, failures, overlap, crashes, faults>>,
         \A k \in Jobs : /\ row'[k].status = "none" <=> row[k].status = "none"
                         /\ row'[k].attempts = row[k].attempts
                         /\ Dead(k)' => Dead(k)
                         /\ Once(k) => Once(k)'
  PROVE  PolicyInv'
<1>1. PolicyTypes'
  BY DEF PolicyInv, PolicyTypes
<1>2. ASSUME NEW k \in Jobs PROVE PolicyOK(k)'
  <2>1. Spares(k)
    BY DEF Spares, On, PolicyInv, PolicyTypes
  <2> QED BY <2>1, SparesKeeps DEF Inv, PolicyInv
<1> QED BY <1>1, <1>2 DEF PolicyInv

LEMMA NextPolicy == Inv /\ PolicyInv /\ [JobsNext]_jobVars => PolicyInv'
<1> SUFFICES ASSUME Inv, PolicyInv, [JobsNext]_jobVars PROVE PolicyInv'
  OBVIOUS
<1>t. row \in [Jobs -> Row] /\ dlq \in Seq(Jobs)
  BY DEF Inv, TypeInv, JobsTypeOK, Row
<1>1. ASSUME NEW s \in Slots, Dispatch(s) PROVE PolicyInv'
  BY <1>1, LockPolicy, SucceedsPolicy, FailsPolicy, DeletePolicy, RetryPolicy, BuryPolicy,
     MarkPolicy DEF Dispatch
<1>2. ASSUME NEW w \in Workers, Heartbeat(w) PROVE PolicyInv'
  <2>1. UNCHANGED <<dlq, slot, accepted, succeeded, failures, overlap, crashes, faults>>
    BY <1>2 DEF Heartbeat, seen, counters
  <2>2. \A k \in Jobs : /\ row'[k].status = "none" <=> row[k].status = "none"
                        /\ row'[k].attempts = row[k].attempts
    BY <1>2, <1>t DEF Heartbeat, Row
  <2> QED BY <2>1, <2>2, SameDlq, QuietPolicy
<1>3. ASSUME NEW w \in Workers, Reap(w) PROVE PolicyInv'
  <2>1. UNCHANGED <<dlq, slot, accepted, succeeded, failures, overlap, crashes, faults>>
    BY <1>3 DEF Reap, seen, counters
  <2>2. \A k \in Jobs : /\ row'[k].status = "none" <=> row[k].status = "none"
                        /\ row'[k].attempts = row[k].attempts
    BY <1>3, <1>t DEF Reap, Stale, Row
  <2> QED BY <2>1, <2>2, SameDlq, QuietPolicy
<1>4. CASE Tick
  <2>1. UNCHANGED <<dlq, slot, accepted, succeeded, failures, overlap, crashes, faults>>
    BY <1>4 DEF Tick, seen, counters
  <2>2. \A k \in Jobs : /\ row'[k].status = "none" <=> row[k].status = "none"
                        /\ row'[k].attempts = row[k].attempts
    BY <1>4, <1>t DEF Tick, Ticking, Row
  <2> QED BY <2>1, <2>2, SameDlq, QuietPolicy
<1>5. ASSUME NEW w \in Workers, Stop(w) \/ Start(w) \/ HeartbeatFails(w) PROVE PolicyInv'
  <2>1. UNCHANGED <<row, dlq, slot, accepted, succeeded, failures, overlap, crashes, faults>>
    BY <1>5 DEF Stop, Start, HeartbeatFails, seen, counters
  <2> QED BY <2>1, SameDlq, QuietPolicy
<1>6. ASSUME NEW n \in 0..1, pruneDeadLetterQueue(n) PROVE PolicyInv'
  <2>1. UNCHANGED <<row, slot, accepted, succeeded, failures, overlap, crashes, faults>>
    BY <1>6 DEF pruneDeadLetterQueue
  <2>2. \A k : (Dead(k)' => Dead(k)) /\ (Once(k) => Once(k)')
    BY <1>6, <1>t, PruneDlq DEF pruneDeadLetterQueue
  <2> QED BY <2>1, <2>2, QuietPolicy
<1>7. CASE UNCHANGED jobVars
  <2>1. UNCHANGED <<row, dlq, slot, accepted, succeeded, failures, overlap, crashes, faults>>
    BY <1>7 DEF jobVars, seen, counters
  <2> QED BY <2>1, SameDlq, QuietPolicy
<1> QED BY <1>1, <1>2, <1>3, <1>4, <1>5, <1>6, <1>7, EnqueuePolicy, PollPolicy, FaultPolicy,
           CrashPolicy DEF JobsNext

LEMMA InitPolicy == JobsInit => PolicyInv
<1> SUFFICES ASSUME JobsInit PROVE PolicyInv
  OBVIOUS
<1>1. /\ \A j \in Jobs : row[j].status = "none" /\ failures[j] = 0
      /\ \A s \in Slots : slot[s].job = None
      /\ dlq = <<>> /\ succeeded = {} /\ crashes = 0 /\ faults = 0
      /\ failures \in [Jobs -> Nat]
  BY DEF JobsInit, NoRow, Free
<1>2. \A j : ~Dead(j) /\ Once(j)
  BY <1>1 DEF Dead, Once
<1>3. ASSUME NEW j \in Jobs PROVE PolicyOK(j)
  <2>1. \A s \in Slots : slot[s].job # j
    BY <1>1, JobsAssumption
  <2>2. Known(j) /\ Single(j) /\ Buried(j) /\ Handled(j)
    BY <1>1, <1>2, <2>1 DEF Known, Single, Buried, Handled, On
  <2>3. Counted(j)
    BY <1>1, JobsAssumption DEF Counted
  <2> QED BY <2>2, <2>3 DEF PolicyOK
<1> QED BY <1>1, <1>3 DEF PolicyInv, PolicyTypes

(* A job that is never dispatched twice at once gets at most one dead      *)
(* letter, is tried at most maxAttempts times plus once for each crash and *)
(* failed statement, and without those is never both handled and buried,   *)
(* however _handleFailure, the reaper and the polls interleave.            *)
THEOREM RetryPolicyKept == JobsSpec => []PolicyKept
<1>1. Inv /\ PolicyInv => PolicyKept
  <2> SUFFICES ASSUME Inv, PolicyInv, NEW j \in Jobs \ overlap
               PROVE  /\ Cardinality({i \in 1..Len(dlq) : dlq[i] = j}) <= 1
                      /\ failures[j] <= maxAttempts + crashes + faults
                      /\ (crashes + faults = 0 /\ j \in succeeded) =>
                           \A i \in 1..Len(dlq) : dlq[i] # j
    BY DEF PolicyKept
  <2>0. Once(j) /\ Counted(j) /\ Handled(j)
    BY DEF PolicyInv, PolicyOK, Buried
  <2>1. Cardinality({i \in 1..Len(dlq) : dlq[i] = j}) <= 1
    <3> DEFINE places == {i \in 1..Len(dlq) : dlq[i] = j}
    <3>1. CASE places = {}
      BY <3>1, FS_EmptySet
    <3>2. ASSUME NEW i \in places PROVE Cardinality(places) <= 1
      <4>1. \A h \in places : h = i
        BY <2>0, <3>2 DEF Once
      <4>2. places = {i}
        BY <3>2, <4>1
      <4>3. Cardinality({i}) = 1
        BY FS_Singleton
      <4> HIDE DEF places
      <4>4. Cardinality(places) = 1
        BY <4>2, <4>3
      <4> QED BY <4>4
    <3> QED BY <3>1, <3>2
  <2>2. failures[j] <= maxAttempts + crashes + faults
    BY <2>0, RowTypes DEF Counted
  <2>3. (crashes + faults = 0 /\ j \in succeeded) => \A i \in 1..Len(dlq) : dlq[i] # j
    BY <2>0 DEF Handled, Dead
  <2> QED BY <2>1, <2>2, <2>3
<1> QED BY <1>1, InitOK, StepOK, InitPolicy, NextPolicy, PTL DEF JobsSpec

----------------------------------------------------------------------------
(***************************************************************************)
(* The reaper and the heartbeats.                                          *)
(*                                                                         *)
(* A job that one dispatch has to itself, and whose worker was not stopped *)
(* with it, is in the inFlight of its worker, and a row that is marked as  *)
(* running by that worker is not older than the worker's silence: the time *)
(* since its last heartbeat that did not fail.                             *)
(***************************************************************************)
Silence(w) == missed[w] * heartbeatInterval + beat[w]

Working(s) == slot[s].pc \notin {"idle", "selected"}
BeatOK(s) ==
  LET j == slot[s].job w == WorkerOf[s] IN
  Working(s) /\ j \notin overlap \cup left =>
    /\ j \in inFlight[w]
    /\ row[j].status = "running" /\ row[j].worker = w => row[j].age <= Silence(w)

(* A worker that is stopped has only jobs it was stopped with.             *)
StartedOK(s) == slot[s].pc # "idle" /\ slot[s].job \notin left => started[WorkerOf[s]]

BeatInv == missed \in [Workers -> Nat] /\ \A s \in Slots : BeatOK(s)
StartedInv == \A s \in Slots : StartedOK(s)

LEMMA BeatTypes ==
  ASSUME Inv
  PROVE  /\ row \in [Jobs -> Row] /\ slot \in [Slots -> Slot]
         /\ beat \in [Workers -> 0..heartbeatInterval] /\ heartbeatInterval \in Nat
         /\ inFlight \in [Workers -> SUBSET Jobs] /\ WorkerOf \in [Slots -> Workers]
         /\ \A s \in Slots : slot[s].pc # "idle" => slot[s].job \in Jobs
  BY JobsAssumption DEF Inv, TypeInv, JobsTypeOK, Row, Slot, SlotsOK, SlotOK

LEMMA SameSilence ==
  ASSUME UNCHANGED <<beat, missed>>
  PROVE  \A w : Silence(w)' = Silence(w)
  BY DEF Silence

LEMMA SilenceTyped ==
  ASSUME Inv, BeatInv, NEW w \in Workers
  PROVE  /\ Silence(w) \in Nat
         /\ beat[w] \in Nat /\ beat[w] <= heartbeatInterval
         /\ Silence(w) <= (missed[w] + 1) * heartbeatInterval
  <1>1. missed[w] \in Nat /\ beat[w] \in 0..heartbeatInterval /\ heartbeatInterval \in Nat
    BY BeatTypes DEF BeatInv
  <1>2. \A m, h \in Nat : m * h \in Nat /\ (m + 1) * h = m * h + h
    OBVIOUS
  <1> DEFINE q == missed[w] * heartbeatInterval
  <1>3. q \in Nat /\ (missed[w] + 1) * heartbeatInterval = q + heartbeatInterval
    BY <1>1, <1>2
  <1> HIDE DEF q
  <1>4. Silence(w) = q + beat[w]
    BY DEF Silence, q
  <1> QED BY <1>1, <1>3, <1>4

(* A dispatch that has its job to itself is not concerned by a step of     *)
(* another.                                                                *)
LEMMA OthersBeat ==
  ASSUME Inv, PolicyInv, NEW s \in Slots, slot[s].pc # "idle", NEW t \in Slots, t # s, BeatOK(t),
         slot'[t] = slot[t], UNCHANGED <<beat, missed, left, overlap>>,
         \A k \in Jobs : k # slot[s].job => row'[k] = row[k],
         \A w \in Workers, k \in Jobs : k # slot[s].job /\ k \in inFlight[w] => k \in inFlight'[w]
  PROVE  BeatOK(t)'
<1> SUFFICES ASSUME Working(t), slot[t].job \notin overlap \cup left PROVE BeatOK(t)'
  BY DEF BeatOK, Working
<1> DEFINE j == slot[t].job
<1>1. j \in Jobs /\ WorkerOf[t] \in Workers
  BY BeatTypes DEF Working
<1>2. j # slot[s].job
  BY <1>1 DEF PolicyInv, PolicyOK, Single, On
<1> QED BY <1>1, <1>2, SameSilence DEF BeatOK, Working

(* The end of a dispatch, or a step that changes neither the rows nor what *)
(* is in flight.                                                           *)
LEMMA EndBeat ==
  ASSUME Inv, PolicyInv, BeatInv, NEW s \in Slots, slot[s].pc # "idle", Done(s),
         \A k \in Jobs : k # slot[s].job => row'[k] = row[k],
         UNCHANGED <<started, beat, missed, left, overlap>>
  PROVE  BeatInv'
<1>1. Ends(s) /\ inFlight' = [inFlight EXCEPT ![WorkerOf[s]] = @ \ {slot[s].job}]
  BY SlotSteps DEF Done
<1>2. \A w \in Workers, k \in Jobs : k # slot[s].job /\ k \in inFlight[w] => k \in inFlight'[w]
  BY <1>1, BeatTypes
<1>3. ASSUME NEW t \in Slots PROVE BeatOK(t)'
  <2>1. CASE t = s
    BY <1>1, <2>1 DEF BeatOK, Working, Ends, Free
  <2>2. CASE t # s
    <3>1. BeatOK(t) /\ slot'[t] = slot[t]
      BY <1>1, <1>3, <2>2 DEF BeatInv, Ends
    <3> QED BY <1>2, <2>2, <3>1, OthersBeat
  <2> QED BY <2>1, <2>2
<1> QED BY <1>3 DEF BeatInv

LEMMA GoOnBeat ==
  ASSUME Inv, PolicyInv, BeatInv, NEW s \in Slots, slot[s].pc # "idle",
         \/ Ends(s)
         \/ Working(s) /\ \E pc : GoesOn(s, pc),
         UNCHANGED <<row, inFlight, started, beat, missed, left, overlap>>
  PROVE  BeatInv'
<1>1. ASSUME NEW t \in Slots PROVE BeatOK(t)'
  <2>1. BeatOK(t)
    BY <1>1 DEF BeatInv
  <2>2. CASE t = s
    <3>1. CASE Ends(s)
      BY <2>2, <3>1 DEF BeatOK, Working, Ends, Free
    <3>2. ASSUME Working(s), NEW pc, GoesOn(s, pc) PROVE BeatOK(t)'
      BY <2>1, <2>2, <3>2, SameSilence DEF BeatOK, Working, GoesOn
    <3> QED BY <3>1, <3>2
  <2>3. CASE t # s
    <3>1. slot'[t] = slot[t]
      BY <2>3 DEF Ends, GoesOn
    <3> QED BY <2>1, <3>1, SameSilence DEF BeatOK, Working
  <2> QED BY <2>2, <2>3
<1> QED BY <1>1 DEF BeatInv

LEMMA LockBeat ==
  ASSUME Inv, PolicyInv, BeatInv, NEW s \in Slots, Lock(s)
  PROVE  BeatInv'
<1> DEFINE j == slot[s].job
<1>1. /\ slot[s].pc = "selected" /\ GoesOn(s, "executing") /\ j \in Jobs
      /\ UNCHANGED <<started, beat, missed, left, overlap>>
      /\ inFlight' = [inFlight EXCEPT ![WorkerOf[s]] = @ \cup {j}]
  BY SlotSteps DEF Lock, seen, beats
<1>2. /\ \A k \in Jobs : k # j => row'[k] = row[k]
      /\ row'[j].status = "running" => row'[j].age = 0
  BY <1>1, BeatTypes DEF Lock, Update, Row
<1>3. (\A w \in Workers : inFlight[w] \subseteq inFlight'[w]) /\ j \in inFlight'[WorkerOf[s]]
  BY <1>1, BeatTypes
<1>4. ASSUME NEW t \in Slots PROVE BeatOK(t)'
  <2>1. CASE t = s
    <3>1. slot'[t].job = j /\ Silence(WorkerOf[t])' \in Nat
      BY <1>1, <2>1, BeatTypes, SameSilence, SilenceTyped DEF GoesOn
    <3> QED BY <1>2, <1>3, <2>1, <3>1 DEF BeatOK
  <2>2. CASE t # s
    <3>1. BeatOK(t) /\ slot'[t] = slot[t]
      BY <1>1, <1>4, <2>2 DEF BeatInv, GoesOn
    <3> QED BY <1>1, <1>2, <1>3, <2>2, <3>1, OthersBeat
  <2> QED BY <2>1, <2>2
<1> QED BY <1>1, <1>4 DEF BeatInv

LEMMA PollBeat ==
  ASSUME Inv, BeatInv, NEW s \in Slots, NEW j \in Jobs, Poll(s, j)
  PROVE  BeatInv'
<1>1. /\ slot' = [slot EXCEPT ![s] = [pc |-> "selected", job |-> j, attempt |-> row[j].attempts]]
      /\ overlap \subseteq overlap' /\ UNCHANGED <<row, inFlight, started, beat, missed, left>>
  BY DEF Poll, beats
<1>2. slot'[s].pc = "selected" /\ \A t \in Slots : t # s => slot'[t] = slot[t]
  BY <1>1, BeatTypes
<1>3. ASSUME NEW t \in Slots PROVE BeatOK(t)'
  BY <1>1, <1>2, <1>3, SameSilence DEF BeatInv, BeatOK, Working
<1> QED BY <1>1, <1>3 DEF BeatInv

LEMMA EnqueueBeat ==
  ASSUME Inv, BeatInv, NEW j \in Jobs, NEW delay, enqueue(j, delay)
  PROVE  BeatInv'
<1>1. /\ row' = [row EXCEPT ![j] = [NoRow EXCEPT !.status = "pending", !.due = delay]]
      /\ UNCHANGED <<slot, inFlight, started, beat, missed, left, overlap>>
  BY DEF enqueue, beats
<1>2. row'[j].status = "pending" /\ \A k \in Jobs : k # j => row'[k] = row[k]
  BY <1>1, BeatTypes DEF NoRow
<1>3. ASSUME NEW t \in Slots PROVE BeatOK(t)'
  <2>1. BeatOK(t) /\ (Working(t) => slot[t].job \in Jobs)
    BY <1>3, BeatTypes DEF BeatInv, Working
  <2> QED BY <1>1, <1>2, <2>1, SameSilence DEF BeatOK, Working
<1> QED BY <1>1, <1>3 DEF BeatInv

LEMMA FaultBeat ==
  ASSUME Inv, PolicyInv, BeatInv, NEW s \in Slots, StatementFails(s)
  PROVE  BeatInv'
<1>1. /\ slot[s].pc \in {"selected", "delete", "retry", "bury", "markFailed"}
      /\ UNCHANGED <<row, started, beat, missed, left, overlap>>
  BY DEF StatementFails, seen, beats
<1>2. CASE slot[s].pc \in {"delete", "bury"}
  <2>1. PICK pc : Step(s, pc) /\ inFlight' = inFlight
    BY <1>2 DEF StatementFails
  <2>2. Working(s) /\ GoesOn(s, pc)
    BY <1>2, <2>1, SlotSteps DEF Working
  <2> QED BY <1>1, <2>1, <2>2, GoOnBeat
<1>3. CASE slot[s].pc = "selected"
  <2>1. slot' = [slot EXCEPT ![s] = Free] /\ inFlight' = inFlight
    BY <1>3 DEF StatementFails
  <2>2. Ends(s)
    BY <1>3, <2>1, SlotSteps
  <2> QED BY <1>1, <1>3, <2>1, <2>2, GoOnBeat
<1>4. CASE slot[s].pc \in {"retry", "markFailed"}
  <2>1. Done(s)
    BY <1>4 DEF StatementFails
  <2> QED BY <1>1, <1>4, <2>1, EndBeat
<1> QED BY <1>1, <1>2, <1>3, <1>4

LEMMA DispatchBeat ==
  ASSUME Inv, PolicyInv, BeatInv, NEW s \in Slots, Dispatch(s)
  PROVE  BeatInv'
<1>1. CASE Lock(s)
  BY <1>1, LockBeat
<1>2. CASE HandlerSucceeds(s) \/ HandlerFails(s)
  <2>1. /\ slot[s].pc = "executing" /\ UNCHANGED <<row, inFlight, started, beat, missed, left, overlap>>
        /\ \E pc : Step(s, pc)
    BY <1>2 DEF HandlerSucceeds, HandlerFails, beats
  <2>2. Working(s) /\ \E pc : GoesOn(s, pc)
    BY <2>1, SlotSteps DEF Working
  <2> QED BY <2>1, <2>2, GoOnBeat
<1>3. CASE DeleteDone(s) \/ Bury(s)
  <2>1. /\ slot[s].pc # "idle" /\ Done(s) /\ Delete(slot[s].job)
        /\ UNCHANGED <<started, beat, missed, left, overlap>>
    BY <1>3 DEF DeleteDone, Bury, seen, beats
  <2>2. \A k \in Jobs : k # slot[s].job => row'[k] = row[k]
    BY <2>1, BeatTypes DEF Delete
  <2> QED BY <2>1, <2>2, EndBeat
<1>4. CASE MarkFailed(s) \/ \E delay \in 0..BackoffMax : Retry(s, delay)
  <2>1. /\ slot[s].pc # "idle" /\ Done(s) /\ UNCHANGED <<started, beat, missed, left, overlap>>
        /\ \E r : Update(slot[s].job, r)
    BY <1>4 DEF MarkFailed, Retry, seen, beats
  <2>2. \A k \in Jobs : k # slot[s].job => row'[k] = row[k]
    BY <2>1, BeatTypes DEF Update
  <2> QED BY <2>1, <2>2, EndBeat
<1> QED BY <1>1, <1>2, <1>3, <1>4 DEF Dispatch

LEMMA HeartbeatBeat ==
  ASSUME Inv, BeatInv, NEW w \in Workers, Heartbeat(w)
  PROVE  BeatInv'
<1>1. /\ beat' = [beat EXCEPT ![w] = 0] /\ missed' = [missed EXCEPT ![w] = 0]
      /\ UNCHANGED <<slot, inFlight, left, overlap>>
      /\ row' = [j \in Jobs |->
           IF row[j].status = "running" /\ row[j].worker = w /\ j \in inFlight[w]
           THEN [row[j] EXCEPT !.age = 0] ELSE row[j]]
  BY DEF Heartbeat, seen
<1>2. missed' \in [Workers -> Nat]
  BY <1>1 DEF BeatInv
<1>3. Silence(w)' = 0 /\ \A v \in Workers \ {w} : Silence(v)' = Silence(v)
  <2>1. beat'[w] = 0 /\ missed'[w] = 0
    BY <1>1, BeatTypes DEF BeatInv
  <2>2. \A v \in Workers \ {w} : beat'[v] = beat[v] /\ missed'[v] = missed[v]
    BY <1>1, BeatTypes DEF BeatInv
  <2>3. 0 * heartbeatInterval + 0 = 0
    BY BeatTypes
  <2> QED BY <2>1, <2>2, <2>3 DEF Silence
<1>4. ASSUME NEW t \in Slots, Working(t), slot[t].job \notin overlap \cup left PROVE BeatOK(t)'
  <2> DEFINE j == slot[t].job
             v == WorkerOf[t]
  <2>1. /\ j \in Jobs /\ v \in Workers /\ j \in inFlight[v] /\ row[j] \in Row
        /\ row[j].status = "running" /\ row[j].worker = v => row[j].age <= Silence(v)
    BY <1>4, BeatTypes DEF BeatInv, BeatOK, Working
  <2> HIDE DEF j, v
  <2>2. row'[j].status = row[j].status /\ row'[j].worker = row[j].worker
    BY <1>1, <2>1 DEF Row
  <2>3. row'[j].status = "running" /\ row'[j].worker = v => row'[j].age <= Silence(v)'
    <3>1. CASE v = w
      <4>1. row[j].status = "running" /\ row[j].worker = v => row'[j].age = 0
        BY <1>1, <2>1, <3>1 DEF Row
      <4> QED BY <1>3, <2>2, <3>1, <4>1
    <3>2. CASE v # w
      <4>1. row[j].worker = v => row'[j] = row[j]
        BY <1>1, <2>1, <3>2
      <4> QED BY <1>3, <2>1, <2>2, <3>2, <4>1
    <3> QED BY <3>1, <3>2
  <2> QED BY <1>1, <2>1, <2>3 DEF BeatOK, j, v
<1> QED BY <1>1, <1>2, <1>4 DEF BeatInv, BeatOK, Working

(* A failed heartbeat turns the ticks since the timer fired, an interval   *)
(* at most, into a missed one: the silence is not shortened by it.         *)
LEMMA HeartbeatFailsBeat ==
  ASSUME Inv, BeatInv, NEW w \in Workers, HeartbeatFails(w)
  PROVE  BeatInv'
<1>1. /\ beat' = [beat EXCEPT ![w] = 0] /\ missed' = [missed EXCEPT ![w] = @ + 1]
      /\ UNCHANGED <<row, slot, inFlight, left, overlap>>
  BY DEF HeartbeatFails, seen
<1>2. missed' \in [Workers -> Nat]
  BY <1>1 DEF BeatInv
<1>3. \A v \in Workers : Silence(v) <= Silence(v)' /\ Silence(v) \in Nat /\ Silence(v)' \in Nat
  <2> TAKE v \in Workers
  <2>1. Silence(v) \in Nat
    BY SilenceTyped
  <2>2. CASE v = w
    <3> DEFINE q == (missed[w] + 1) * heartbeatInterval
    <3>1. beat'[w] = 0 /\ missed'[w] = missed[w] + 1
      BY <1>1, BeatTypes DEF BeatInv
    <3>2. Silence(w) <= q /\ q \in Nat
      <4>1. \A m, h \in Nat : (m + 1) * h \in Nat
        OBVIOUS
      <4> QED BY <4>1, BeatTypes, SilenceTyped DEF BeatInv
    <3>3. Silence(w)' = q + 0
      BY <3>1 DEF Silence
    <3> HIDE DEF q
    <3> QED BY <2>1, <2>2, <3>2, <3>3
  <2>3. CASE v # w
    <3>1. beat'[v] = beat[v] /\ missed'[v] = missed[v]
      BY <1>1, <2>3, BeatTypes DEF BeatInv
    <3>2. Silence(v)' = Silence(v)
      BY <3>1 DEF Silence
    <3> QED BY <2>1, <3>2
  <2> QED BY <2>2, <2>3
<1>4. ASSUME NEW t \in Slots, Working(t), slot[t].job \notin overlap \cup left PROVE BeatOK(t)'
  <2> DEFINE j == slot[t].job
             v == WorkerOf[t]
  <2>1. /\ j \in Jobs /\ v \in Workers /\ j \in inFlight[v] /\ row[j].age \in Nat
        /\ row[j].status = "running" /\ row[j].worker = v => row[j].age <= Silence(v)
    BY <1>4, BeatTypes, JobsAssumption DEF BeatInv, BeatOK, Working, Row
  <2>2. row[j].status = "running" /\ row[j].worker = v => row[j].age <= Silence(v)'
    BY <1>3, <2>1
  <2> QED BY <1>1, <2>1, <2>2 DEF BeatOK
<1> QED BY <1>1, <1>2, <1>4 DEF BeatInv, BeatOK, Working

LEMMA ReapBeat ==
  ASSUME Inv, BeatInv, NEW w \in Workers, Reap(w)
  PROVE  BeatInv'
<1>1. /\ UNCHANGED <<slot, inFlight, beat, missed, left, overlap>>
      /\ row' = [j \in Jobs |-> IF Stale(j)
                   THEN [row[j] EXCEPT !.status = "pending", !.worker = None, !.age = 0]
                   ELSE row[j]]
  BY DEF Reap, seen, beats
<1>2. \A j \in Jobs : row'[j].status = "pending" \/ row'[j] = row[j]
  BY <1>1, BeatTypes DEF Row
<1>3. ASSUME NEW t \in Slots PROVE BeatOK(t)'
  <2>1. BeatOK(t) /\ (Working(t) => slot[t].job \in Jobs)
    BY <1>3, BeatTypes DEF BeatInv, Working
  <2> QED BY <1>1, <1>2, <2>1, SameSilence DEF BeatOK, Working
<1> QED BY <1>1, <1>3 DEF BeatInv

LEMMA CrashBeat ==
  ASSUME Inv, BeatInv, NEW w \in Workers, Crash(w)
  PROVE  BeatInv'
<1>1. /\ slot' = [s \in Slots |-> IF WorkerOf[s] = w THEN Free ELSE slot[s]]
      /\ inFlight' = [inFlight EXCEPT ![w] = {}] /\ beat' = [beat EXCEPT ![w] = 0]
      /\ missed' = [missed EXCEPT ![w] = 0] /\ UNCHANGED <<row, left, overlap>>
  BY DEF Crash, seen
<1>2. ASSUME NEW t \in Slots PROVE BeatOK(t)'
  <2>1. BeatOK(t) /\ WorkerOf[t] \in Workers
    BY <1>2, BeatTypes DEF BeatInv
  <2>2. CASE WorkerOf[t] = w
    BY <1>1, <2>2 DEF BeatOK, Working, Free
  <2>3. CASE WorkerOf[t] # w
    <3>1. slot'[t] = slot[t] /\ inFlight'[WorkerOf[t]] = inFlight[WorkerOf[t]]
      BY <1>1, <2>1, <2>3, BeatTypes
    <3>2. beat'[WorkerOf[t]] = beat[WorkerOf[t]] /\ missed'[WorkerOf[t]] = missed[WorkerOf[t]]
      BY <1>1, <2>1, <2>3, BeatTypes DEF BeatInv
    <3>3. Silence(WorkerOf[t])' = Silence(WorkerOf[t])
      BY <3>2 DEF Silence
    <3> QED BY <1>1, <2>1, <3>1, <3>3 DEF BeatOK, Working
  <2> QED BY <2>2, <2>3
<1>3. missed' \in [Workers -> Nat]
  BY <1>1 DEF BeatInv
<1> QED BY <1>2, <1>3 DEF BeatInv

LEMMA TickBeat ==
  ASSUME Inv, BeatInv, StartedInv, Tick
  PROVE  BeatInv'
<1>1. /\ beat' = [w \in Workers |-> IF started[w] /\ inFlight[w] # {} THEN beat[w] + 1 ELSE 0]
      /\ row' = [j \in Jobs |-> Ticking(j)]
      /\ UNCHANGED <<slot, inFlight, missed, left, overlap>>
  BY DEF Tick, seen
<1>2. \A j \in Jobs : /\ row'[j].status = row[j].status /\ row'[j].worker = row[j].worker
                      /\ row'[j].age <= row[j].age + 1 /\ row[j].age \in Nat /\ row'[j].age \in Nat
  <2> TAKE j \in Jobs
  <2> DEFINE r == row[j]
             due == IF r.due > 0 THEN r.due - 1 ELSE 0
             age == IF r.status = "running" /\ r.age <= staleJobThreshold THEN r.age + 1 ELSE r.age
  <2>1. r \in Row /\ r.age \in Nat
    BY BeatTypes, JobsAssumption DEF Row
  <2>2. age \in Nat /\ age <= r.age + 1
    BY <2>1
  <2>3. row'[j] = [r EXCEPT !.due = due, !.age = age]
    BY <1>1 DEF Ticking
  <2> HIDE DEF r, due, age
  <2> QED BY <2>1, <2>2, <2>3 DEF Row, r
<1>3. ASSUME NEW t \in Slots, Working(t), slot[t].job \notin overlap \cup left PROVE BeatOK(t)'
  <2> DEFINE j == slot[t].job
             v == WorkerOf[t]
             q == missed[v] * heartbeatInterval
  <2>1. /\ j \in Jobs /\ v \in Workers /\ j \in inFlight[v] /\ started[v]
        /\ row[j].status = "running" /\ row[j].worker = v => row[j].age <= Silence(v)
    BY <1>3, BeatTypes DEF BeatInv, BeatOK, StartedInv, StartedOK, Working
  <2>2. beat'[v] = beat[v] + 1 /\ beat[v] \in Nat
    BY <1>1, <2>1, SilenceTyped
  <2>3. Silence(v) = q + beat[v] /\ Silence(v)' = q + (beat[v] + 1)
    BY <1>1, <2>2 DEF Silence
  <2>4. q \in Nat
    <3>1. \A m, h \in Nat : m * h \in Nat
      OBVIOUS
    <3> QED BY <2>1, <3>1, BeatTypes DEF BeatInv
  <2> HIDE DEF q
  <2>5. row'[j].status = "running" /\ row'[j].worker = v => row'[j].age <= Silence(v)'
    BY <1>2, <2>1, <2>2, <2>3, <2>4
  <2> QED BY <1>1, <2>1, <2>5 DEF BeatOK
<1> QED BY <1>1, <1>3 DEF BeatInv, BeatOK, Working

(* The worker of a dispatch runs, or was stopped with its job.             *)
LEMMA NextStarted == Inv /\ StartedInv /\ [JobsNext]_jobVars => StartedInv'
<1> SUFFICES ASSUME Inv, StartedInv, [JobsNext]_jobVars PROVE StartedInv'
  OBVIOUS
<1>1. ASSUME NEW s \in Slots, slot[s].pc # "idle", Ends(s) \/ \E pc : GoesOn(s, pc),
             UNCHANGED <<started, left>>
      PROVE  StartedInv'
  BY <1>1 DEF StartedInv, StartedOK, Ends, GoesOn, Free
<1>2. ASSUME NEW s \in Slots, Dispatch(s) \/ StatementFails(s) PROVE StartedInv'
  <2>1. slot[s].pc # "idle" /\ UNCHANGED <<started, left>>
    BY <1>2 DEF Dispatch, Lock, HandlerSucceeds, HandlerFails, DeleteDone, Retry, Bury, MarkFailed,
       StatementFails, beats
  <2>2. \/ Done(s) \/ slot' = [slot EXCEPT ![s] = Free]
        \/ \E pc : Step(s, pc)
    BY <1>2 DEF Dispatch, Lock, HandlerSucceeds, HandlerFails, DeleteDone, Retry, Bury, MarkFailed,
       StatementFails
  <2> QED BY <1>1, <2>1, <2>2, SlotSteps
<1>3. ASSUME NEW s \in Slots, NEW j \in Jobs, Poll(s, j) PROVE StartedInv'
  <2>1. /\ slot' = [slot EXCEPT ![s] = [pc |-> "selected", job |-> j, attempt |-> row[j].attempts]]
        /\ started[WorkerOf[s]] /\ UNCHANGED <<started, left>>
    BY <1>3 DEF Poll, beats
  <2>2. \A t \in Slots : t # s => slot'[t] = slot[t]
    BY <2>1, BeatTypes
  <2> QED BY <2>1, <2>2 DEF StartedInv, StartedOK
<1>4. ASSUME NEW w \in Workers, Stop(w) PROVE StartedInv'
  <2>1. /\ started' = [started EXCEPT ![w] = FALSE] /\ slot' = slot
        /\ left' = left \cup ({slot[s].job : s \in {r \in Slots : WorkerOf[r] = w}} \ {None})
    BY <1>4 DEF Stop
  <2>2. ASSUME NEW s \in Slots, slot[s].pc # "idle", slot[s].job \notin left' PROVE started'[WorkerOf[s]]
    <3>1. slot[s].job # None
      BY <2>2, SlotSteps
    <3>2. WorkerOf[s] # w /\ slot[s].job \notin left
      BY <2>1, <2>2, <3>1
    <3> QED BY <2>1, <2>2, <3>2 DEF StartedInv, StartedOK
  <2> QED BY <2>1, <2>2 DEF StartedInv, StartedOK
<1>5. ASSUME NEW w \in Workers, Start(w) \/ Crash(w) PROVE StartedInv'
  <2>1. /\ started' = [started EXCEPT ![w] = TRUE] /\ left' = left
        /\ \A s \in Slots : slot'[s] = slot[s] \/ slot'[s] = Free
    BY <1>5, BeatTypes DEF Start, Crash
  <2>2. \A s \in Slots : started[WorkerOf[s]] => started'[WorkerOf[s]]
    BY <2>1
  <2> QED BY <2>1, <2>2 DEF StartedInv, StartedOK, Free
<1>6. ASSUME UNCHANGED <<slot, started, left>> PROVE StartedInv'
  BY <1>6 DEF StartedInv, StartedOK
<1>7. ASSUME NEW w \in Workers, Heartbeat(w) \/ HeartbeatFails(w) \/ Reap(w) PROVE StartedInv'
  BY <1>6, <1>7 DEF Heartbeat, HeartbeatFails, Reap, beats
<1>8. ASSUME NEW j \in Jobs, NEW delay, enqueue(j, delay) PROVE StartedInv'
  BY <1>6, <1>8 DEF enqueue, beats
<1>9. CASE Tick \/ UNCHANGED jobVars \/ \E n \in 0..1 : pruneDeadLetterQueue(n)
  BY <1>6, <1>9 DEF Tick, jobVars, pruneDeadLetterQueue, beats
<1> QED BY <1>2, <1>3, <1>4, <1>5, <1>7, <1>8, <1>9 DEF JobsNext

LEMMA NextBeat == Inv /\ PolicyInv /\ StartedInv /\ BeatInv /\ [JobsNext]_jobVars => BeatInv'
<1> SUFFICES ASSUME Inv, PolicyInv, StartedInv, BeatInv, [JobsNext]_jobVars PROVE BeatInv'
  OBVIOUS
<1>1. ASSUME NEW w \in Workers, Stop(w) PROVE BeatInv'
  <2>1. left \subseteq left' /\ UNCHANGED <<row, slot, inFlight, beat, missed, overlap>>
    BY <1>1 DEF Stop, seen
  <2> QED BY <2>1, SameSilence DEF BeatInv, BeatOK, Working
<1>2. ASSUME NEW w \in Workers, Start(w) PROVE BeatInv'
  <2>1. /\ ~started[w] /\ beat' = [beat EXCEPT ![w] = 0]
        /\ UNCHANGED <<row, slot, inFlight, missed, left, overlap>>
    BY <1>2 DEF Start, seen
  <2>2. ASSUME NEW t \in Slots, Working(t), slot[t].job \notin left PROVE WorkerOf[t] # w
    BY <2>1, <2>2 DEF StartedInv, StartedOK, Working
  <2>3. \A v \in Workers \ {w} : Silence(v)' = Silence(v)
    <3>1. \A v \in Workers \ {w} : beat'[v] = beat[v] /\ missed'[v] = missed[v]
      BY <2>1, BeatTypes
    <3> QED BY <3>1 DEF Silence
  <2>4. \A t \in Slots : WorkerOf[t] \in Workers
    BY BeatTypes
  <2> QED BY <2>1, <2>2, <2>3, <2>4 DEF BeatInv, BeatOK, Working
<1>3. CASE UNCHANGED jobVars \/ \E n \in 0..1 : pruneDeadLetterQueue(n)
  <2>1. UNCHANGED <<row, slot, inFlight, beat, missed, left, overlap>>
    BY <1>3 DEF jobVars, seen, beats, pruneDeadLetterQueue
  <2> QED BY <2>1, SameSilence DEF BeatInv, BeatOK, Working
<1>4. ASSUME NEW s \in Slots, Dispatch(s) \/ StatementFails(s) \/ \E j \in Jobs : Poll(s, j)
      PROVE  BeatInv'
  BY <1>4, DispatchBeat, FaultBeat, PollBeat
<1>5. ASSUME NEW w \in Workers, Heartbeat(w) \/ HeartbeatFails(w) \/ Reap(w) \/ Crash(w)
      PROVE  BeatInv'
  BY <1>5, HeartbeatBeat, HeartbeatFailsBeat, ReapBeat, CrashBeat
<1> QED BY <1>1, <1>2, <1>3, <1>4, <1>5, EnqueueBeat, TickBeat DEF JobsNext

LEMMA InitBeat == JobsInit => BeatInv /\ StartedInv
  BY DEF JobsInit, BeatInv, BeatOK, StartedInv, StartedOK, Working, Free

(* For any heartbeat interval and threshold: _reapStaleJobs never takes a  *)
(* job from a worker that executes it while the heartbeats of that worker  *)
(* that failed in a row, and one more interval, fit in the threshold (so   *)
(* three may fail with the defaults of 30 s and 120 s), unless the job was *)
(* dispatched twice or its worker stopped with it.                         *)
THEOREM OnlyOrphansReaped == JobsSpec => ReapsOnlyOrphans
<1>1. ASSUME Inv, PolicyInv, BeatInv, NEW j \in Jobs \ (overlap \cup left), NEW s \in Slots, Stale(j),
             WorkerOf[s] = row[j].worker, slot[s].job = j, Tolerated(WorkerOf[s])
      PROVE  slot[s].pc = "selected"
  <2> DEFINE q == (missed[WorkerOf[s]] + 1) * heartbeatInterval
  <2>1. /\ row[j].status = "running" /\ row[j].age > staleJobThreshold
        /\ row[j].age \in Nat /\ staleJobThreshold \in Nat
    BY <1>1, BeatTypes, JobsAssumption DEF Stale, Row
  <2>2. Silence(WorkerOf[s]) \in Nat /\ Silence(WorkerOf[s]) <= q /\ q <= staleJobThreshold /\ q \in Nat
    <3>1. \A m, h \in Nat : (m + 1) * h \in Nat
      OBVIOUS
    <3>2. WorkerOf[s] \in Workers /\ missed[WorkerOf[s]] \in Nat /\ heartbeatInterval \in Nat
      BY <1>1, BeatTypes DEF BeatInv
    <3> QED BY <1>1, <3>1, <3>2, SilenceTyped DEF Tolerated
  <2> HIDE DEF q
  <2>3. ~(row[j].age <= Silence(WorkerOf[s]))
    BY <2>1, <2>2
  <2>4. ~Working(s)
    BY <1>1, <2>1, <2>3 DEF BeatInv, BeatOK
  <2>5. slot[s].pc # "idle"
    BY <1>1, JobsAssumption DEF PolicyInv, PolicyTypes
  <2> QED BY <2>4, <2>5 DEF Working
<1>2. Inv /\ PolicyInv /\ BeatInv /\ [JobsNext]_jobVars =>
        [\A j \in Jobs \ (overlap \cup left), s \in Slots :
           /\ Stale(j) /\ row'[j].status = "pending"
           /\ WorkerOf[s] = row[j].worker /\ slot[s].job = j /\ Tolerated(WorkerOf[s])
           => slot[s].pc = "selected"]_jobVars
  BY <1>1
<1> QED BY <1>2, InitOK, StepOK, InitPolicy, NextPolicy, InitBeat, NextStarted, NextBeat, PTL
        DEF JobsSpec, ReapsOnlyOrphans
=============================================================================
