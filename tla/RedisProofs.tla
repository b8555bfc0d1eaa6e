----------------------------- MODULE RedisProofs -----------------------------
(***************************************************************************)
(* Proofs about RedisDriver, for any number of processes, jobs and queues  *)
(* and any bounds on reservations, crashes and operator calls: its types;  *)
(* and, while live processes keep their leases and one operator uses the   *)
(* dead-letter API, that no two processes have a job reserved and that     *)
(* every lost job met one of the gaps recorded in `exposed` (RedisInv).    *)
(*                                                                         *)
(* Redis is asked one command at a time, so what a process relies on is    *)
(* spread over its own place in the call and what the commands before it   *)
(* left in the store.  The invariant says, for each label, which is where. *)
(***************************************************************************)
EXTENDS RedisDriver, TLAPS

----------------------------------------------------------------------------
(* Labels, by what a process there has of a job.                           *)

(* The job is in no set of Redis: it is with the process (InHand), or with *)
(* an ack that has removed its lease.                                      *)
HandPcs == {"add", "unref", "reload", "readd", "loadDue", "addDue", "load", "persist",
            "lease", "res", "unres", "disclaim", "repersist", "requeue", "bury", "revive"}

(* The job has its lease and its reservation record, and a live process.   *)
LeasePcs == {"own", "holding", "loseRes", "unlease"}

(* The lease of the process's token is gone.                               *)
GonePcs == {"ref", "unref", "reload", "readd", "disown", "unres"}

(* The token is the process's own; it has one; it has the id of a job.      *)
UniquePcs == LeasePcs \cup GonePcs \cup {"res", "loseLease"}
TokenPcs == UniquePcs \cup {"disclaim", "bury", "delete", "take", "repersist", "requeue"}
JobPcs == (HandPcs \ {"unref"}) \cup LeasePcs
            \cup {"disown", "pop", "loseLease", "delete", "take", "purgeOwner"}

(* The types of the store and of the processes' local variables.            *)
QueueNames == {QueueOf(j) : j \in Jobs}

Ops == {"enqueue", "enqueueDelayed", "reserve", "promote", "ack", "nack", "dead",
        "retry", "purge", None}

Labels == JobPcs \cup TokenPcs \cup
            {"idle", "scan", "claim", "head", "purgeDelayed", "purgeJob", "dropReady",
             "dropDelayed"}

Call == [pc: Labels, op: Ops, at: Nat, scan: SUBSET QueueNames,
         todo: SUBSET (Tokens \cup Jobs), qi: Nat, tries: Nat, id: Jobs \cup {None},
         token: Tokens \cup {None}, attempts: Nat]

RedisTypes ==
  /\ now \in Nat /\ token \in 0..MaxToken /\ crashes \in Nat /\ calls \in Nat
  /\ queues \subseteq QueueNames
  /\ job \in [Jobs -> Nat \cup {None}]
  /\ ready \subseteq Jobs
  /\ delayed \subseteq [id: Jobs, runAt: Nat]
  /\ processing \subseteq [token: Tokens, queue: QueueNames, expires: Nat]
  /\ res \in [Tokens -> Jobs \cup {None}]
  /\ owner \in [Jobs -> Tokens \cup {None}]
  /\ dead \subseteq [id: Jobs, token: Tokens]
  /\ proc \in [Procs -> Call]
  /\ accepted \subseteq Jobs /\ succeeded \subseteq Jobs
  /\ discarded \subseteq Jobs /\ exposed \subseteq Jobs

(* Which call a command belongs to, and what the call has at hand there.   *)
Shape(s) ==
  /\ s.pc \in JobPcs => s.id \in Jobs
  /\ s.pc \in TokenPcs => s.token \in Tokens
  /\ s.pc = "add" => s.op \in {"enqueue", "enqueueDelayed", "retry"}
  /\ s.pc \in {"scan", "claim"} => s.op \in {"reserve", "promote"}
  /\ s.pc \in {"ref", "unref", "reload", "readd", "disown", "head", "pop", "load",
               "persist", "lease", "res", "own"} => s.op = "reserve"
  /\ s.pc \in {"head", "pop", "load", "persist", "lease", "res", "own"} => s.todo = {}
  /\ s.pc \in {"loadDue", "addDue"} => s.op = "promote"
  /\ s.pc \in {"idle", "holding"} => s.op = None
  /\ s.pc \in {"loseRes", "loseLease"} => s.op \in {"ack", "nack"}
  /\ s.pc \in {"unlease", "unres", "disclaim"} => s.op \in {"ack", "nack", "dead"}
  /\ s.pc \in {"repersist", "requeue"} => s.op = "nack"
  /\ s.pc = "bury" => s.op = "dead"
  /\ s.pc = "delete" => s.op \in {"ack", "dead"}
  /\ s.pc \in {"take", "revive"} => s.op = "retry"
  /\ s.pc \in {"purgeDelayed", "purgeJob", "purgeOwner", "dropReady", "dropDelayed"}
       => s.op = "purge" /\ s.todo \subseteq Jobs

Shaped == \A p \in Procs : Shape(proc[p])

TypeInv == RedisTypes /\ Shaped

----------------------------------------------------------------------------
(* Leases and tokens.                                                      *)
HasLease(t) == \E l \in processing : l.token = t

(* Tokens are given out in order, and each has one lease at most.          *)
FreshTokens ==
  /\ \A l \in processing : l.token <= token
  /\ \A l, m \in processing : l.token = m.token => l = m
  /\ \A t \in Tokens : t > token => res[t] = None
  /\ \A p \in Procs : proc[p].pc \in UniquePcs => proc[p].token <= token

(* A reserve call is younger than the lease it is going to take, and what  *)
(* it reclaims had expired when it began.                                  *)
CallsAreYoung ==
  \A p \in Procs : proc[p].op = "reserve" =>
    /\ proc[p].at <= now /\ now < proc[p].at + VisibilityMs
    /\ \A t \in proc[p].todo :
         /\ t \in Tokens /\ t <= token
         /\ \A l \in processing : l.token = t => l.expires <= proc[p].at

(* What the store has for the token of a process, by its label.            *)
KeepsLease(s) ==
  /\ s.pc \in LeasePcs => HasLease(s.token) /\ res[s.token] = s.id
  /\ s.pc = "res" => HasLease(s.token) /\ res[s.token] = None
  /\ s.pc = "loseLease" => res[s.token] = None
  /\ s.pc \in GonePcs => ~HasLease(s.token)
  /\ s.pc \in LeasePcs \cup {"res", "loseLease"} =>
       \A l \in processing : l.token = s.token => l.expires > now

LeasesHeld == \A p \in Procs : KeepsLease(proc[p])

(* Nobody else uses the token of a process.                                *)
UniqueTokens ==
  \A p, r \in Procs :
    proc[p].pc \in UniquePcs /\ proc[r].pc \in UniquePcs /\ proc[p].token = proc[r].token
      => p = r

LeaseInv == FreshTokens /\ CallsAreYoung /\ LeasesHeld /\ UniqueTokens

----------------------------------------------------------------------------
(* What is in Redis was accepted, and a job being enqueued is not yet.     *)
New(s) == s.pc = "add" /\ s.op \in {"enqueue", "enqueueDelayed"}

Booked ==
  /\ ready \subseteq accepted
  /\ \A d \in delayed : d.id \in accepted
  /\ \A d \in dead : d.id \in accepted
  /\ \A t \in Tokens : res[t] # None => res[t] \in accepted
  /\ \A p \in Procs :
       LET s == proc[p] IN
       /\ New(s) => s.id \notin accepted /\ job[s.id] # None
       /\ s.pc \in JobPcs \cup {"unref"} /\ ~New(s) /\ s.id # None => s.id \in accepted
       /\ s.op = "purge" => s.todo \subseteq accepted

(* A dead letter that a retry found is there until it takes it: one        *)
(* operator at a time (OneOperator).                                       *)
Finding == \A p \in Procs : proc[p].pc = "take" =>
  p \in Operators /\ [id |-> proc[p].id, token |-> proc[p].token] \in dead

----------------------------------------------------------------------------
(* A job is in one place: ready, delayed, leased, in the hands of one      *)
(* process, or dead.                                                       *)
Grips(s, id) ==
  \/ s.pc \in HandPcs /\ s.id = id
  \/ s.pc = "ref" /\ res[s.token] = id

Hands(id) == {p \in Procs : Grips(proc[p], id)}
Leases(id) == {t \in Tokens : res[t] = id /\ HasLease(t)}
Waits(id) == {d \in delayed : d.id = id}
Graves(id) == {d \in dead : d.id = id}

Single(S) == \A x, y \in S : x = y

OnePlace(id) ==
  /\ Single(Hands(id)) /\ Single(Leases(id)) /\ Single(Graves(id))
  /\ id \in ready => Waits(id) = {} /\ Leases(id) = {} /\ Hands(id) = {} /\ Graves(id) = {}
  /\ Waits(id) # {} => Leases(id) = {} /\ Hands(id) = {} /\ Graves(id) = {}
  /\ Leases(id) # {} => Hands(id) = {} /\ Graves(id) = {}
  /\ Hands(id) # {} => Graves(id) = {}

Placed == \A id \in Jobs : OnePlace(id)

----------------------------------------------------------------------------
(* The jobs that must not be lost, are somewhere and have an envelope.     *)
Owed == accepted \ (succeeded \cup discarded \cup exposed)

Somewhere(id) == \/ id \in ready \/ Waits(id) # {} \/ Leases(id) # {}
                 \/ Hands(id) # {} \/ Graves(id) # {}

Stored(id) == \/ job[id] # None \/ Graves(id) # {}
              \/ \E p \in Procs : proc[p].pc = "revive" /\ proc[p].id = id

(* Who lets go of a job does so because it is settled or not its own: an   *)
(* ack follows a success, and a holder that is not the owner of its job    *)
(* lost it to a gap.                                                       *)
Settling ==
  \A p \in Procs :
    LET s == proc[p] IN
    /\ s.op = "ack" => s.id \in succeeded
    /\ s.pc = "loseRes" => s.id \notin Owed
    /\ s.pc = "holding" /\ owner[s.id] # s.token => s.id \notin Owed
    /\ s.pc = "purgeOwner" => s.id \in discarded

Kept == \A id \in Owed : Somewhere(id) /\ Stored(id)
KeptInv == Settling /\ Kept

(* The inductive invariant.                                                *)
RedisInv == TypeInv /\ LeaseInv /\ Booked /\ Finding /\ Placed /\ KeptInv

(* Two operators that retry one dead letter at once both enqueue it.       *)
OneOperator == \A o, r \in Operators : o = r

----------------------------------------------------------------------------
(* The loops of a call lead to a command of the same call, or end it.      *)

LEMMA IdleCall == Idle \in Call /\ Shape(Idle)
  BY DEF Idle, Call, Labels, Ops, Shape, JobPcs, TokenPcs, UniquePcs, HandPcs, LeasePcs, GonePcs

LEMMA ContinueCall ==
  ASSUME NEW s \in Call, s.op \in {"reserve", "promote"}
  PROVE  /\ Continue(s) \in Call /\ Shape(Continue(s))
         /\ Continue(s).pc \in {"claim", "scan", "head", "idle"}
         /\ \/ Continue(s) = Idle
            \/ /\ Continue(s).op = s.op /\ Continue(s).at = s.at
               /\ Continue(s).todo = s.todo /\ Continue(s).scan = s.scan
  <1>1. CASE s.todo # {}
    <2>1. Continue(s) = [s EXCEPT !.pc = "claim"]
      BY <1>1 DEF Continue
    <2>2. Continue(s) \in Call
      BY <2>1 DEF Call, Labels
    <2>3. /\ Continue(s).pc = "claim" /\ Continue(s).op = s.op /\ Continue(s).at = s.at
          /\ Continue(s).todo = s.todo /\ Continue(s).scan = s.scan
      BY <2>1 DEF Call
    <2> QED
      BY <2>2, <2>3 DEF Shape, JobPcs, TokenPcs, UniquePcs, HandPcs, LeasePcs, GonePcs
  <1>2. CASE s.todo = {} /\ s.scan # {}
    <2>1. Continue(s) = [s EXCEPT !.pc = "scan"]
      BY <1>2 DEF Continue
    <2>2. Continue(s) \in Call
      BY <2>1 DEF Call, Labels
    <2>3. /\ Continue(s).pc = "scan" /\ Continue(s).op = s.op /\ Continue(s).at = s.at
          /\ Continue(s).todo = s.todo /\ Continue(s).scan = s.scan
      BY <2>1 DEF Call
    <2> QED
      BY <2>2, <2>3 DEF Shape, JobPcs, TokenPcs, UniquePcs, HandPcs, LeasePcs, GonePcs
  <1>3. CASE s.todo = {} /\ s.scan = {} /\ s.op = "reserve"
    <2>1. Continue(s) = [s EXCEPT !.pc = "head", !.id = None, !.token = None]
      BY <1>3 DEF Continue
    <2>2. Continue(s) \in Call
      BY <2>1 DEF Call, Labels
    <2>3. /\ Continue(s).pc = "head" /\ Continue(s).op = s.op /\ Continue(s).at = s.at
          /\ Continue(s).todo = s.todo /\ Continue(s).scan = s.scan
      BY <2>1 DEF Call
    <2> QED
      BY <1>3, <2>2, <2>3 DEF Shape, JobPcs, TokenPcs, UniquePcs, HandPcs, LeasePcs, GonePcs
  <1>4. CASE s.todo = {} /\ s.scan = {} /\ s.op = "promote"
    <2>1. Continue(s) = Idle
      BY <1>4 DEF Continue
    <2> QED
      BY <2>1, IdleCall DEF Idle
  <1> QED
    BY <1>1, <1>2, <1>3, <1>4

LEMMA NextQueueCall ==
  ASSUME NEW s \in Call, s.op = "reserve", s.todo = {}
  PROVE  /\ NextQueue(s) \in Call /\ Shape(NextQueue(s))
         /\ NextQueue(s).pc \in {"head", "idle"}
         /\ NextQueue(s).op = "reserve" => NextQueue(s).at = s.at
         /\ NextQueue(s).todo = {}
  <1>1. CASE s.qi < Len(ReserveOrder)
    <2>1. NextQueue(s) = [s EXCEPT !.pc = "head", !.qi = s.qi + 1, !.tries = 0, !.id = None]
      BY <1>1, RedisAssumption DEF NextQueue
    <2> DEFINE q == s.qi + 1
               z == 0
    <2>4. /\ q \in Nat /\ z \in Nat
          /\ NextQueue(s) = [s EXCEPT !.pc = "head", !.qi = q, !.tries = z, !.id = None]
      BY <2>1 DEF Call
    <2> HIDE DEF q, z
    <2>2. NextQueue(s) \in Call
      BY <2>4 DEF Call, Labels
    <2>3. /\ NextQueue(s).pc = "head" /\ NextQueue(s).op = s.op
          /\ NextQueue(s).at = s.at /\ NextQueue(s).todo = {}
      BY <2>1 DEF Call
    <2> QED
      BY <2>2, <2>3 DEF Shape, JobPcs, TokenPcs, UniquePcs, HandPcs, LeasePcs, GonePcs
  <1>2. CASE ~(s.qi < Len(ReserveOrder))
    <2>1. NextQueue(s) = Idle
      BY <1>2 DEF NextQueue
    <2> QED
      BY <2>1, IdleCall, RedisAssumption DEF Idle
  <1> QED
    BY <1>1, <1>2

LEMMA TryNextHeadCall ==
  ASSUME NEW s \in Call, s.op = "reserve", s.todo = {}
  PROVE  /\ TryNextHead(s) \in Call /\ Shape(TryNextHead(s))
         /\ TryNextHead(s).pc \in {"head", "idle"}
         /\ TryNextHead(s).op = "reserve" => TryNextHead(s).at = s.at
         /\ TryNextHead(s).todo = {}
  <1>1. CASE s.tries + 1 < ReserveTries
    <2>1. TryNextHead(s) = [s EXCEPT !.pc = "head", !.tries = s.tries + 1, !.id = None]
      BY <1>1 DEF TryNextHead
    <2> DEFINE k == s.tries + 1
    <2>4. k \in Nat /\ TryNextHead(s) = [s EXCEPT !.pc = "head", !.tries = k, !.id = None]
      BY <2>1 DEF Call
    <2> HIDE DEF k
    <2>2. TryNextHead(s) \in Call
      BY <2>4 DEF Call, Labels
    <2>3. /\ TryNextHead(s).pc = "head" /\ TryNextHead(s).op = s.op
          /\ TryNextHead(s).at = s.at /\ TryNextHead(s).todo = {}
      BY <2>1 DEF Call
    <2> QED
      BY <2>2, <2>3 DEF Shape, JobPcs, TokenPcs, UniquePcs, HandPcs, LeasePcs, GonePcs
  <1>2. CASE ~(s.tries + 1 < ReserveTries)
    BY <1>2, NextQueueCall DEF TryNextHead
  <1> QED
    BY <1>1, <1>2

LEMMA PurgeNextCall ==
  ASSUME NEW s \in Call, s.op = "purge", s.todo \subseteq Jobs
  PROVE  /\ PurgeNext(s) \in Call /\ Shape(PurgeNext(s))
         /\ PurgeNext(s).pc \in {"dropReady", "purgeJob"}
         /\ PurgeNext(s).op = "purge" /\ PurgeNext(s).todo = s.todo
  <1>1. PICK pc \in {"dropReady", "purgeJob"} : PurgeNext(s) = [s EXCEPT !.pc = pc, !.id = None]
    BY DEF PurgeNext
  <1>2. PurgeNext(s) \in Call
    BY <1>1 DEF Call, Labels
  <1>3. PurgeNext(s).pc = pc /\ PurgeNext(s).op = "purge" /\ PurgeNext(s).todo = s.todo
    BY <1>1 DEF Call
  <1> QED
    BY <1>2, <1>3 DEF Shape, JobPcs, TokenPcs, UniquePcs, HandPcs, LeasePcs, GonePcs

(* A process goes on to another command: the others stay as they are.      *)
LEMMA GotoTypes ==
  ASSUME TypeInv, NEW p \in Procs, NEW s \in Call, Shape(s), Goto(p, s)
  PROVE  proc' \in [Procs -> Call] /\ Shaped'
  BY DEF Goto, TypeInv, RedisTypes, Shaped

LEMMA ThisCall ==
  ASSUME TypeInv, NEW p \in Procs
  PROVE  proc[p] \in Call /\ Shape(proc[p])
  BY DEF TypeInv, RedisTypes, Shaped

----------------------------------------------------------------------------
(* Every action preserves the types.                                       *)

LEMMA EnqueueAddTypes ==
  ASSUME TypeInv, NEW p \in Procs, EnqueueAdd(p)
  PROVE  TypeInv'
  <1> DEFINE s == proc[p]
             n == Idle
  <1>1. s \in Call /\ Shape(s) /\ Goto(p, n)
    BY ThisCall DEF EnqueueAdd, Step
  <1>2. s.id \in Jobs /\ s.at \in Nat
    BY <1>1
    DEF EnqueueAdd, At, Shape, Call, JobPcs, TokenPcs, UniquePcs, HandPcs, LeasePcs, GonePcs
  <1>3. n \in Call /\ Shape(n)
    BY IdleCall
  <1>4. proc' \in [Procs -> Call] /\ Shaped'
    BY <1>1, <1>3, GotoTypes
  <1> QED
    BY <1>1, <1>2, <1>4 DEF EnqueueAdd, At, TypeInv, RedisTypes, store, history

LEMMA ReclaimAddTypes ==
  ASSUME TypeInv, NEW p \in Procs, ReclaimAdd(p)
  PROVE  TypeInv'
  <1> DEFINE s == proc[p]
             n == [s EXCEPT !.pc = "disown"]
  <1>1. s \in Call /\ Shape(s) /\ Goto(p, n)
    BY ThisCall DEF ReclaimAdd, Step
  <1>2. s.id \in Jobs
    BY <1>1
    DEF ReclaimAdd, At, Shape, Call, JobPcs, TokenPcs, UniquePcs, HandPcs, LeasePcs, GonePcs
  <1>3. n \in Call
    BY <1>1, <1>2 DEF Call, Labels, JobPcs, TokenPcs, UniquePcs, HandPcs, LeasePcs, GonePcs
  <1>4. Shape(n)
    BY <1>1, <1>2
    DEF ReclaimAdd, At, Shape, Call, JobPcs, TokenPcs, UniquePcs, HandPcs, LeasePcs, GonePcs
  <1>5. proc' \in [Procs -> Call] /\ Shaped'
    BY <1>1, <1>3, <1>4, GotoTypes
  <1> QED
    BY <1>1, <1>2, <1>5 DEF ReclaimAdd, At, TypeInv, RedisTypes, store, history

LEMMA PopPersistTypes ==
  ASSUME TypeInv, NEW p \in Procs, PopPersist(p)
  PROVE  TypeInv'
  <1> DEFINE s == proc[p]
             n == [s EXCEPT !.pc = "lease"]
  <1>1. s \in Call /\ Shape(s) /\ Goto(p, n)
    BY ThisCall DEF PopPersist, Step
  <1>2. s.id \in Jobs /\ s.attempts \in Nat
    BY <1>1
    DEF PopPersist, At, Shape, Call, JobPcs, TokenPcs, UniquePcs, HandPcs, LeasePcs, GonePcs
  <1>3. n \in Call
    BY <1>1, <1>2 DEF Call, Labels, JobPcs, TokenPcs, UniquePcs, HandPcs, LeasePcs, GonePcs
  <1>4. Shape(n)
    BY <1>1, <1>2
    DEF PopPersist, At, Shape, Call, JobPcs, TokenPcs, UniquePcs, HandPcs, LeasePcs, GonePcs
  <1>5. proc' \in [Procs -> Call] /\ Shaped'
    BY <1>1, <1>3, <1>4, GotoTypes
  <1> QED
    BY <1>1, <1>2, <1>5 DEF PopPersist, At, TypeInv, RedisTypes, store, history

LEMMA PopResTypes ==
  ASSUME TypeInv, NEW p \in Procs, PopRes(p)
  PROVE  TypeInv'
  <1> DEFINE s == proc[p]
             n == [s EXCEPT !.pc = "own"]
  <1>1. s \in Call /\ Shape(s) /\ Goto(p, n)
    BY ThisCall DEF PopRes, Step
  <1>2. s.id \in Jobs /\ s.token \in Tokens
    BY <1>1 DEF PopRes, At, Shape, Call, JobPcs, TokenPcs, UniquePcs, HandPcs, LeasePcs, GonePcs
  <1>3. n \in Call
    BY <1>1, <1>2 DEF Call, Labels, JobPcs, TokenPcs, UniquePcs, HandPcs, LeasePcs, GonePcs
  <1>4. Shape(n)
    BY <1>1, <1>2
    DEF PopRes, At, Shape, Call, JobPcs, TokenPcs, UniquePcs, HandPcs, LeasePcs, GonePcs
  <1>5. proc' \in [Procs -> Call] /\ Shaped'
    BY <1>1, <1>3, <1>4, GotoTypes
  <1> QED
    BY <1>1, <1>2, <1>5 DEF PopRes, At, TypeInv, RedisTypes, store, history

LEMMA ReclaimLoadTypes ==
  ASSUME TypeInv, NEW p \in Procs, ReclaimLoad(p)
  PROVE  TypeInv'
  <1> DEFINE s == proc[p]
             n == [s EXCEPT !.pc = IF job[s.id] = None THEN "disown" ELSE "readd"]
  <1>1. s \in Call /\ Shape(s) /\ Goto(p, n)
    BY ThisCall DEF ReclaimLoad, Step
  <1>2. s.id \in Jobs /\ s.token \in Tokens
    BY <1>1
    DEF ReclaimLoad, At, Shape, Call, JobPcs, TokenPcs, UniquePcs, HandPcs, LeasePcs,
        GonePcs
  <1>3. n \in Call
    BY <1>1, <1>2 DEF Call, Labels, JobPcs, TokenPcs, UniquePcs, HandPcs, LeasePcs, GonePcs
  <1>4. Shape(n)
    BY <1>1, <1>2
    DEF ReclaimLoad, At, Shape, Call, JobPcs, TokenPcs, UniquePcs, HandPcs, LeasePcs,
        GonePcs
  <1>5. proc' \in [Procs -> Call] /\ Shaped'
    BY <1>1, <1>3, <1>4, GotoTypes
  <1> QED
    BY <1>1, <1>2, <1>5 DEF ReclaimLoad, At, TypeInv, RedisTypes, store, history

LEMMA LoserDelResTypes ==
  ASSUME TypeInv, NEW p \in Procs, LoserDelRes(p)
  PROVE  TypeInv'
  <1> DEFINE s == proc[p]
             n == [s EXCEPT !.pc = "loseLease"]
  <1>1. s \in Call /\ Shape(s) /\ Goto(p, n)
    BY ThisCall DEF LoserDelRes, Step
  <1>2. s.id \in Jobs /\ s.token \in Tokens
    BY <1>1
    DEF LoserDelRes, At, Shape, Call, JobPcs, TokenPcs, UniquePcs, HandPcs, LeasePcs,
        GonePcs
  <1>3. n \in Call
    BY <1>1, <1>2 DEF Call, Labels, JobPcs, TokenPcs, UniquePcs, HandPcs, LeasePcs, GonePcs
  <1>4. Shape(n)
    BY <1>1, <1>2
    DEF LoserDelRes, At, Shape, Call, JobPcs, TokenPcs, UniquePcs, HandPcs, LeasePcs,
        GonePcs
  <1>5. proc' \in [Procs -> Call] /\ Shaped'
    BY <1>1, <1>3, <1>4, GotoTypes
  <1> QED
    BY <1>1, <1>2, <1>5 DEF LoserDelRes, At, TypeInv, RedisTypes, store, history

LEMMA LoserDelLeaseTypes ==
  ASSUME TypeInv, NEW p \in Procs, LoserDelLease(p)
  PROVE  TypeInv'
  <1> DEFINE s == proc[p]
             n == Idle
  <1>1. s \in Call /\ Shape(s) /\ Goto(p, n)
    BY ThisCall DEF LoserDelLease, Step
  <1>2. n \in Call /\ Shape(n)
    BY IdleCall
  <1>3. proc' \in [Procs -> Call] /\ Shaped'
    BY <1>1, <1>2, GotoTypes
  <1> QED
    BY <1>1, <1>3 DEF LoserDelLease, At, TypeInv, RedisTypes, store, history

LEMMA RemoveLeaseTypes ==
  ASSUME TypeInv, NEW p \in Procs, RemoveLease(p)
  PROVE  TypeInv'
  <1> DEFINE s == proc[p]
             n == [s EXCEPT !.pc = "unres"]
  <1>1. s \in Call /\ Shape(s) /\ Goto(p, n)
    BY ThisCall DEF RemoveLease, Step
  <1>2. n \in Call
    BY <1>1 DEF Call, Labels, JobPcs, TokenPcs, UniquePcs, HandPcs, LeasePcs, GonePcs
  <1>3. Shape(n)
    BY <1>1
    DEF RemoveLease, At, Shape, Call, JobPcs, TokenPcs, UniquePcs, HandPcs, LeasePcs,
        GonePcs
  <1>4. proc' \in [Procs -> Call] /\ Shaped'
    BY <1>1, <1>2, <1>3, GotoTypes
  <1> QED
    BY <1>1, <1>4 DEF RemoveLease, At, TypeInv, RedisTypes, store, history

LEMMA RemoveResTypes ==
  ASSUME TypeInv, NEW p \in Procs, RemoveRes(p)
  PROVE  TypeInv'
  <1> DEFINE s == proc[p]
             n == [s EXCEPT !.pc = "disclaim"]
  <1>1. s \in Call /\ Shape(s) /\ Goto(p, n)
    BY ThisCall DEF RemoveRes, Step
  <1>2. n \in Call
    BY <1>1 DEF Call, Labels, JobPcs, TokenPcs, UniquePcs, HandPcs, LeasePcs, GonePcs
  <1>3. Shape(n)
    BY <1>1
    DEF RemoveRes, At, Shape, Call, JobPcs, TokenPcs, UniquePcs, HandPcs, LeasePcs, GonePcs
  <1>4. proc' \in [Procs -> Call] /\ Shaped'
    BY <1>1, <1>2, <1>3, GotoTypes
  <1> QED
    BY <1>1, <1>4 DEF RemoveRes, At, TypeInv, RedisTypes, store, history

LEMMA NackPersistTypes ==
  ASSUME TypeInv, NEW p \in Procs, NackPersist(p)
  PROVE  TypeInv'
  <1> DEFINE s == proc[p]
             n == [s EXCEPT !.pc = "requeue"]
  <1>1. s \in Call /\ Shape(s) /\ Goto(p, n)
    BY ThisCall DEF NackPersist, Step
  <1>2. s.id \in Jobs /\ QueueOf(s.id) \in QueueNames /\ s.attempts \in Nat
    BY <1>1
    DEF NackPersist, At, Shape, Call, JobPcs, TokenPcs, UniquePcs, HandPcs, LeasePcs,
        GonePcs, QueueNames
  <1>3. n \in Call
    BY <1>1, <1>2 DEF Call, Labels, JobPcs, TokenPcs, UniquePcs, HandPcs, LeasePcs, GonePcs
  <1>4. Shape(n)
    BY <1>1, <1>2
    DEF NackPersist, At, Shape, Call, JobPcs, TokenPcs, UniquePcs, HandPcs, LeasePcs,
        GonePcs
  <1>5. proc' \in [Procs -> Call] /\ Shaped'
    BY <1>1, <1>3, <1>4, GotoTypes
  <1> QED
    BY <1>1, <1>2, <1>5 DEF NackPersist, At, TypeInv, RedisTypes, store, history

LEMMA NackAddTypes ==
  ASSUME TypeInv, NEW p \in Procs, NackAdd(p)
  PROVE  TypeInv'
  <1> DEFINE s == proc[p]
             n == Idle
  <1>1. s \in Call /\ Shape(s) /\ Goto(p, n)
    BY ThisCall DEF NackAdd, Step
  <1>2. s.id \in Jobs /\ s.at \in Nat
    BY <1>1
    DEF NackAdd, At, Shape, Call, JobPcs, TokenPcs, UniquePcs, HandPcs, LeasePcs, GonePcs
  <1>3. n \in Call /\ Shape(n)
    BY IdleCall
  <1>4. proc' \in [Procs -> Call] /\ Shaped'
    BY <1>1, <1>3, GotoTypes
  <1> QED
    BY <1>1, <1>2, <1>4 DEF NackAdd, At, TypeInv, RedisTypes, store, history

LEMMA BuryTypes ==
  ASSUME TypeInv, NEW p \in Procs, Bury(p)
  PROVE  TypeInv'
  <1> DEFINE s == proc[p]
             n == [s EXCEPT !.pc = "delete"]
  <1>1. s \in Call /\ Shape(s) /\ Goto(p, n)
    BY ThisCall DEF Bury, Step
  <1>2. s.id \in Jobs /\ s.token \in Tokens /\ QueueOf(s.id) \in QueueNames
    BY <1>1
    DEF Bury, At, Shape, Call, JobPcs, TokenPcs, UniquePcs, HandPcs, LeasePcs, GonePcs,
        QueueNames
  <1>3. n \in Call
    BY <1>1, <1>2 DEF Call, Labels, JobPcs, TokenPcs, UniquePcs, HandPcs, LeasePcs, GonePcs
  <1>4. Shape(n)
    BY <1>1, <1>2
    DEF Bury, At, Shape, Call, JobPcs, TokenPcs, UniquePcs, HandPcs, LeasePcs, GonePcs
  <1>5. proc' \in [Procs -> Call] /\ Shaped'
    BY <1>1, <1>3, <1>4, GotoTypes
  <1> QED
    BY <1>1, <1>2, <1>5 DEF Bury, At, TypeInv, RedisTypes, store, history

LEMMA DeleteJobTypes ==
  ASSUME TypeInv, NEW p \in Procs, DeleteJob(p)
  PROVE  TypeInv'
  <1> DEFINE s == proc[p]
             n == Idle
  <1>1. s \in Call /\ Shape(s) /\ Goto(p, n)
    BY ThisCall DEF DeleteJob, Step
  <1>2. s.id \in Jobs
    BY <1>1
    DEF DeleteJob, At, Shape, Call, JobPcs, TokenPcs, UniquePcs, HandPcs, LeasePcs, GonePcs
  <1>3. n \in Call /\ Shape(n)
    BY IdleCall
  <1>4. proc' \in [Procs -> Call] /\ Shaped'
    BY <1>1, <1>3, GotoTypes
  <1> QED
    BY <1>1, <1>2, <1>4 DEF DeleteJob, At, TypeInv, RedisTypes, store, history

LEMMA DeadTakeTypes ==
  ASSUME TypeInv, NEW p \in Procs, DeadTake(p)
  PROVE  TypeInv'
  <1> DEFINE s == proc[p]
             n == [s EXCEPT !.pc = "revive"]
  <1>1. s \in Call /\ Shape(s) /\ Goto(p, n)
    BY ThisCall DEF DeadTake, Step
  <1>2. n \in Call
    BY <1>1 DEF Call, Labels, JobPcs, TokenPcs, UniquePcs, HandPcs, LeasePcs, GonePcs
  <1>3. Shape(n)
    BY <1>1
    DEF DeadTake, At, Shape, Call, JobPcs, TokenPcs, UniquePcs, HandPcs, LeasePcs, GonePcs
  <1>4. proc' \in [Procs -> Call] /\ Shaped'
    BY <1>1, <1>2, <1>3, GotoTypes
  <1> QED
    BY <1>1, <1>4 DEF DeadTake, At, TypeInv, RedisTypes, store, history

LEMMA RetryPersistTypes ==
  ASSUME TypeInv, NEW p \in Procs, RetryPersist(p)
  PROVE  TypeInv'
  <1> DEFINE s == proc[p]
             n == [s EXCEPT !.pc = "add", !.token = None]
  <1>1. s \in Call /\ Shape(s) /\ Goto(p, n)
    BY ThisCall DEF RetryPersist, Step
  <1>2. s.id \in Jobs
    BY <1>1
    DEF RetryPersist, At, Shape, Call, JobPcs, TokenPcs, UniquePcs, HandPcs, LeasePcs,
        GonePcs
  <1>3. n \in Call
    BY <1>1, <1>2 DEF Call, Labels, JobPcs, TokenPcs, UniquePcs, HandPcs, LeasePcs, GonePcs
  <1>4. Shape(n)
    BY <1>1, <1>2
    DEF RetryPersist, At, Shape, Call, JobPcs, TokenPcs, UniquePcs, HandPcs, LeasePcs,
        GonePcs
  <1>5. proc' \in [Procs -> Call] /\ Shaped'
    BY <1>1, <1>3, <1>4, GotoTypes
  <1> QED
    BY <1>1, <1>2, <1>5 DEF RetryPersist, At, TypeInv, RedisTypes, store, history

LEMMA DropReadyTypes ==
  ASSUME TypeInv, NEW p \in Procs, DropReady(p)
  PROVE  TypeInv'
  <1> DEFINE s == proc[p]
             n == [s EXCEPT !.pc = "dropDelayed"]
  <1>1. s \in Call /\ Shape(s) /\ Goto(p, n)
    BY ThisCall DEF DropReady, Step
  <1>2. n \in Call
    BY <1>1 DEF Call, Labels, JobPcs, TokenPcs, UniquePcs, HandPcs, LeasePcs, GonePcs
  <1>3. Shape(n)
    BY <1>1
    DEF DropReady, At, Shape, Call, JobPcs, TokenPcs, UniquePcs, HandPcs, LeasePcs, GonePcs
  <1>4. proc' \in [Procs -> Call] /\ Shaped'
    BY <1>1, <1>2, <1>3, GotoTypes
  <1> QED
    BY <1>1, <1>4 DEF DropReady, At, TypeInv, RedisTypes, store, history

LEMMA DropDelayedTypes ==
  ASSUME TypeInv, NEW p \in Procs, DropDelayed(p)
  PROVE  TypeInv'
  <1> DEFINE s == proc[p]
             n == Idle
  <1>1. s \in Call /\ Shape(s) /\ Goto(p, n)
    BY ThisCall DEF DropDelayed, Step
  <1>2. n \in Call /\ Shape(n)
    BY IdleCall
  <1>3. proc' \in [Procs -> Call] /\ Shaped'
    BY <1>1, <1>2, GotoTypes
  <1> QED
    BY <1>1, <1>3 DEF DropDelayed, At, TypeInv, RedisTypes, store, history

LEMMA EnqueuePersistTypes ==
  ASSUME TypeInv, NEW p \in Procs, NEW id \in Jobs, NEW delay \in 0..1,
         EnqueuePersist(p, id, delay)
  PROVE  TypeInv'
  <1> DEFINE a == now + delay
             o == IF delay > 0 THEN "enqueueDelayed" ELSE "enqueue"
             n == [Idle EXCEPT !.pc = "add", !.id = id, !.at = a, !.op = o]
  <1>1. Goto(p, n)
    BY DEF EnqueuePersist
  <1>2. a \in Nat /\ o \in {"enqueue", "enqueueDelayed"} /\ QueueOf(id) \in QueueNames
    BY DEF TypeInv, RedisTypes, QueueNames
  <1>3. n \in Call /\ Shape(n)
    <2> HIDE DEF a, o
    <2>1. n \in Call
      BY <1>2, IdleCall
      DEF Ops, Call, Labels, JobPcs, TokenPcs, UniquePcs, HandPcs, LeasePcs, GonePcs
    <2>2. n.pc = "add" /\ n.op = o /\ n.id = id
      BY DEF Idle
    <2> QED
      BY <1>2, <2>1, <2>2 DEF Shape, JobPcs, TokenPcs, UniquePcs, HandPcs, LeasePcs, GonePcs
  <1>4. proc' \in [Procs -> Call] /\ Shaped'
    BY <1>1, <1>3, GotoTypes
  <1> QED
    BY <1>2, <1>4 DEF EnqueuePersist, TypeInv, RedisTypes, history

LEMMA KnownQueuesTypes ==
  ASSUME TypeInv, NEW p \in Procs, NEW op \in {"reserve", "promote"}, KnownQueues(p, op)
  PROVE  TypeInv'
  <1> DEFINE s == proc[p]
             n == Continue([Idle EXCEPT !.op = op, !.at = now, !.scan = queues])
  <1>1. s \in Call /\ Shape(s) /\ Goto(p, n)
    BY ThisCall DEF KnownQueues, Step
  <1>2. [Idle EXCEPT !.op = op, !.at = now, !.scan = queues] \in Call
    BY <1>1, IdleCall DEF TypeInv, RedisTypes, Call, Ops
  <1>3. n \in Call
    BY <1>1, <1>2, ContinueCall
    DEF Call, Labels, JobPcs, TokenPcs, UniquePcs, HandPcs, LeasePcs, GonePcs
  <1>4. Shape(n)
    BY <1>1, <1>2, ContinueCall
    DEF KnownQueues, At, Shape, Call, JobPcs, TokenPcs, UniquePcs, HandPcs, LeasePcs,
        GonePcs
  <1>5. proc' \in [Procs -> Call] /\ Shaped'
    BY <1>1, <1>3, <1>4, GotoTypes
  <1> QED
    BY <1>1, <1>2, <1>5 DEF KnownQueues, At, TypeInv, RedisTypes, store, history

LEMMA ReclaimRefTypes ==
  ASSUME TypeInv, NEW p \in Procs, ReclaimRef(p)
  PROVE  TypeInv'
  <1> DEFINE s == proc[p]
             n == [s EXCEPT !.pc = "unref", !.id = res[s.token]]
  <1>1. s \in Call /\ Shape(s) /\ Goto(p, n)
    BY ThisCall DEF ReclaimRef, Step
  <1>2. s.token \in Tokens /\ res[s.token] \in Jobs \cup {None}
    BY <1>1
    DEF ReclaimRef, At, Shape, Call, JobPcs, TokenPcs, UniquePcs, HandPcs, LeasePcs,
        GonePcs, TypeInv, RedisTypes
  <1>3. n \in Call
    BY <1>1, <1>2 DEF Call, Labels, JobPcs, TokenPcs, UniquePcs, HandPcs, LeasePcs, GonePcs
  <1>4. Shape(n)
    BY <1>1, <1>2
    DEF ReclaimRef, At, Shape, Call, JobPcs, TokenPcs, UniquePcs, HandPcs, LeasePcs, GonePcs
  <1>5. proc' \in [Procs -> Call] /\ Shaped'
    BY <1>1, <1>3, <1>4, GotoTypes
  <1>6. {proc[r].id : r \in {r \in Procs : r # p /\ proc[r].token = s.token}} \ {None}
          \subseteq Jobs
    BY DEF TypeInv, RedisTypes, Call
  <1>7. exposed' \subseteq Jobs
    BY <1>6 DEF ReclaimRef, TypeInv, RedisTypes
  <1> QED
    BY <1>1, <1>2, <1>5, <1>7 DEF ReclaimRef, At, TypeInv, RedisTypes, store, history

LEMMA ReclaimDelRefTypes ==
  ASSUME TypeInv, NEW p \in Procs, ReclaimDelRef(p)
  PROVE  TypeInv'
  <1> DEFINE s == proc[p]
             n == IF s.id = None THEN Continue(s) ELSE [s EXCEPT !.pc = "reload"]
  <1>1. s \in Call /\ Shape(s) /\ Goto(p, n)
    BY ThisCall DEF ReclaimDelRef, Step
  <1>2. s.token \in Tokens
    BY <1>1
    DEF ReclaimDelRef, At, Shape, Call, JobPcs, TokenPcs, UniquePcs, HandPcs, LeasePcs,
        GonePcs
  <1>3. s.id \in Jobs \cup {None} /\ s.op = "reserve"
    BY <1>1, <1>2 DEF ReclaimDelRef, At, Shape, Call
  <1>4. n \in Call
    BY <1>1, <1>2, <1>3, ContinueCall
    DEF Call, Labels, JobPcs, TokenPcs, UniquePcs, HandPcs, LeasePcs, GonePcs
  <1>5. Shape(n)
    BY <1>1, <1>2, <1>3, ContinueCall
    DEF ReclaimDelRef, At, Shape, Call, JobPcs, TokenPcs, UniquePcs, HandPcs, LeasePcs,
        GonePcs
  <1>6. proc' \in [Procs -> Call] /\ Shaped'
    BY <1>1, <1>4, <1>5, GotoTypes
  <1> QED
    BY <1>1, <1>2, <1>3, <1>6 DEF ReclaimDelRef, At, TypeInv, RedisTypes, store, history

LEMMA ReclaimDisownTypes ==
  ASSUME TypeInv, NEW p \in Procs, ReclaimDisown(p)
  PROVE  TypeInv'
  <1> DEFINE s == proc[p]
             n == Continue(s)
  <1>1. s \in Call /\ Shape(s) /\ Goto(p, n)
    BY ThisCall DEF ReclaimDisown, Step
  <1>2. s.id \in Jobs
    BY <1>1
    DEF ReclaimDisown, At, Shape, Call, JobPcs, TokenPcs, UniquePcs, HandPcs, LeasePcs,
        GonePcs
  <1>3. s.op = "reserve"
    BY <1>1, <1>2 DEF ReclaimDisown, At, Shape
  <1>4. n \in Call
    BY <1>1, <1>2, <1>3, ContinueCall
    DEF Call, Labels, JobPcs, TokenPcs, UniquePcs, HandPcs, LeasePcs, GonePcs
  <1>5. Shape(n)
    BY <1>1, <1>2, <1>3, ContinueCall
    DEF ReclaimDisown, At, Shape, Call, JobPcs, TokenPcs, UniquePcs, HandPcs, LeasePcs,
        GonePcs
  <1>6. proc' \in [Procs -> Call] /\ Shaped'
    BY <1>1, <1>4, <1>5, GotoTypes
  <1> QED
    BY <1>1, <1>2, <1>3, <1>6 DEF ReclaimDisown, At, TypeInv, RedisTypes, store, history

LEMMA PromoteLoadTypes ==
  ASSUME TypeInv, NEW p \in Procs, PromoteLoad(p)
  PROVE  TypeInv'
  <1> DEFINE s == proc[p]
             n == IF job[s.id] = None THEN Continue([s EXCEPT !.id = None])
                  ELSE [s EXCEPT !.pc = "addDue"]
  <1>1. s \in Call /\ Shape(s) /\ Goto(p, n)
    BY ThisCall DEF PromoteLoad, Step
  <1>2. s.id \in Jobs
    BY <1>1
    DEF PromoteLoad, At, Shape, Call, JobPcs, TokenPcs, UniquePcs, HandPcs, LeasePcs,
        GonePcs
  <1>3. s.op = "promote" /\ [s EXCEPT !.id = None] \in Call /\ [s EXCEPT !.id = None].op = "promote"
    BY <1>1, <1>2 DEF PromoteLoad, At, Shape, Call
  <1>4. n \in Call
    BY <1>1, <1>2, <1>3, ContinueCall
    DEF Call, Labels, JobPcs, TokenPcs, UniquePcs, HandPcs, LeasePcs, GonePcs
  <1>5. Shape(n)
    BY <1>1, <1>2, <1>3, ContinueCall
    DEF PromoteLoad, At, Shape, Call, JobPcs, TokenPcs, UniquePcs, HandPcs, LeasePcs,
        GonePcs
  <1>6. proc' \in [Procs -> Call] /\ Shaped'
    BY <1>1, <1>4, <1>5, GotoTypes
  <1> QED
    BY <1>1, <1>2, <1>3, <1>6 DEF PromoteLoad, At, TypeInv, RedisTypes, store, history

LEMMA PromoteAddTypes ==
  ASSUME TypeInv, NEW p \in Procs, PromoteAdd(p)
  PROVE  TypeInv'
  <1> DEFINE s == proc[p]
             n == Continue([s EXCEPT !.id = None])
  <1>1. s \in Call /\ Shape(s) /\ Goto(p, n)
    BY ThisCall DEF PromoteAdd, Step
  <1>2. s.id \in Jobs
    BY <1>1
    DEF PromoteAdd, At, Shape, Call, JobPcs, TokenPcs, UniquePcs, HandPcs, LeasePcs, GonePcs
  <1>3. [s EXCEPT !.id = None] \in Call /\ [s EXCEPT !.id = None].op = "promote"
    BY <1>1, <1>2 DEF PromoteAdd, At, Shape, Call
  <1>4. n \in Call
    BY <1>1, <1>2, <1>3, ContinueCall
    DEF Call, Labels, JobPcs, TokenPcs, UniquePcs, HandPcs, LeasePcs, GonePcs
  <1>5. Shape(n)
    BY <1>1, <1>2, <1>3, ContinueCall
    DEF PromoteAdd, At, Shape, Call, JobPcs, TokenPcs, UniquePcs, HandPcs, LeasePcs, GonePcs
  <1>6. proc' \in [Procs -> Call] /\ Shaped'
    BY <1>1, <1>4, <1>5, GotoTypes
  <1> QED
    BY <1>1, <1>2, <1>3, <1>6 DEF PromoteAdd, At, TypeInv, RedisTypes, store, history

LEMMA PopClaimTypes ==
  ASSUME TypeInv, NEW p \in Procs, PopClaim(p)
  PROVE  TypeInv'
  <1> DEFINE s == proc[p]
             n == IF s.id \in ready THEN [s EXCEPT !.pc = "load"] ELSE TryNextHead(s)
  <1>1. s \in Call /\ Shape(s) /\ Goto(p, n)
    BY ThisCall DEF PopClaim, Step
  <1>2. s.id \in Jobs
    BY <1>1
    DEF PopClaim, At, Shape, Call, JobPcs, TokenPcs, UniquePcs, HandPcs, LeasePcs, GonePcs
  <1>3. s.op = "reserve" /\ s.todo = {}
    BY <1>1, <1>2 DEF PopClaim, At, Shape
  <1>4. n \in Call
    BY <1>1, <1>2, <1>3, TryNextHeadCall
    DEF Call, Labels, JobPcs, TokenPcs, UniquePcs, HandPcs, LeasePcs, GonePcs
  <1>5. Shape(n)
    BY <1>1, <1>2, <1>3, TryNextHeadCall
    DEF PopClaim, At, Shape, Call, JobPcs, TokenPcs, UniquePcs, HandPcs, LeasePcs, GonePcs
  <1>6. proc' \in [Procs -> Call] /\ Shaped'
    BY <1>1, <1>4, <1>5, GotoTypes
  <1> QED
    BY <1>1, <1>2, <1>3, <1>6 DEF PopClaim, At, TypeInv, RedisTypes, store, history

LEMMA PopLoadTypes ==
  ASSUME TypeInv, NEW p \in Procs, PopLoad(p)
  PROVE  TypeInv'
  <1> DEFINE s == proc[p]
             n == IF job[s.id] = None THEN TryNextHead(s)
                  ELSE [s EXCEPT !.pc = "persist", !.attempts = job[s.id] + 1]
  <1>1. s \in Call /\ Shape(s) /\ Goto(p, n)
    BY ThisCall DEF PopLoad, Step
  <1>2. s.id \in Jobs
    BY <1>1
    DEF PopLoad, At, Shape, Call, JobPcs, TokenPcs, UniquePcs, HandPcs, LeasePcs, GonePcs
  <1>3. /\ s.op = "reserve" /\ s.todo = {}
        /\ job[s.id] # None => job[s.id] + 1 \in Nat
    BY <1>1, <1>2 DEF PopLoad, At, Shape, TypeInv, RedisTypes
  <1>4. n \in Call /\ Shape(n)
    <2>1. CASE job[s.id] = None
      BY <1>1, <1>3, <2>1, TryNextHeadCall
    <2>2. CASE job[s.id] # None
      <3> DEFINE k == job[s.id] + 1
      <3>1. n = [s EXCEPT !.pc = "persist", !.attempts = k] /\ k \in Nat
        BY <1>3, <2>2
      <3> HIDE DEF k, n
      <3>2. n \in Call
        BY <1>1, <3>1 DEF Call, Labels, JobPcs, HandPcs
      <3>3. n.pc = "persist" /\ n.op = "reserve" /\ n.todo = {} /\ n.id = s.id
        BY <1>1, <1>3, <3>1 DEF Call
      <3> QED
        BY <1>2, <3>2, <3>3 DEF Shape, JobPcs, TokenPcs, UniquePcs, HandPcs, LeasePcs, GonePcs
    <2> QED
      BY <2>1, <2>2
  <1>5. proc' \in [Procs -> Call] /\ Shaped'
    BY <1>1, <1>4, GotoTypes
  <1> QED
    BY <1>1, <1>2, <1>3, <1>5 DEF PopLoad, At, TypeInv, RedisTypes, store, history

LEMMA PopLeaseTypes ==
  ASSUME TypeInv, NEW p \in Procs, PopLease(p)
  PROVE  TypeInv'
  <1> DEFINE s == proc[p]
             n == [s EXCEPT !.pc = "res", !.token = token + 1]
  <1>1. s \in Call /\ Shape(s) /\ Goto(p, n)
    BY ThisCall DEF PopLease, Step
  <1>2. s.id \in Jobs /\ QueueOf(s.id) \in QueueNames /\ s.at \in Nat
    BY <1>1
    DEF PopLease, At, Shape, Call, JobPcs, TokenPcs, UniquePcs, HandPcs, LeasePcs, GonePcs,
        QueueNames
  <1>3. token + 1 \in Tokens /\ token + 1 \in 0..MaxToken
    <2>1. MaxToken \in Nat /\ token \in 0..MaxToken /\ token < MaxToken
      BY RedisAssumption DEF PopLease, TypeInv, RedisTypes
    <2> QED
      BY <2>1 DEF Tokens
  <1>4. token + 1 \in Tokens /\ token + 1 \in 0..MaxToken /\ s.at + VisibilityMs \in Nat
    BY <1>2, <1>3, RedisAssumption
  <1>5. n \in Call
    BY <1>1, <1>2, <1>4
    DEF Call, Labels, JobPcs, TokenPcs, UniquePcs, HandPcs, LeasePcs, GonePcs
  <1>6. Shape(n)
    BY <1>1, <1>2, <1>4
    DEF PopLease, At, Shape, Call, JobPcs, TokenPcs, UniquePcs, HandPcs, LeasePcs, GonePcs
  <1>7. proc' \in [Procs -> Call] /\ Shaped'
    BY <1>1, <1>5, <1>6, GotoTypes
  <1> QED
    BY <1>1, <1>2, <1>4, <1>7 DEF PopLease, At, TypeInv, RedisTypes, store, history

LEMMA PopOwnerTypes ==
  ASSUME TypeInv, NEW p \in Procs, PopOwner(p)
  PROVE  TypeInv'
  <1> DEFINE s == proc[p]
             n == [Idle EXCEPT !.pc = "holding", !.id = s.id, !.token = s.token,
                        !.attempts = s.attempts]
  <1>1. s \in Call /\ Shape(s) /\ Goto(p, n)
    BY ThisCall DEF PopOwner, Step
  <1>2. s.id \in Jobs /\ s.token \in Tokens /\ s.attempts \in Nat
    BY <1>1
    DEF PopOwner, At, Shape, Call, JobPcs, TokenPcs, UniquePcs, HandPcs, LeasePcs, GonePcs
  <1>3. n \in Call
    BY <1>1, <1>2, IdleCall
    DEF Call, Labels, JobPcs, TokenPcs, UniquePcs, HandPcs, LeasePcs, GonePcs
  <1>4. Shape(n)
    BY <1>1, <1>2, IdleCall
    DEF PopOwner, At, Shape, Call, JobPcs, TokenPcs, UniquePcs, HandPcs, LeasePcs, GonePcs,
        Idle
  <1>5. proc' \in [Procs -> Call] /\ Shaped'
    BY <1>1, <1>3, <1>4, GotoTypes
  <1> QED
    BY <1>1, <1>2, <1>5 DEF PopOwner, At, TypeInv, RedisTypes, store, history

LEMMA RemoveOwnerTypes ==
  ASSUME TypeInv, NEW p \in Procs, RemoveOwner(p)
  PROVE  TypeInv'
  <1> DEFINE s == proc[p]
             n == [s EXCEPT !.pc = CASE s.op = "ack"  -> "delete"
                                  [] s.op = "nack" -> "repersist"
                                  [] s.op = "dead" -> "bury"]
  <1>1. s \in Call /\ Shape(s) /\ Goto(p, n)
    BY ThisCall DEF RemoveOwner, Step
  <1>2. s.id \in Jobs /\ s.token \in Tokens
    BY <1>1
    DEF RemoveOwner, At, Shape, Call, JobPcs, TokenPcs, UniquePcs, HandPcs, LeasePcs,
        GonePcs
  <1>3. s.op \in {"ack", "nack", "dead"}
    BY <1>1, <1>2 DEF RemoveOwner, At, Shape
  <1>4. n \in Call
    BY <1>1, <1>2, <1>3
    DEF Call, Labels, JobPcs, TokenPcs, UniquePcs, HandPcs, LeasePcs, GonePcs
  <1>5. Shape(n)
    BY <1>1, <1>2, <1>3
    DEF RemoveOwner, At, Shape, Call, JobPcs, TokenPcs, UniquePcs, HandPcs, LeasePcs,
        GonePcs
  <1>6. proc' \in [Procs -> Call] /\ Shaped'
    BY <1>1, <1>4, <1>5, GotoTypes
  <1> QED
    BY <1>1, <1>2, <1>3, <1>6 DEF RemoveOwner, At, TypeInv, RedisTypes, store, history

LEMMA DeadFindTypes ==
  ASSUME TypeInv, NEW p \in Procs, NEW d, DeadFind(p, d)
  PROVE  TypeInv'
  <1> DEFINE s == proc[p]
             n == [Idle EXCEPT !.pc = "take", !.op = "retry", !.id = d.id, !.token = d.token]
  <1>1. s \in Call /\ Shape(s) /\ Goto(p, n)
    BY ThisCall DEF DeadFind, Step
  <1>2. d.id \in Jobs /\ d.token \in Tokens /\ calls' \in Nat
    BY <1>1 DEF DeadFind, OperatorCall, TypeInv, RedisTypes
  <1>3. n \in Call
    BY <1>1, <1>2, IdleCall
    DEF Ops, Call, Labels, JobPcs, TokenPcs, UniquePcs, HandPcs, LeasePcs, GonePcs
  <1>4. Shape(n)
    BY <1>1, <1>2, IdleCall
    DEF DeadFind, At, Shape, Call, JobPcs, TokenPcs, UniquePcs, HandPcs, LeasePcs, GonePcs,
        Idle
  <1>5. proc' \in [Procs -> Call] /\ Shaped'
    BY <1>1, <1>3, <1>4, GotoTypes
  <1> QED
    BY <1>1, <1>2, <1>5 DEF DeadFind, At, TypeInv, RedisTypes, store, history

LEMMA PurgeReadyTypes ==
  ASSUME TypeInv, NEW p \in Procs, NEW q \in queues, PurgeReady(p, q)
  PROVE  TypeInv'
  <1> DEFINE s == proc[p]
             n == [Idle EXCEPT !.pc = "purgeDelayed", !.op = "purge", !.scan = {q},
                        !.todo = {i \in ready : QueueOf(i) = q}]
  <1>1. s \in Call /\ Shape(s) /\ Goto(p, n)
    BY ThisCall DEF PurgeReady, Step
  <1>2. /\ q \in QueueNames /\ calls' \in Nat
        /\ {i \in ready : QueueOf(i) = q} \subseteq Jobs
    BY <1>1 DEF PurgeReady, OperatorCall, TypeInv, RedisTypes
  <1>3. n \in Call
    BY <1>1, <1>2, IdleCall
    DEF Ops, Call, Labels, JobPcs, TokenPcs, UniquePcs, HandPcs, LeasePcs, GonePcs
  <1>4. Shape(n)
    BY <1>1, <1>2, IdleCall
    DEF PurgeReady, At, Shape, Call, JobPcs, TokenPcs, UniquePcs, HandPcs, LeasePcs,
        GonePcs, Idle
  <1>5. proc' \in [Procs -> Call] /\ Shaped'
    BY <1>1, <1>3, <1>4, GotoTypes
  <1> QED
    BY <1>1, <1>2, <1>5 DEF PurgeReady, At, TypeInv, RedisTypes, store, history

LEMMA PurgeDelayedTypes ==
  ASSUME TypeInv, NEW p \in Procs, PurgeDelayed(p)
  PROVE  TypeInv'
  <1> DEFINE s == proc[p]
             T == s.todo \cup {d.id : d \in {d \in delayed : QueueOf(d.id) \in s.scan}}
             u == [s EXCEPT !.todo = T]
  <1>1. s \in Call /\ Shape(s) /\ Goto(p, PurgeNext(u))
    BY ThisCall DEF PurgeDelayed
  <1>2. T \subseteq Jobs
    BY <1>1 DEF PurgeDelayed, At, Shape, TypeInv, RedisTypes
  <1>3. u \in Call /\ u.op = "purge" /\ u.todo = T
    <2> HIDE DEF T
    <2> QED
      BY <1>1, <1>2 DEF Call, PurgeDelayed, At, Shape
  <1>4. PurgeNext(u) \in Call /\ Shape(PurgeNext(u))
    BY <1>2, <1>3, PurgeNextCall
  <1>5. proc' \in [Procs -> Call] /\ Shaped'
    BY <1>1, <1>4, GotoTypes
  <1> QED
    BY <1>5 DEF PurgeDelayed, TypeInv, RedisTypes, store, history

LEMMA PurgeOwnerTypes ==
  ASSUME TypeInv, NEW p \in Procs, PurgeOwner(p)
  PROVE  TypeInv'
  <1> DEFINE s == proc[p]
             n == PurgeNext(s)
  <1>1. s \in Call /\ Shape(s) /\ Goto(p, n)
    BY ThisCall DEF PurgeOwner, Step
  <1>2. s.id \in Jobs
    BY <1>1
    DEF PurgeOwner, At, Shape, Call, JobPcs, TokenPcs, UniquePcs, HandPcs, LeasePcs, GonePcs
  <1>3. s.op = "purge" /\ s.todo \subseteq Jobs
    BY <1>1, <1>2 DEF PurgeOwner, At, Shape
  <1>4. n \in Call
    BY <1>1, <1>2, <1>3, PurgeNextCall
    DEF Call, Labels, JobPcs, TokenPcs, UniquePcs, HandPcs, LeasePcs, GonePcs
  <1>5. Shape(n)
    BY <1>1, <1>2, <1>3, PurgeNextCall
    DEF PurgeOwner, At, Shape, Call, JobPcs, TokenPcs, UniquePcs, HandPcs, LeasePcs, GonePcs
  <1>6. proc' \in [Procs -> Call] /\ Shaped'
    BY <1>1, <1>4, <1>5, GotoTypes
  <1> QED
    BY <1>1, <1>2, <1>3, <1>6 DEF PurgeOwner, At, TypeInv, RedisTypes, store, history

LEMMA ScanQueueTypes ==
  ASSUME TypeInv, NEW p \in Procs, ScanQueue(p)
  PROVE  TypeInv'
  <1> DEFINE s == proc[p]
             T(q) == IF s.op = "reserve" THEN Expired(q, s.at) ELSE Due(q, s.at)
             u(q) == [s EXCEPT !.scan = s.scan \ {q}, !.todo = T(q)]
  <1>1. PICK q \in s.scan : Goto(p, Continue(u(q)))
    BY DEF ScanQueue
  <1>2. s \in Call /\ s.op \in {"reserve", "promote"}
    BY ThisCall DEF ScanQueue, At, Shape
  <1>3. T(q) \subseteq Tokens \cup Jobs
    BY DEF TypeInv, RedisTypes, Expired, Due
  <1>4. u(q) \in Call /\ u(q).op = s.op
    <2> HIDE DEF T
    <2> QED
      BY <1>2, <1>3 DEF Call
  <1>5. proc' \in [Procs -> Call] /\ Shaped'
    BY <1>1, <1>2, <1>4, ContinueCall, GotoTypes
  <1> QED
    BY <1>5 DEF ScanQueue, TypeInv, RedisTypes, store, history

LEMMA ReclaimClaimTypes ==
  ASSUME TypeInv, NEW p \in Procs, ReclaimClaim(p)
  PROVE  TypeInv'
  <1> DEFINE s == proc[p]
             rest(t) == [s EXCEPT !.todo = s.todo \ {t}]
             n(t) == IF \E l \in processing : l.token = t
                     THEN [rest(t) EXCEPT !.pc = "ref", !.token = t]
                     ELSE Continue(rest(t))
  <1>1. PICK t \in s.todo : Goto(p, n(t)) /\ processing' = {l \in processing : l.token # t}
    BY DEF ReclaimClaim
  <1>2. s \in Call /\ s.op = "reserve"
    BY ThisCall DEF ReclaimClaim
  <1>3. rest(t) \in Call /\ rest(t).op = "reserve"
    BY <1>2 DEF Call
  <1>4. n(t) \in Call /\ Shape(n(t))
    <2>1. CASE \E l \in processing : l.token = t
      <3>1. t \in Tokens
        BY <2>1 DEF TypeInv, RedisTypes
      <3>2. [rest(t) EXCEPT !.pc = "ref", !.token = t] \in Call
        BY <1>2, <3>1 DEF Call, Labels, TokenPcs, UniquePcs, GonePcs
      <3>3. /\ n(t).pc = "ref" /\ n(t).token = t /\ n(t).op = "reserve" /\ n(t) \in Call
        BY <1>2, <2>1, <3>2 DEF Call
      <3> HIDE DEF n
      <3> QED
        BY <3>1, <3>3 DEF Shape, JobPcs, TokenPcs, UniquePcs, HandPcs, LeasePcs, GonePcs
    <2>2. CASE ~\E l \in processing : l.token = t
      BY <1>3, <2>2, ContinueCall
    <2> QED
      BY <2>1, <2>2
  <1>5. proc' \in [Procs -> Call] /\ Shaped'
    BY <1>1, <1>4, GotoTypes
  <1> QED
    BY <1>1, <1>5 DEF ReclaimClaim, TypeInv, RedisTypes, history

LEMMA PromoteClaimTypes ==
  ASSUME TypeInv, NEW p \in Procs, PromoteClaim(p)
  PROVE  TypeInv'
  <1> DEFINE s == proc[p]
             rest(i) == [s EXCEPT !.todo = s.todo \ {i}]
             n(i) == IF \E d \in delayed : d.id = i
                     THEN [rest(i) EXCEPT !.pc = "loadDue", !.id = i]
                     ELSE Continue(rest(i))
  <1>1. PICK i \in s.todo : Goto(p, n(i)) /\ delayed' = {d \in delayed : d.id # i}
    BY DEF PromoteClaim
  <1>2. s \in Call /\ s.op = "promote"
    BY ThisCall DEF PromoteClaim
  <1>3. rest(i) \in Call /\ rest(i).op = "promote"
    BY <1>2 DEF Call
  <1>4. n(i) \in Call /\ Shape(n(i))
    <2>1. CASE \E d \in delayed : d.id = i
      <3>1. i \in Jobs
        BY <2>1 DEF TypeInv, RedisTypes
      <3>2. [rest(i) EXCEPT !.pc = "loadDue", !.id = i] \in Call
        BY <1>2, <3>1 DEF Call, Labels, JobPcs, HandPcs
      <3>3. /\ n(i).pc = "loadDue" /\ n(i).id = i /\ n(i).op = "promote" /\ n(i) \in Call
        BY <1>2, <2>1, <3>2 DEF Call
      <3> HIDE DEF n
      <3> QED
        BY <3>1, <3>3 DEF Shape, JobPcs, TokenPcs, UniquePcs, HandPcs, LeasePcs, GonePcs
    <2>2. CASE ~\E d \in delayed : d.id = i
      BY <1>3, <2>2, ContinueCall
    <2> QED
      BY <2>1, <2>2
  <1>5. proc' \in [Procs -> Call] /\ Shaped'
    BY <1>1, <1>4, GotoTypes
  <1> QED
    BY <1>1, <1>5 DEF PromoteClaim, TypeInv, RedisTypes, history

LEMMA PopHeadTypes ==
  ASSUME TypeInv, NEW p \in Procs, PopHead(p)
  PROVE  TypeInv'
  <1> DEFINE s == proc[p]
  <1>1. s \in Call /\ s.op = "reserve" /\ s.todo = {}
    BY ThisCall DEF PopHead, At, Shape
  <1>2. \/ Goto(p, NextQueue(s))
        \/ \E i \in Jobs : Goto(p, [s EXCEPT !.pc = "pop", !.id = i])
    BY DEF PopHead
  <1>3. ASSUME NEW i \in Jobs
        PROVE  LET n == [s EXCEPT !.pc = "pop", !.id = i] IN n \in Call /\ Shape(n)
    <2> DEFINE n == [s EXCEPT !.pc = "pop", !.id = i]
    <2>1. n \in Call
      BY <1>1 DEF Call, Labels, JobPcs
    <2>2. n.pc = "pop" /\ n.id = i /\ n.op = "reserve" /\ n.todo = {}
      BY <1>1 DEF Call
    <2> HIDE DEF n
    <2>3. Shape(n)
      BY <2>2 DEF Shape, JobPcs, TokenPcs, UniquePcs, HandPcs, LeasePcs, GonePcs
    <2> QED
      BY <2>1, <2>3 DEF n
  <1>4. proc' \in [Procs -> Call] /\ Shaped'
    BY <1>1, <1>2, <1>3, NextQueueCall, GotoTypes
  <1> QED
    BY <1>4 DEF PopHead, TypeInv, RedisTypes, store, history

LEMMA SettleTypes ==
  ASSUME TypeInv, NEW p \in Procs, NEW op \in {"ack", "nack", "dead"}, NEW delay \in 0..1,
         Settle(p, op, delay)
  PROVE  TypeInv'
  <1> DEFINE s == proc[p]
             a == IF delay > 0 THEN now + delay ELSE 0
             l == IF op = "dead" \/ owner[s.id] = s.token THEN "unlease" ELSE "loseRes"
             n == [s EXCEPT !.op = op, !.at = a, !.pc = l]
  <1>1. s \in Call /\ s.id \in Jobs /\ s.token \in Tokens
    <2>1. s \in Call /\ Shape(s) /\ s.pc = "holding"
      BY ThisCall DEF Settle, At
    <2> QED
      BY <2>1, RedisAssumption DEF Shape, JobPcs, TokenPcs, UniquePcs, LeasePcs
  <1>2. Goto(p, n)
    BY DEF Settle
  <1>3. a \in Nat /\ l \in {"unlease", "loseRes"} /\ (l = "loseRes" => op # "dead")
    BY DEF TypeInv, RedisTypes
  <1>4. n \in Call /\ Shape(n)
    <2> HIDE DEF a, l
    <2>1. n \in Call
      BY <1>1, <1>3 DEF Call, Ops, Labels, TokenPcs, UniquePcs, LeasePcs
    <2>2. n.pc = l /\ n.op = op /\ n.id = s.id /\ n.token = s.token
      BY <1>1 DEF Call
    <2> HIDE DEF n
    <2> QED
      BY <1>1, <1>3, <2>1, <2>2
      DEF Shape, JobPcs, TokenPcs, UniquePcs, HandPcs, LeasePcs, GonePcs
  <1>5. proc' \in [Procs -> Call] /\ Shaped'
    BY <1>2, <1>4, GotoTypes
  <1> QED
    BY <1>1, <1>5 DEF Settle, TypeInv, RedisTypes, store

LEMMA PurgeJobTypes ==
  ASSUME TypeInv, NEW p \in Procs, PurgeJob(p)
  PROVE  TypeInv'
  <1> DEFINE s == proc[p]
             n(id) == [s EXCEPT !.pc = "purgeOwner", !.id = id, !.todo = s.todo \ {id}]
  <1>1. PICK id \in s.todo : /\ job' = [job EXCEPT ![id] = None]
                             /\ Goto(p, n(id)) /\ discarded' = discarded \cup {id}
    BY DEF PurgeJob
  <1>2. s \in Call /\ s.op = "purge" /\ s.todo \subseteq Jobs
    BY ThisCall DEF PurgeJob, At, Shape
  <1>3. n(id) \in Call /\ Shape(n(id))
    <2>1. n(id) \in Call
      BY <1>2 DEF Call, Labels, JobPcs
    <2>2. /\ n(id).pc = "purgeOwner" /\ n(id).id \in Jobs /\ n(id).op = "purge"
          /\ n(id).todo \subseteq Jobs
      BY <1>2 DEF Call
    <2> HIDE DEF n
    <2> QED
      BY <2>1, <2>2 DEF Shape, JobPcs, TokenPcs, UniquePcs, HandPcs, LeasePcs, GonePcs
  <1>4. proc' \in [Procs -> Call] /\ Shaped'
    BY <1>1, <1>3, GotoTypes
  <1> QED
    BY <1>1, <1>2, <1>4 DEF PurgeJob, TypeInv, RedisTypes

LEMMA FlushDeadTypes ==
  ASSUME TypeInv, NEW p \in Procs, NEW q, FlushDead(p, q)
  PROVE  TypeInv'
  <1>1. dead' \subseteq dead /\ discarded' \subseteq Jobs /\ calls' \in Nat
    BY DEF FlushDead, OperatorCall, TypeInv, RedisTypes
  <1> QED
    BY <1>1 DEF FlushDead, TypeInv, RedisTypes, Shaped

LEMMA CrashTypes ==
  ASSUME TypeInv, NEW p \in Procs, Crash(p)
  PROVE  TypeInv'
  <1> DEFINE s == proc[p]
             lost == IF InHand(s) THEN {s.id}
                     ELSE IF s.pc = "ref" THEN {res[s.token]} ELSE {}
  <1>1. s \in Call /\ Shape(s)
    BY ThisCall
  <1>2. lost \ {None} \subseteq Jobs
    <2>1. s.pc = "ref" => s.token \in Tokens
      BY <1>1 DEF Shape, TokenPcs, UniquePcs, GonePcs
    <2> QED
      BY <1>1, <2>1 DEF Call, TypeInv, RedisTypes
  <1>3. proc' \in [Procs -> Call] /\ Shaped'
    BY IdleCall, GotoTypes DEF Crash
  <1>4. exposed' \subseteq Jobs /\ crashes' \in Nat
    BY <1>2 DEF Crash, TypeInv, RedisTypes
  <1> QED
    BY <1>3, <1>4 DEF Crash, TypeInv, RedisTypes, store

LEMMA TickTypes == ASSUME TypeInv, Tick PROVE TypeInv'
  BY DEF Tick, TypeInv, RedisTypes, Shaped, store, history

LEMMA NextTypes ==
  ASSUME TypeInv, RedisNext
  PROVE  TypeInv'
  <1>1. ASSUME NEW p \in Procs, Command(p) PROVE TypeInv'
    BY <1>1, EnqueueAddTypes, ScanQueueTypes, ReclaimClaimTypes,
       ReclaimRefTypes, ReclaimDelRefTypes, ReclaimLoadTypes, ReclaimAddTypes,
       ReclaimDisownTypes, PromoteClaimTypes, PromoteLoadTypes,
       PromoteAddTypes, PopHeadTypes, PopClaimTypes, PopLoadTypes,
       PopPersistTypes, PopLeaseTypes, PopResTypes, PopOwnerTypes,
       LoserDelResTypes, LoserDelLeaseTypes, RemoveLeaseTypes, RemoveResTypes,
       RemoveOwnerTypes, NackPersistTypes, NackAddTypes, BuryTypes,
       DeleteJobTypes, DeadTakeTypes, RetryPersistTypes, PurgeDelayedTypes,
       PurgeJobTypes, PurgeOwnerTypes, DropReadyTypes, DropDelayedTypes
       DEF Command
  <1>2. ASSUME NEW p \in Procs, Handled(p) PROVE TypeInv'
    <2>1. PICK op \in {"ack", "nack", "dead"}, delay \in 0..1 : Settle(p, op, delay)
      BY <1>2 DEF Handled
    <2> QED
      BY <2>1, SettleTypes
  <1>3. CASE Tick
    BY <1>3, TickTypes
  <1>4. ASSUME NEW p \in Procs, Crash(p) PROVE TypeInv'
    BY <1>4, CrashTypes
  <1>5. ASSUME NEW p \in Procs, KnownQueues(p, "reserve") \/ KnownQueues(p, "promote")
        PROVE  TypeInv'
    BY <1>5, KnownQueuesTypes
  <1>6. ASSUME NEW p \in Procs, NEW id \in Jobs, NEW delay \in 0..1,
               EnqueuePersist(p, id, delay)
        PROVE  TypeInv'
    BY <1>6, EnqueuePersistTypes
  <1>7. ASSUME NEW p \in Procs, NEW d \in dead, DeadFind(p, d) PROVE TypeInv'
    BY <1>7, DeadFindTypes
  <1>8. ASSUME NEW p \in Procs, NEW q \in queues, FlushDead(p, q) \/ PurgeReady(p, q)
        PROVE  TypeInv'
    BY <1>8, FlushDeadTypes, PurgeReadyTypes
  <1> QED
    BY <1>1, <1>2, <1>3, <1>4, <1>5, <1>6, <1>7, <1>8 DEF RedisNext

LEMMA InitTypes == RedisInit => TypeInv
  BY IdleCall, RedisAssumption DEF RedisInit, TypeInv, RedisTypes, Shaped

(* Whatever the processes do, every command finds in the store and in the  *)
(* registers of its call the kinds of values its code expects: a job id    *)
(* where it dereferences one, a token where it deletes one.                *)
THEOREM RedisTypeCorrect == RedisSpec => []RedisTypes
<1>1. TypeInv /\ UNCHANGED redisVars => TypeInv'
  BY DEF TypeInv, RedisTypes, Shaped, redisVars, store, history
<1>2. TypeInv /\ [RedisNext]_redisVars => TypeInv'
  BY <1>1, NextTypes
<1>3. TypeInv => RedisTypes
  BY DEF TypeInv
<1> QED
  BY <1>2, <1>3, InitTypes, PTL DEF RedisSpec

----------------------------------------------------------------------------
(* What a process that goes from one command to the next leaves alone.     *)
LEMMA Others ==
  ASSUME TypeInv, NEW p \in Procs, NEW n, Goto(p, n)
  PROVE  /\ proc'[p] = n
         /\ \A r \in Procs : r # p => proc'[r] = proc[r]
  BY DEF Goto, TypeInv, RedisTypes

(* The leases stay as they are and the process keeps its part of them.     *)
Quieter(s, n) ==
  /\ n.pc \in UniquePcs => s.pc \in UniquePcs /\ n.token = s.token
  /\ n.pc \in LeasePcs => s.pc \in LeasePcs /\ n.id = s.id
  /\ n.pc \in GonePcs => s.pc \in GonePcs
  /\ n.pc \notin {"res", "loseLease"}
  /\ n.op = "reserve" => \/ n.at = now /\ n.todo = {}
                         \/ s.op = "reserve" /\ n.at = s.at /\ n.todo \subseteq s.todo

LEMMA LeasesQuiet ==
  ASSUME TypeInv, LeaseInv, NEW p \in Procs, NEW n, Goto(p, n), Quieter(proc[p], n),
         UNCHANGED <<now, token, processing, res>>
  PROVE  LeaseInv'
  <1>1. /\ proc'[p] = n
        /\ \A r \in Procs : r # p => proc'[r] = proc[r]
    BY Others
  <1>2. FreshTokens'
    BY <1>1 DEF LeaseInv, FreshTokens, Quieter
  <1>3. CallsAreYoung'
    <2> SUFFICES ASSUME NEW r \in Procs, proc'[r].op = "reserve"
                 PROVE  /\ proc'[r].at <= now' /\ now' < proc'[r].at + VisibilityMs
                        /\ \A t \in proc'[r].todo :
                             /\ t \in Tokens /\ t <= token'
                             /\ \A l \in processing' : l.token = t => l.expires <= proc'[r].at
      BY DEF CallsAreYoung
    <2>1. CASE r = p /\ n.at = now /\ n.todo = {}
      <3>1. now \in Nat /\ VisibilityMs \in Nat \ {0}
        BY RedisAssumption DEF TypeInv, RedisTypes
      <3> QED
        BY <1>1, <2>1, <3>1
    <2>2. CASE r = p /\ ~(n.at = now /\ n.todo = {})
      BY <1>1, <2>2 DEF LeaseInv, CallsAreYoung, Quieter
    <2>3. CASE r # p
      BY <1>1, <2>3 DEF LeaseInv, CallsAreYoung
    <2> QED
      BY <2>1, <2>2, <2>3
  <1>4. LeasesHeld'
    <2> SUFFICES ASSUME NEW r \in Procs PROVE KeepsLease(proc[r])'
      BY DEF LeasesHeld
    <2>1. KeepsLease(proc[r])
      BY DEF LeaseInv, LeasesHeld
    <2>2. CASE r = p
      <3>1. /\ n.pc \in LeasePcs => n.token = proc[p].token
            /\ n.pc \in GonePcs => n.token = proc[p].token
        BY DEF Quieter, UniquePcs
      <3> QED
        BY <1>1, <2>1, <2>2, <3>1 DEF KeepsLease, HasLease, Quieter
    <2>3. CASE r # p
      BY <1>1, <2>1, <2>3 DEF KeepsLease, HasLease
    <2> QED
      BY <2>2, <2>3
  <1>5. UniqueTokens'
    BY <1>1 DEF LeaseInv, UniqueTokens, Quieter
  <1> QED
    BY <1>2, <1>3, <1>4, <1>5 DEF LeaseInv

LEMMA HandsNow ==
  ASSUME TypeInv, NEW p \in Procs, NEW n, Goto(p, n),
         \A r \in Procs : r # p /\ proc[r].pc = "ref"
                            => res'[proc[r].token] = res[proc[r].token]
  PROVE  \A id \in Jobs :
           Hands(id)' = (Hands(id) \ {p}) \cup
                        {q \in {p} : \/ n.pc \in HandPcs /\ n.id = id
                                     \/ n.pc = "ref" /\ res'[n.token] = id}
  BY Others DEF Hands, Grips

LEMMA SameStore ==
  /\ UNCHANGED delayed => \A id \in Jobs : Waits(id)' = Waits(id)
  /\ UNCHANGED dead => \A id \in Jobs : Graves(id)' = Graves(id)
  /\ UNCHANGED <<processing, res>> => \A id \in Jobs : Leases(id)' = Leases(id)
  BY DEF Waits, Graves, Leases, HasLease

(* The books stay right when the process takes up no job that is not there. *)
LEMMA BookedGoto ==
  ASSUME TypeInv, Booked, NEW p \in Procs, NEW n, Goto(p, n), accepted' = accepted,
         ready' \subseteq accepted,
         \A d \in delayed' : d.id \in accepted,
         \A d \in dead' : d.id \in accepted,
         \A t \in Tokens : res'[t] # None => res'[t] \in accepted,
         \A r \in Procs : r # p /\ New(proc[r]) => job'[proc[r].id] # None,
         New(n) => n.id \notin accepted /\ job'[n.id] # None,
         n.pc \in JobPcs \cup {"unref"} /\ ~New(n) /\ n.id # None => n.id \in accepted,
         n.op = "purge" => n.todo \subseteq accepted
  PROVE  Booked'
  BY Others DEF Booked, New

LEMMA OwedShrinks ==
  ASSUME succeeded \subseteq succeeded', discarded \subseteq discarded',
         exposed \subseteq exposed'
  PROVE  \A id \in accepted : id \in Owed' => id \in Owed
  BY DEF Owed

LEMMA SettlingGoto ==
  ASSUME TypeInv, Booked, Settling, NEW p \in Procs, NEW n, Goto(p, n),
         succeeded \subseteq succeeded', discarded \subseteq discarded',
         exposed \subseteq exposed',
         \A r \in Procs : r # p /\ proc[r].pc = "holding" =>
           \/ owner'[proc[r].id] = owner[proc[r].id]
           \/ owner'[proc[r].id] = proc[r].token
           \/ proc[r].id \notin Owed',
         n.op = "ack" => n.id \in succeeded',
         n.pc = "loseRes" => n.id \notin Owed',
         n.pc = "holding" /\ owner'[n.id] # n.token => n.id \notin Owed',
         n.pc = "purgeOwner" => n.id \in discarded'
  PROVE  Settling'
  <1> SUFFICES ASSUME NEW r \in Procs
               PROVE  LET s == proc'[r] IN
                      /\ s.op = "ack" => s.id \in succeeded'
                      /\ s.pc = "loseRes" => s.id \notin Owed'
                      /\ s.pc = "holding" /\ owner'[s.id] # s.token => s.id \notin Owed'
                      /\ s.pc = "purgeOwner" => s.id \in discarded'
    BY DEF Settling
  <1>1. CASE r = p
    BY <1>1, Others
  <1>2. CASE r # p
    <2>1. proc'[r] = proc[r]
      BY <1>2, Others
    <2>2. proc[r].pc \in {"loseRes", "holding"} => proc[r].id \in accepted
      BY RedisAssumption, ThisCall DEF Booked, New, JobPcs, LeasePcs, Shape
    <2> QED
      BY <1>2, <2>1, <2>2, OwedShrinks DEF Settling
  <1> QED
    BY <1>1, <1>2

LEMMA StoredGoto ==
  ASSUME TypeInv, NEW p \in Procs, NEW n, Goto(p, n), NEW id \in Jobs, Stored(id),
         job'[id] = job[id] \/ job'[id] # None, Graves(id) # {} => Graves(id)' # {},
         proc[p].pc # "revive" \/ proc[p].id # id
  PROVE  Stored(id)'
  <1>1. \A r \in Procs : r # p => proc'[r] = proc[r]
    BY Others
  <1> QED
    BY <1>1 DEF Stored

----------------------------------------------------------------------------
(* Leases are taken, removed and kept.                                     *)

(* The lease, the reservation record or both of one token are removed, and *)
(* no other process has that token.                                        *)
LEMMA LeaseRemoved ==
  ASSUME TypeInv, TypeInv', LeaseInv, NEW p \in Procs, NEW n, Goto(p, n), NEW t \in Tokens,
         UNCHANGED <<now, token>>, processing' \subseteq processing,
         \A l \in processing : l.token # t => l \in processing',
         \A u \in Tokens : u # t => res'[u] = res[u],
         res'[t] = res[t] \/ res'[t] = None,
         \A r \in Procs : r # p /\ proc[r].pc \in UniquePcs => proc[r].token # t,
         n.pc \in UniquePcs => n.token = t /\ t <= token,
         n.pc \notin LeasePcs \cup {"res"},
         n.pc \in GonePcs => \A l \in processing' : l.token # t,
         n.pc = "loseLease" => /\ res'[t] = None
                               /\ \A l \in processing : l.token = t => l.expires > now,
         n.op = "reserve" => /\ proc[p].op = "reserve" /\ n.at = proc[p].at
                             /\ n.todo \subseteq proc[p].todo
  PROVE  LeaseInv'
  <1>1. /\ proc'[p] = n
        /\ \A r \in Procs : r # p => proc'[r] = proc[r]
    BY Others
  <1>2. FreshTokens'
    BY <1>1 DEF LeaseInv, FreshTokens
  <1>3. CallsAreYoung'
    BY <1>1 DEF LeaseInv, CallsAreYoung
  <1>4. LeasesHeld'
    <2> SUFFICES ASSUME NEW r \in Procs PROVE KeepsLease(proc[r])'
      BY DEF LeasesHeld
    <2>2. CASE r = p
      <3>1. n.pc \in GonePcs \cup {"loseLease"} => n.token = t
        BY DEF UniquePcs
      <3> QED
        BY <1>1, <2>2, <3>1 DEF KeepsLease, HasLease
    <2>3. CASE r # p
      <3>1. KeepsLease(proc[r]) /\ proc'[r] = proc[r] /\ Shape(proc[r])
        BY <1>1, <2>3, ThisCall DEF LeaseInv, LeasesHeld
      <3>2. proc[r].pc \in UniquePcs => proc[r].token \in Tokens /\ proc[r].token # t
        BY <2>3, <3>1 DEF Shape, TokenPcs
      <3>3. proc[r].pc \in UniquePcs =>
              /\ res'[proc[r].token] = res[proc[r].token]
              /\ \A l \in processing : l.token = proc[r].token => l \in processing'
        BY <3>2
      <3>4. LeasePcs \cup {"res", "loseLease"} \cup GonePcs = UniquePcs
        BY DEF UniquePcs
      <3> QED
        BY <3>1, <3>3, <3>4 DEF KeepsLease, HasLease
    <2> QED
      BY <2>2, <2>3
  <1>5. UniqueTokens'
    BY <1>1 DEF LeaseInv, UniqueTokens
  <1> QED
    BY <1>2, <1>3, <1>4, <1>5 DEF LeaseInv

LEMMA ScanQueueLease ==
  ASSUME TypeInv, LeaseInv, NEW p \in Procs, ScanQueue(p)
  PROVE  LeaseInv'
  <1> DEFINE s == proc[p]
             T(q) == IF s.op = "reserve" THEN Expired(q, s.at) ELSE Due(q, s.at)
             u(q) == [s EXCEPT !.scan = s.scan \ {q}, !.todo = T(q)]
  <1>1. PICK q \in s.scan : Goto(p, Continue(u(q)))
    BY DEF ScanQueue
  <1>2. s \in Call /\ s.op \in {"reserve", "promote"}
    BY ThisCall DEF ScanQueue, At, Shape
  <1>3. T(q) \subseteq Tokens \cup Jobs
    BY DEF TypeInv, RedisTypes, Expired, Due
  <1>4. u(q) \in Call /\ u(q).op = s.op /\ u(q).at = s.at /\ u(q).todo = T(q)
    <2> HIDE DEF T
    <2> QED
      BY <1>2, <1>3 DEF Call
  <1> DEFINE n == Continue(u(q))
  <1>5. /\ n.pc \notin UniquePcs
        /\ n.op = "reserve" => s.op = "reserve" /\ n.at = s.at /\ n.todo = T(q)
    <2> HIDE DEF T, u
    <2>1. /\ n.pc \in {"claim", "scan", "head", "idle"}
          /\ n = Idle \/ (n.op = s.op /\ n.at = s.at /\ n.todo = T(q))
      BY <1>2, <1>4, ContinueCall
    <2> HIDE DEF n
    <2> QED
      BY <2>1, RedisAssumption DEF Idle, UniquePcs, LeasePcs, GonePcs
  <1> HIDE DEF n, u
  <1>6. /\ proc'[p] = n
        /\ \A r \in Procs : r # p => proc'[r] = proc[r]
    BY <1>1, Others DEF n
  <1>7. UNCHANGED <<now, token, processing, res>>
    BY DEF ScanQueue, store
  <1>8. FreshTokens' /\ UniqueTokens'
    BY <1>5, <1>6, <1>7 DEF LeaseInv, FreshTokens, UniqueTokens
  <1>9. LeasesHeld'
    <2> SUFFICES ASSUME NEW r \in Procs PROVE KeepsLease(proc[r])'
      BY DEF LeasesHeld
    <2>1. KeepsLease(proc[r])
      BY DEF LeaseInv, LeasesHeld
    <2> QED
      BY <1>5, <1>6, <1>7, <2>1 DEF KeepsLease, HasLease, UniquePcs
  <1>10. CallsAreYoung'
    <2>1. ASSUME s.op = "reserve", NEW t \in T(q)
          PROVE  /\ t \in Tokens /\ t <= token
                 /\ \A l \in processing : l.token = t => l.expires <= s.at
      <3>1. PICK l \in processing : l.token = t /\ l.expires <= s.at
        BY <2>1 DEF Expired
      <3>2. t \in Tokens /\ t <= token
        BY <3>1 DEF LeaseInv, FreshTokens, TypeInv, RedisTypes
      <3> QED
        BY <3>1, <3>2 DEF LeaseInv, FreshTokens
    <2> HIDE DEF T
    <2> QED
      BY <1>5, <1>6, <1>7, <2>1 DEF LeaseInv, CallsAreYoung
  <1> QED
    BY <1>8, <1>9, <1>10 DEF LeaseInv

LEMMA PopLeaseLease ==
  ASSUME TypeInv, TypeInv', LeaseInv, NEW p \in Procs, PopLease(p)
  PROVE  LeaseInv'
  <1> DEFINE s == proc[p]
             n == [s EXCEPT !.pc = "res", !.token = token + 1]
             k == [token |-> token + 1, queue |-> QueueOf(s.id), expires |-> s.at + VisibilityMs]
  <1>1. /\ s \in Call /\ s.pc = "lease" /\ s.op = "reserve" /\ s.todo = {} /\ s.at \in Nat
        /\ token' = token + 1 /\ token \in Nat /\ processing' = processing \cup {k}
        /\ Goto(p, n) /\ UNCHANGED <<now, res>>
    <2>1. s \in Call /\ Shape(s) /\ token \in Nat
      BY ThisCall DEF TypeInv, RedisTypes
    <2> QED
      BY <2>1 DEF PopLease, At, Shape, Call
  <1>2. n.pc = "res" /\ n.token = token + 1 /\ n.op = "reserve" /\ n.at = s.at /\ n.todo = {}
    BY <1>1 DEF Call
  <1> HIDE DEF n
  <1>3. /\ proc'[p] = n
        /\ \A r \in Procs : r # p => proc'[r] = proc[r]
    BY <1>1, Others
  <1>4. \A l \in processing : l.token \in Nat /\ l.token <= token
    BY DEF LeaseInv, FreshTokens, TypeInv, RedisTypes, Tokens
  <1>5. \A r \in Procs : proc[r].pc \in UniquePcs => proc[r].token \in Tokens /\ proc[r].token <= token
    BY ThisCall DEF LeaseInv, FreshTokens, Shape, TokenPcs
  <1>6. token + 1 \in Tokens /\ res[token + 1] = None
    <2>1. token' \in Nat /\ token' <= MaxToken
      BY DEF TypeInv, RedisTypes
    <2>2. token + 1 \in Tokens
      BY <1>1, <2>1 DEF Tokens
    <2> QED
      BY <1>1, <2>2 DEF LeaseInv, FreshTokens
  <1>7. FreshTokens'
    <2>1. \A l \in processing' : l.token <= token'
      BY <1>1, <1>4
    <2>2. \A l, m \in processing' : l.token = m.token => l = m
      BY <1>1, <1>4 DEF LeaseInv, FreshTokens
    <2>3. \A t \in Tokens : t > token' => res'[t] = None
      BY <1>1 DEF LeaseInv, FreshTokens, Tokens
    <2>4. \A r \in Procs : proc'[r].pc \in UniquePcs => proc'[r].token <= token'
      BY <1>1, <1>2, <1>3, <1>5 DEF Tokens
    <2> QED
      BY <2>1, <2>2, <2>3, <2>4 DEF FreshTokens
  <1>8. CallsAreYoung'
    <2> SUFFICES ASSUME NEW r \in Procs, proc'[r].op = "reserve"
                 PROVE  /\ proc'[r].at <= now' /\ now' < proc'[r].at + VisibilityMs
                        /\ \A t \in proc'[r].todo :
                             /\ t \in Tokens /\ t <= token'
                             /\ \A l \in processing' : l.token = t => l.expires <= proc'[r].at
      BY DEF CallsAreYoung
    <2>1. CASE r = p
      BY <1>1, <1>2, <1>3, <2>1 DEF LeaseInv, CallsAreYoung
    <2>2. CASE r # p
      <3>1. \A t \in proc[r].todo : t \in Nat /\ t <= token
        BY <1>3, <2>2 DEF LeaseInv, CallsAreYoung, Tokens
      <3> QED
        BY <1>1, <1>3, <2>2, <3>1 DEF LeaseInv, CallsAreYoung
    <2> QED
      BY <2>1, <2>2
  <1>9. LeasesHeld'
    <2> SUFFICES ASSUME NEW r \in Procs PROVE KeepsLease(proc[r])'
      BY DEF LeasesHeld
    <2>1. CASE r = p
      <3>1. k \in processing' /\ k.token = token + 1 /\ k.expires > now
        BY <1>1, RedisAssumption DEF LeaseInv, CallsAreYoung, TypeInv, RedisTypes
      <3>2. \A l \in processing' : l.token = token + 1 => l = k
        BY <1>1, <1>4
      <3> HIDE DEF k
      <3> QED
        BY <1>1, <1>2, <1>3, <1>6, <2>1, <3>1, <3>2
        DEF KeepsLease, HasLease, LeasePcs, GonePcs
    <2>2. CASE r # p
      <3>1. KeepsLease(proc[r]) /\ proc'[r] = proc[r]
        BY <1>3, <2>2 DEF LeaseInv, LeasesHeld
      <3>2. proc[r].pc \in UniquePcs => k.token # proc[r].token
        BY <1>1, <1>5 DEF Tokens
      <3> HIDE DEF k
      <3> QED
        BY <1>1, <3>1, <3>2 DEF KeepsLease, HasLease, UniquePcs
    <2> QED
      BY <2>1, <2>2
  <1>10. UniqueTokens'
    <2>1. \A r \in Procs : proc[r].pc \in UniquePcs => proc[r].token # token + 1
      BY <1>1, <1>5 DEF Tokens
    <2> QED
      BY <1>2, <1>3, <2>1 DEF LeaseInv, UniqueTokens
  <1> QED
    BY <1>7, <1>8, <1>9, <1>10 DEF LeaseInv

LEMMA PopResLease ==
  ASSUME TypeInv, LeaseInv, NEW p \in Procs, PopRes(p)
  PROVE  LeaseInv'
  <1> DEFINE s == proc[p]
             n == [s EXCEPT !.pc = "own"]
  <1>1. /\ s \in Call /\ s.pc = "res" /\ s.token \in Tokens
        /\ res' = [res EXCEPT ![s.token] = s.id]
        /\ Goto(p, n) /\ UNCHANGED <<now, token, processing>>
    <2>1. s \in Call /\ Shape(s)
      BY ThisCall
    <2> QED
      BY <2>1 DEF PopRes, Step, At, Shape, TokenPcs, UniquePcs
  <1>2. n.pc = "own" /\ n.token = s.token /\ n.op = s.op /\ n.at = s.at /\ n.todo = s.todo /\ n.id = s.id
    BY <1>1 DEF Call
  <1> HIDE DEF n
  <1>3. /\ proc'[p] = n
        /\ \A r \in Procs : r # p => proc'[r] = proc[r]
    BY <1>1, Others
  <1>4. s.pc \in UniquePcs /\ s.token <= token
    BY <1>1 DEF UniquePcs, LeaseInv, FreshTokens
  <1>5. FreshTokens' /\ UniqueTokens' /\ CallsAreYoung'
    <2>1. \A t \in Tokens : t > token' => res'[t] = None
      BY <1>1, <1>4 DEF LeaseInv, FreshTokens, TypeInv, RedisTypes, Tokens
    <2>2. FreshTokens'
      BY <1>1, <1>2, <1>3, <1>4, <2>1 DEF LeaseInv, FreshTokens
    <2>3. UniqueTokens'
      BY <1>2, <1>3, <1>4 DEF LeaseInv, UniqueTokens
    <2>4. CallsAreYoung'
      BY <1>1, <1>2, <1>3 DEF LeaseInv, CallsAreYoung
    <2> QED
      BY <2>2, <2>3, <2>4
  <1>6. LeasesHeld'
    <2> SUFFICES ASSUME NEW r \in Procs PROVE KeepsLease(proc[r])'
      BY DEF LeasesHeld
    <2>1. KeepsLease(proc[r])
      BY DEF LeaseInv, LeasesHeld
    <2>2. CASE r = p
      BY <1>1, <1>2, <1>3, <2>1, <2>2
      DEF KeepsLease, HasLease, LeasePcs, GonePcs, TypeInv, RedisTypes
    <2>3. CASE r # p
      <3>1. proc[r].pc \in UniquePcs => proc[r].token # s.token
        BY <1>4, <2>3 DEF LeaseInv, UniqueTokens
      <3>2. proc[r].pc \in UniquePcs => res'[proc[r].token] = res[proc[r].token]
        BY <1>1, <3>1 DEF TypeInv, RedisTypes
      <3>3. LeasePcs \cup {"res", "loseLease"} \cup GonePcs = UniquePcs
        BY DEF UniquePcs
      <3> QED
        BY <1>1, <1>3, <2>1, <2>3, <3>2, <3>3 DEF KeepsLease, HasLease
    <2> QED
      BY <2>2, <2>3
  <1> QED
    BY <1>5, <1>6 DEF LeaseInv

(* Time passes only while the live processes keep their leases.            *)
LEMMA TickLease ==
  ASSUME TypeInv, LeaseInv, Tick, ~SlowHandlers
  PROVE  LeaseInv'
  <1>1. /\ now' = now + 1 /\ now \in Nat
        /\ UNCHANGED <<token, processing, res, proc>>
        /\ \A p \in Procs : Prompt(p)
    BY DEF Tick, store, TypeInv, RedisTypes
  <1>2. FreshTokens' /\ UniqueTokens'
    BY <1>1 DEF LeaseInv, FreshTokens, UniqueTokens
  <1>3. CallsAreYoung'
    <2> SUFFICES ASSUME NEW r \in Procs, proc'[r].op = "reserve"
                 PROVE  /\ proc'[r].at <= now' /\ now' < proc'[r].at + VisibilityMs
                        /\ \A t \in proc'[r].todo :
                             /\ t \in Tokens /\ t <= token'
                             /\ \A l \in processing' : l.token = t => l.expires <= proc'[r].at
      BY DEF CallsAreYoung
    <2>1. proc[r].at \in Nat /\ proc[r].at <= now /\ now + 1 < proc[r].at + VisibilityMs
      <3>1. proc[r].at + VisibilityMs > now + 1 /\ proc[r].at \in Nat
        BY <1>1, ThisCall DEF Prompt, Call
      <3> QED
        BY <1>1, <3>1, RedisAssumption DEF LeaseInv, CallsAreYoung
    <2> QED
      BY <1>1, <2>1 DEF LeaseInv, CallsAreYoung
  <1>4. LeasesHeld'
    BY <1>1 DEF LeaseInv, LeasesHeld, KeepsLease, HasLease, Prompt
  <1> QED
    BY <1>2, <1>3, <1>4 DEF LeaseInv

----------------------------------------------------------------------------
(* Steps that bring no job to a new place.                                 *)
HandsKept(p, n) ==
  LET grips(id) == \/ n.pc \in HandPcs /\ n.id = id
                   \/ n.pc = "ref" /\ res'[n.token] = id
  IN  /\ \A r \in Procs : r # p /\ proc[r].pc = "ref"
                            => res'[proc[r].token] = res[proc[r].token]
      /\ \A id \in Jobs : grips(id) => Grips(proc[p], id)
      /\ \A id \in Owed' : Grips(proc[p], id) => grips(id)

BooksKept(p, n) ==
  /\ \A t \in Tokens : res'[t] = res[t] \/ res'[t] = None
  /\ \A r \in Procs : r # p /\ New(proc[r]) => job'[proc[r].id] # None
  /\ ~New(n)
  /\ n.pc \in JobPcs \cup {"unref"} /\ n.id # None => n.id \in accepted
  /\ n.op = "purge" => n.todo \subseteq accepted
  /\ n.pc = "take" => p \in Operators /\ [id |-> n.id, token |-> n.token] \in dead

HistoryGrows ==
  succeeded \subseteq succeeded' /\ discarded \subseteq discarded' /\ exposed \subseteq exposed'

SettlesKept(p, n) ==
  /\ \A r \in Procs : r # p /\ proc[r].pc = "holding" =>
       \/ owner'[proc[r].id] = owner[proc[r].id]
       \/ owner'[proc[r].id] = proc[r].token
       \/ proc[r].id \notin Owed'
  /\ n.op = "ack" => n.id \in succeeded'
  /\ n.pc = "loseRes" => n.id \notin Owed'
  /\ n.pc = "holding" /\ owner'[n.id] # n.token => n.id \notin Owed'
  /\ n.pc = "purgeOwner" => n.id \in discarded'

StoredKept(p) ==
  \A id \in Owed' :
    \/ job'[id] # None
    \/ Graves(id)' # {}
    \/ job'[id] = job[id] /\ ~(proc[p].pc = "revive" /\ proc[p].id = id)
         /\ (Graves(id) # {} => Graves(id)' # {})

LEMMA BooksGoto ==
  ASSUME RedisInv, NEW p \in Procs, NEW n, Goto(p, n), BooksKept(p, n), accepted' = accepted,
         ready' \subseteq accepted, \A d \in delayed' : d.id \in accepted,
         \A d \in dead' : d.id \in accepted
  PROVE  Booked'
  BY BookedGoto DEF RedisInv, BooksKept, Booked

LEMMA SettlesGoto ==
  ASSUME RedisInv, NEW p \in Procs, NEW n, Goto(p, n), SettlesKept(p, n), HistoryGrows
  PROVE  Settling'
  BY SettlingGoto DEF RedisInv, KeptInv, SettlesKept, HistoryGrows

LEMMA StoredStep ==
  ASSUME RedisInv, NEW p \in Procs, NEW n, Goto(p, n), StoredKept(p), HistoryGrows,
         accepted' = accepted
  PROVE  \A id \in Owed' : Stored(id)'
  <1> SUFFICES ASSUME NEW id \in Owed' PROVE Stored(id)'
    OBVIOUS
  <1>1. id \in Owed /\ Stored(id) /\ id \in Jobs
    BY OwedShrinks DEF Owed, HistoryGrows, RedisInv, KeptInv, Kept, TypeInv, RedisTypes
  <1>2. CASE job'[id] # None \/ Graves(id)' # {}
    BY <1>2 DEF Stored
  <1>3. CASE ~(job'[id] # None \/ Graves(id)' # {})
    BY <1>1, <1>3, StoredGoto DEF StoredKept, RedisInv
  <1> QED
    BY <1>2, <1>3

LEMMA OwedNow ==
  ASSUME RedisInv, HistoryGrows, accepted' = accepted, NEW id \in Owed'
  PROVE  id \in Owed /\ id \in Jobs /\ Somewhere(id)
  BY OwedShrinks DEF Owed, HistoryGrows, RedisInv, KeptInv, Kept, TypeInv, RedisTypes

(* Jobs may only leave their places, and none that is still owed does.     *)
LEMMA ShrinkStep ==
  ASSUME RedisInv, TypeInv', LeaseInv', Finding', NEW p \in Procs, NEW n, Goto(p, n),
         ready' \subseteq ready, delayed' \subseteq delayed, dead' \subseteq dead,
         accepted' = accepted, \A id \in Jobs : Leases(id)' \subseteq Leases(id),
         \A id \in Owed' : /\ id \in ready => id \in ready'
                           /\ Waits(id)' = Waits(id) /\ Graves(id)' = Graves(id)
                           /\ Leases(id)' = Leases(id),
         HandsKept(p, n), BooksKept(p, n), HistoryGrows, SettlesKept(p, n), StoredKept(p)
  PROVE  RedisInv'
  <1>1. Booked'
    BY BooksGoto DEF RedisInv, Booked
  <1>2. \A id \in Jobs : Waits(id)' \subseteq Waits(id) /\ Graves(id)' \subseteq Graves(id)
    BY DEF Waits, Graves
  <1>3. \A id \in Jobs : Hands(id)' = (Hands(id) \ {p}) \cup
                        {q \in {p} : \/ n.pc \in HandPcs /\ n.id = id
                                     \/ n.pc = "ref" /\ res'[n.token] = id}
    BY HandsNow DEF HandsKept, RedisInv
  <1>4. \A id \in Jobs : Hands(id)' \subseteq Hands(id)
    BY <1>3 DEF HandsKept, Hands
  <1>5. Placed'
    <2> SUFFICES ASSUME NEW id \in Jobs PROVE OnePlace(id)'
      BY DEF Placed
    <2>1. OnePlace(id)
      BY DEF RedisInv, Placed
    <2>2. id \in ready' => id \in ready
      OBVIOUS
    <2> QED
      BY <1>2, <1>4, <2>1, <2>2 DEF OnePlace, Single
  <1>6. ASSUME NEW id \in Owed' PROVE Somewhere(id)'
    <2>1. id \in Jobs /\ Somewhere(id)
      BY OwedNow
    <2>2. Hands(id)' = Hands(id)
      BY <1>3, <2>1 DEF HandsKept, Hands
    <2> QED
      BY <2>1, <2>2 DEF Somewhere
  <1>7. KeptInv'
    BY <1>6, SettlesGoto, StoredStep DEF KeptInv, Kept
  <1> QED
    BY <1>1, <1>5, <1>7 DEF RedisInv

LEMMA QuietStep ==
  ASSUME RedisInv, TypeInv', LeaseInv', NEW p \in Procs, NEW n, Goto(p, n),
         UNCHANGED <<ready, delayed, dead, accepted>>,
         \A id \in Jobs : Leases(id)' = Leases(id),
         HandsKept(p, n), BooksKept(p, n), HistoryGrows, SettlesKept(p, n), StoredKept(p)
  PROVE  RedisInv'
  <1>1. Finding'
    BY Others DEF RedisInv, Finding, BooksKept
  <1>2. \A id \in Jobs : Waits(id)' = Waits(id) /\ Graves(id)' = Graves(id)
    BY SameStore
  <1>3. \A id \in Owed' : id \in Jobs
    BY DEF Owed, TypeInv, RedisTypes
  <1> QED
    BY <1>1, <1>2, <1>3, ShrinkStep

(* A live process with a lease is the only one with its job.               *)
LEMMA LeaseIsPlace ==
  ASSUME RedisInv, NEW p \in Procs, proc[p].pc \in LeasePcs
  PROVE  /\ proc[p].id \in Jobs /\ proc[p].token \in Tokens
         /\ proc[p].token \in Leases(proc[p].id)
  <1>1. Shape(proc[p]) /\ KeepsLease(proc[p])
    BY ThisCall DEF RedisInv, LeaseInv, LeasesHeld
  <1>2. proc[p].id \in Jobs /\ proc[p].token \in Tokens
    BY <1>1 DEF Shape, JobPcs, TokenPcs, UniquePcs
  <1> QED
    BY <1>1, <1>2 DEF KeepsLease, Leases

LEMMA LeaseApart ==
  ASSUME RedisInv, NEW p \in Procs, proc[p].pc \in LeasePcs
  PROVE  /\ Hands(proc[p].id) = {}
         /\ \A r \in Procs : proc[r].pc \in LeasePcs /\ proc[r].id = proc[p].id => r = p
  <1> DEFINE i == proc[p].id
  <1>1. i \in Jobs /\ proc[p].token \in Leases(i)
    BY LeaseIsPlace
  <1>2. OnePlace(i)
    BY <1>1 DEF RedisInv, Placed
  <1>3. ASSUME NEW r \in Procs, proc[r].pc \in LeasePcs, proc[r].id = i PROVE r = p
    <2>1. proc[r].token \in Leases(i)
      BY <1>3, LeaseIsPlace
    <2>2. proc[r].token = proc[p].token
      BY <1>1, <1>2, <2>1 DEF OnePlace, Single
    <2>3. LeasePcs \subseteq UniquePcs
      BY DEF UniquePcs
    <2> QED
      BY <1>3, <2>2, <2>3 DEF RedisInv, LeaseInv, UniqueTokens
  <1> QED
    BY <1>1, <1>2, <1>3 DEF OnePlace

(* A job in hand is stored, unless its dead letter is just being retried.  *)
LEMMA HandStored ==
  ASSUME RedisInv, NEW p \in Procs, NEW id \in Owed, p \in Hands(id), proc[p].pc # "revive"
  PROVE  job[id] # None
  <1>1. id \in Jobs /\ Stored(id) /\ OnePlace(id)
    BY DEF RedisInv, KeptInv, Kept, Owed, TypeInv, RedisTypes, Placed
  <1>2. Graves(id) = {}
    BY <1>1 DEF OnePlace
  <1>3. ASSUME NEW r \in Procs, proc[r].pc = "revive", proc[r].id = id PROVE FALSE
    <2>1. r \in Hands(id)
      BY <1>3 DEF Hands, Grips, HandPcs
    <2> QED
      BY <1>1, <1>3, <2>1 DEF OnePlace, Single
  <1> QED
    BY <1>1, <1>2, <1>3 DEF Stored

(* A token in use belongs to one process.                                  *)
LEMMA TokenAlone ==
  ASSUME RedisInv, NEW p \in Procs, proc[p].pc \in UniquePcs
  PROVE  /\ proc[p].token \in Tokens /\ proc[p].token <= token
         /\ \A r \in Procs : r # p /\ proc[r].pc \in UniquePcs => proc[r].token # proc[p].token
         /\ \A r \in Procs : r # p /\ proc[r].pc = "ref" => proc[r].token \in Tokens \ {proc[p].token}
  <1>1. \A r \in Procs : proc[r].pc \in UniquePcs => proc[r].token \in Tokens
    BY ThisCall DEF RedisInv, Shape, TokenPcs
  <1>2. "ref" \in UniquePcs
    BY DEF UniquePcs, GonePcs
  <1> QED
    BY <1>1, <1>2 DEF RedisInv, LeaseInv, FreshTokens, UniqueTokens

----------------------------------------------------------------------------
(* The actions that leave every job where it is.                           *)

LEMMA PopPersistKeeps ==
  ASSUME RedisInv, NEW p \in Procs, PopPersist(p)
  PROVE  RedisInv'
  <1> DEFINE s == proc[p]
             n == [s EXCEPT !.pc = "lease"]
  <1>1. s \in Call /\ Shape(s) /\ s.pc = "persist" /\ Goto(p, n)
    BY ThisCall DEF RedisInv, PopPersist, Step, At
  <1>2. /\ n.pc = "lease" /\ n.id = s.id /\ n.op = "reserve" /\ n.at = s.at /\ n.todo = s.todo
        /\ s.op = "reserve" /\ s.id \in Jobs /\ s.attempts \in Nat
    BY <1>1 DEF Call, Shape, JobPcs, HandPcs
  <1> HIDE DEF n
  <1>3. s.id \in accepted
    BY <1>1, <1>2, RedisAssumption DEF RedisInv, Booked, New, JobPcs, HandPcs
  <1>4. TypeInv'
    BY PopPersistTypes DEF RedisInv
  <1>5. LeaseInv'
    <2>1. Quieter(s, n)
      BY <1>1, <1>2, <1>3, RedisAssumption DEF Quieter, UniquePcs, LeasePcs, GonePcs
    <2> QED
      BY <1>1, <2>1, LeasesQuiet DEF RedisInv, PopPersist, history
  <1>6. \A id \in Jobs : Leases(id)' = Leases(id)
    BY SameStore DEF PopPersist, history
  <1>7. HistoryGrows
    BY DEF HistoryGrows, PopPersist, history
  <1>8. HandsKept(p, n)
    BY <1>1, <1>2, <1>3 DEF HandsKept, Grips, HandPcs, PopPersist, history
  <1>9. BooksKept(p, n)
    BY <1>1, <1>2, <1>3, RedisAssumption
    DEF BooksKept, RedisInv, Booked, New, JobPcs, TokenPcs, UniquePcs, HandPcs, LeasePcs,
        GonePcs, PopPersist, history
  <1>10. SettlesKept(p, n)
    BY <1>1, <1>2, <1>3, RedisAssumption DEF SettlesKept, PopPersist, history
  <1>11. StoredKept(p)
    BY <1>1, <1>2, <1>3, RedisAssumption
    DEF StoredKept, Graves, RedisInv, TypeInv, RedisTypes, PopPersist, history
  <1> QED
    BY <1>1, <1>4, <1>5, <1>6, <1>7, <1>8, <1>9, <1>10, <1>11, QuietStep
    DEF PopPersist, history

LEMMA NackPersistKeeps ==
  ASSUME RedisInv, NEW p \in Procs, NackPersist(p)
  PROVE  RedisInv'
  <1> DEFINE s == proc[p]
             n == [s EXCEPT !.pc = "requeue"]
  <1>1. s \in Call /\ Shape(s) /\ s.pc = "repersist" /\ Goto(p, n)
    BY ThisCall DEF RedisInv, NackPersist, Step, At
  <1>2. /\ n.pc = "requeue" /\ n.id = s.id /\ n.op = "nack" /\ s.op = "nack"
        /\ s.id \in Jobs /\ s.attempts \in Nat
    BY <1>1 DEF Call, Shape, JobPcs, HandPcs
  <1> HIDE DEF n
  <1>3. s.id \in accepted
    BY <1>1, <1>2, RedisAssumption DEF RedisInv, Booked, New, JobPcs, HandPcs
  <1>4. TypeInv'
    BY NackPersistTypes DEF RedisInv
  <1>5. LeaseInv'
    <2>1. Quieter(s, n)
      BY <1>1, <1>2, <1>3, RedisAssumption DEF Quieter, UniquePcs, LeasePcs, GonePcs
    <2> QED
      BY <1>1, <2>1, LeasesQuiet DEF RedisInv, NackPersist, history
  <1>6. \A id \in Jobs : Leases(id)' = Leases(id)
    BY SameStore DEF NackPersist, history
  <1>7. HistoryGrows
    BY DEF HistoryGrows, NackPersist, history
  <1>8. HandsKept(p, n)
    BY <1>1, <1>2, <1>3 DEF HandsKept, Grips, HandPcs, NackPersist, history
  <1>9. BooksKept(p, n)
    BY <1>1, <1>2, <1>3, RedisAssumption
    DEF BooksKept, RedisInv, Booked, New, JobPcs, TokenPcs, UniquePcs, HandPcs, LeasePcs,
        GonePcs, NackPersist, history
  <1>10. SettlesKept(p, n)
    BY <1>1, <1>2, <1>3, RedisAssumption DEF SettlesKept, NackPersist, history
  <1>11. StoredKept(p)
    BY <1>1, <1>2, <1>3, RedisAssumption
    DEF StoredKept, Graves, RedisInv, TypeInv, RedisTypes, NackPersist, history
  <1> QED
    BY <1>1, <1>4, <1>5, <1>6, <1>7, <1>8, <1>9, <1>10, <1>11, QuietStep
    DEF NackPersist, history

LEMMA PopOwnerKeeps ==
  ASSUME RedisInv, NEW p \in Procs, PopOwner(p)
  PROVE  RedisInv'
  <1> DEFINE s == proc[p]
             n == [Idle EXCEPT !.pc = "holding", !.id = s.id, !.token = s.token,
                        !.attempts = s.attempts]
  <1>1. s \in Call /\ Shape(s) /\ s.pc = "own" /\ Goto(p, n)
    BY ThisCall DEF RedisInv, PopOwner, Step, At
  <1>2. /\ n.pc = "holding" /\ n.id = s.id /\ n.token = s.token /\ n.op = None
        /\ n.todo = {} /\ s.id \in Jobs
    BY <1>1 DEF Idle, Shape, JobPcs, LeasePcs
  <1> HIDE DEF n
  <1>3. s.id \in accepted
    BY <1>1, <1>2, RedisAssumption DEF RedisInv, Booked, New, JobPcs, LeasePcs
  <1>4. TypeInv'
    BY PopOwnerTypes DEF RedisInv
  <1>5. LeaseInv'
    <2>1. Quieter(s, n)
      BY <1>1, <1>2, <1>3, RedisAssumption DEF Quieter, UniquePcs, LeasePcs, GonePcs
    <2> QED
      BY <1>1, <2>1, LeasesQuiet DEF RedisInv, PopOwner, history
  <1>6. \A id \in Jobs : Leases(id)' = Leases(id)
    BY SameStore DEF PopOwner, history
  <1>7. HistoryGrows
    BY DEF HistoryGrows, PopOwner, history
  <1>8. HandsKept(p, n)
    BY <1>1, <1>2, <1>3 DEF HandsKept, Grips, HandPcs, PopOwner, history
  <1>9. BooksKept(p, n)
    BY <1>1, <1>2, <1>3, RedisAssumption
    DEF BooksKept, RedisInv, Booked, New, JobPcs, TokenPcs, UniquePcs, HandPcs, LeasePcs,
        GonePcs, PopOwner, history
  <1>10. SettlesKept(p, n)
    <2>1. owner'[s.id] = s.token /\ (\A j \in Jobs : j # s.id => owner'[j] = owner[j])
      BY <1>2 DEF PopOwner, RedisInv, TypeInv, RedisTypes
    <2>2. \A r \in Procs : r # p /\ proc[r].pc = "holding" => proc[r].id \in Jobs /\ proc[r].id # s.id
      BY <1>1, LeaseApart, LeaseIsPlace DEF LeasePcs
    <2> QED
      BY <1>2, <2>1, <2>2, RedisAssumption DEF SettlesKept
  <1>11. StoredKept(p)
    BY <1>1, <1>2, <1>3, RedisAssumption
    DEF StoredKept, Graves, RedisInv, TypeInv, RedisTypes, PopOwner, history
  <1> QED
    BY <1>1, <1>4, <1>5, <1>6, <1>7, <1>8, <1>9, <1>10, <1>11, QuietStep
    DEF PopOwner, history

LEMMA DeadFindKeeps ==
  ASSUME RedisInv, NEW p \in Procs, NEW d, DeadFind(p, d)
  PROVE  RedisInv'
  <1> DEFINE s == proc[p]
             n == [Idle EXCEPT !.pc = "take", !.op = "retry", !.id = d.id, !.token = d.token]
  <1>1. s \in Call /\ Shape(s) /\ s.pc = "idle" /\ Goto(p, n)
    BY ThisCall DEF RedisInv, DeadFind, Step, At, OperatorCall
  <1>2. /\ n.pc = "take" /\ n.op = "retry" /\ n.id = d.id /\ n.token = d.token /\ n.todo = {}
        /\ d.id \in Jobs /\ p \in Operators /\ d \in dead /\ [id |-> d.id, token |-> d.token] = d
    BY <1>1 DEF Idle, DeadFind, OperatorCall, RedisInv, TypeInv, RedisTypes
  <1> HIDE DEF n
  <1>3. d.id \in accepted
    BY <1>2 DEF RedisInv, Booked
  <1>4. TypeInv'
    BY DeadFindTypes DEF RedisInv
  <1>5. LeaseInv'
    <2>1. Quieter(s, n)
      BY <1>1, <1>2, <1>3, RedisAssumption DEF Quieter, UniquePcs, LeasePcs, GonePcs
    <2> QED
      BY <1>1, <2>1, LeasesQuiet DEF RedisInv, DeadFind, store, history, OperatorCall
  <1>6. \A id \in Jobs : Leases(id)' = Leases(id)
    BY SameStore DEF DeadFind, store, history, OperatorCall
  <1>7. HistoryGrows
    BY DEF HistoryGrows, DeadFind, store, history, OperatorCall
  <1>8. HandsKept(p, n)
    BY <1>1, <1>2, <1>3 DEF HandsKept, Grips, HandPcs, DeadFind, store, history, OperatorCall
  <1>9. BooksKept(p, n)
    BY <1>1, <1>2, <1>3, RedisAssumption
    DEF BooksKept, RedisInv, Booked, New, JobPcs, TokenPcs, UniquePcs, HandPcs, LeasePcs,
        GonePcs, DeadFind, store, history, OperatorCall
  <1>10. SettlesKept(p, n)
    BY <1>1, <1>2, <1>3, RedisAssumption DEF SettlesKept, DeadFind, store, history, OperatorCall
  <1>11. StoredKept(p)
    BY <1>1, <1>2, <1>3, RedisAssumption
    DEF StoredKept, Graves, RedisInv, TypeInv, RedisTypes, DeadFind, store, history,
        OperatorCall
  <1> QED
    BY <1>1, <1>4, <1>5, <1>6, <1>7, <1>8, <1>9, <1>10, <1>11, QuietStep
    DEF DeadFind, store, history, OperatorCall

LEMMA KnownQueuesKeeps ==
  ASSUME RedisInv, NEW p \in Procs, NEW op \in {"reserve", "promote"}, KnownQueues(p, op)
  PROVE  RedisInv'
  <1> DEFINE s == proc[p]
             n == Continue([Idle EXCEPT !.op = op, !.at = now, !.scan = queues])
  <1>1. s \in Call /\ Shape(s) /\ s.pc = "idle" /\ Goto(p, n)
    BY ThisCall DEF RedisInv, KnownQueues, Step, At
  <1>2. /\ n.pc \in {"claim", "scan", "head", "idle"} /\ n.op # "ack" /\ n.op # "purge"
        /\ n.op = "reserve" => n.at = now /\ n.todo = {}
    <2> DEFINE u == [Idle EXCEPT !.op = op, !.at = now, !.scan = queues]
    <2>1. u \in Call /\ u.op = op /\ u.at = now /\ u.todo = {}
      BY IdleCall DEF RedisInv, TypeInv, RedisTypes, Call, Ops, Idle
    <2> HIDE DEF u
    <2>2. /\ n.pc \in {"claim", "scan", "head", "idle"}
          /\ n = Idle \/ (n.op = op /\ n.at = now /\ n.todo = {})
      BY <2>1, ContinueCall DEF u
    <2> HIDE DEF n
    <2> QED
      BY <2>2, RedisAssumption DEF Idle
  <1> HIDE DEF n
  <1>3. TypeInv'
    BY KnownQueuesTypes DEF RedisInv
  <1>4. LeaseInv'
    <2>1. Quieter(s, n)
      BY <1>1, <1>2, RedisAssumption DEF Quieter, UniquePcs, LeasePcs, GonePcs
    <2> QED
      BY <1>1, <2>1, LeasesQuiet DEF RedisInv, KnownQueues, store, history
  <1>5. \A id \in Jobs : Leases(id)' = Leases(id)
    BY SameStore DEF KnownQueues, store, history
  <1>6. HistoryGrows
    BY DEF HistoryGrows, KnownQueues, store, history
  <1>7. HandsKept(p, n)
    BY <1>1, <1>2 DEF HandsKept, Grips, HandPcs, KnownQueues, store, history
  <1>8. BooksKept(p, n)
    BY <1>1, <1>2, RedisAssumption
    DEF BooksKept, RedisInv, Booked, New, JobPcs, TokenPcs, UniquePcs, HandPcs, LeasePcs,
        GonePcs, KnownQueues, store, history
  <1>9. SettlesKept(p, n)
    BY <1>1, <1>2, RedisAssumption DEF SettlesKept, KnownQueues, store, history
  <1>10. StoredKept(p)
    BY <1>1, <1>2, RedisAssumption
    DEF StoredKept, Graves, RedisInv, TypeInv, RedisTypes, KnownQueues, store, history
  <1> QED
    BY <1>1, <1>3, <1>4, <1>5, <1>6, <1>7, <1>8, <1>9, <1>10, QuietStep
    DEF KnownQueues, store, history

LEMMA ReclaimRefKeeps ==
  ASSUME RedisInv, NEW p \in Procs, ReclaimRef(p)
  PROVE  RedisInv'
  <1> DEFINE s == proc[p]
             n == [s EXCEPT !.pc = "unref", !.id = res[s.token]]
  <1>1. s \in Call /\ Shape(s) /\ s.pc = "ref" /\ Goto(p, n)
    BY ThisCall DEF RedisInv, ReclaimRef, Step, At
  <1>2. /\ n.pc = "unref" /\ n.id = res[s.token] /\ n.token = s.token /\ n.op = "reserve"
        /\ n.at = s.at /\ n.todo = s.todo /\ s.op = "reserve" /\ s.token \in Tokens
    BY <1>1 DEF Call, Shape, TokenPcs, UniquePcs, GonePcs
  <1> HIDE DEF n
  <1>3. TypeInv'
    BY ReclaimRefTypes DEF RedisInv
  <1>4. LeaseInv'
    <2>1. Quieter(s, n)
      BY <1>1, <1>2, RedisAssumption DEF Quieter, UniquePcs, LeasePcs, GonePcs
    <2> QED
      BY <1>1, <2>1, LeasesQuiet DEF RedisInv, ReclaimRef, store, history
  <1>5. \A id \in Jobs : Leases(id)' = Leases(id)
    BY SameStore DEF ReclaimRef, store, history
  <1>6. HistoryGrows
    BY DEF HistoryGrows, ReclaimRef, store, history
  <1>7. HandsKept(p, n)
    BY <1>1, <1>2 DEF HandsKept, Grips, HandPcs, ReclaimRef, store, history
  <1>8. BooksKept(p, n)
    BY <1>1, <1>2, RedisAssumption
    DEF BooksKept, RedisInv, Booked, New, JobPcs, TokenPcs, UniquePcs, HandPcs, LeasePcs,
        GonePcs, ReclaimRef, store, history
  <1>9. SettlesKept(p, n)
    BY <1>1, <1>2, RedisAssumption DEF SettlesKept, ReclaimRef, store, history
  <1>10. StoredKept(p)
    BY <1>1, <1>2, RedisAssumption
    DEF StoredKept, Graves, RedisInv, TypeInv, RedisTypes, ReclaimRef, store, history
  <1> QED
    BY <1>1, <1>3, <1>4, <1>5, <1>6, <1>7, <1>8, <1>9, <1>10, QuietStep
    DEF ReclaimRef, store, history

LEMMA ReclaimLoadKeeps ==
  ASSUME RedisInv, NEW p \in Procs, ReclaimLoad(p)
  PROVE  RedisInv'
  <1> DEFINE s == proc[p]
             n == [s EXCEPT !.pc = IF job[s.id] = None THEN "disown" ELSE "readd"]
  <1>1. s \in Call /\ Shape(s) /\ s.pc = "reload" /\ Goto(p, n)
    BY ThisCall DEF RedisInv, ReclaimLoad, Step, At
  <1>2. /\ n.pc \in {"disown", "readd"} /\ (n.pc = "disown" => job[s.id] = None) /\ n.id = s.id
        /\ n.token = s.token /\ n.op = "reserve" /\ s.op = "reserve" /\ n.at = s.at
        /\ n.todo = s.todo /\ s.id \in Jobs
    BY <1>1 DEF Call, Shape, JobPcs, HandPcs
  <1> HIDE DEF n
  <1>3. s.id \in accepted
    BY <1>1, <1>2, RedisAssumption DEF RedisInv, Booked, New, JobPcs, HandPcs
  <1>4. TypeInv'
    BY ReclaimLoadTypes DEF RedisInv
  <1>5. LeaseInv'
    <2>1. Quieter(s, n)
      BY <1>1, <1>2, <1>3, RedisAssumption DEF Quieter, UniquePcs, LeasePcs, GonePcs
    <2> QED
      BY <1>1, <2>1, LeasesQuiet DEF RedisInv, ReclaimLoad, store, history
  <1>6. \A id \in Jobs : Leases(id)' = Leases(id)
    BY SameStore DEF ReclaimLoad, store, history
  <1>7. HistoryGrows
    BY DEF HistoryGrows, ReclaimLoad, store, history
  <1>8. HandsKept(p, n)
    <2>1. ASSUME NEW id \in Owed', s.id = id, job[id] = None PROVE FALSE
      <3>1. id \in Owed
        BY <1>7, OwedNow DEF ReclaimLoad, store, history
      <3>2. p \in Hands(id)
        BY <1>1, <2>1 DEF Hands, Grips, HandPcs
      <3> QED
        BY <1>1, <2>1, <3>1, <3>2, HandStored
    <2> QED
      BY <1>1, <1>2, <2>1 DEF HandsKept, Grips, HandPcs, ReclaimLoad, store, history
  <1>9. BooksKept(p, n)
    BY <1>1, <1>2, <1>3, RedisAssumption
    DEF BooksKept, RedisInv, Booked, New, JobPcs, TokenPcs, UniquePcs, HandPcs, LeasePcs,
        GonePcs, ReclaimLoad, store, history
  <1>10. SettlesKept(p, n)
    BY <1>1, <1>2, <1>3, RedisAssumption DEF SettlesKept, ReclaimLoad, store, history
  <1>11. StoredKept(p)
    BY <1>1, <1>2, <1>3, RedisAssumption
    DEF StoredKept, Graves, RedisInv, TypeInv, RedisTypes, ReclaimLoad, store, history
  <1> QED
    BY <1>1, <1>4, <1>5, <1>6, <1>7, <1>8, <1>9, <1>10, <1>11, QuietStep
    DEF ReclaimLoad, store, history

LEMMA ReclaimDisownKeeps ==
  ASSUME RedisInv, NEW p \in Procs, ReclaimDisown(p)
  PROVE  RedisInv'
  <1> DEFINE s == proc[p]
             n == Continue(s)
  <1>1. s \in Call /\ Shape(s) /\ s.pc = "disown" /\ Goto(p, n)
    BY ThisCall DEF RedisInv, ReclaimDisown, Step, At
  <1>2. /\ n.pc \in {"claim", "scan", "head", "idle"} /\ n.op # "ack" /\ n.op # "purge"
        /\ n.op = "reserve" => n.at = s.at /\ n.todo = s.todo
        /\ s.op = "reserve" /\ s.id \in Jobs /\ s.token \in Tokens
    BY <1>1, ContinueCall, RedisAssumption
    DEF Shape, JobPcs, TokenPcs, UniquePcs, GonePcs, Idle
  <1> HIDE DEF n
  <1>3. TypeInv'
    BY ReclaimDisownTypes DEF RedisInv
  <1>4. LeaseInv'
    <2>1. Quieter(s, n)
      BY <1>1, <1>2, RedisAssumption DEF Quieter, UniquePcs, LeasePcs, GonePcs
    <2> QED
      BY <1>1, <2>1, LeasesQuiet DEF RedisInv, ReclaimDisown, history
  <1>5. \A id \in Jobs : Leases(id)' = Leases(id)
    BY SameStore DEF ReclaimDisown, history
  <1>6. HistoryGrows
    BY DEF HistoryGrows, ReclaimDisown, history
  <1>7. HandsKept(p, n)
    BY <1>1, <1>2 DEF HandsKept, Grips, HandPcs, ReclaimDisown, history
  <1>8. BooksKept(p, n)
    BY <1>1, <1>2, RedisAssumption
    DEF BooksKept, RedisInv, Booked, New, JobPcs, TokenPcs, UniquePcs, HandPcs, LeasePcs,
        GonePcs, ReclaimDisown, history
  <1>9. SettlesKept(p, n)
    <2>1. ASSUME NEW r \in Procs, r # p, proc[r].pc = "holding", proc[r].id = s.id,
                 s.id \in Owed'
          PROVE  owner'[s.id] = owner[s.id]
      <3>1. s.id \in Owed
        BY <2>1, <1>6, OwedNow DEF ReclaimDisown
      <3>2. owner[s.id] = proc[r].token
        BY <2>1, <3>1 DEF RedisInv, KeptInv, Settling
      <3>3. proc[r].token # s.token
        BY <1>1, <2>1 DEF RedisInv, LeaseInv, UniqueTokens, UniquePcs, LeasePcs, GonePcs
      <3>4. s.id \notin exposed'
        BY <2>1 DEF Owed
      <3> QED
        BY <1>2, <3>2, <3>3, <3>4 DEF ReclaimDisown, RedisInv, TypeInv, RedisTypes
    <2>2. \A i \in Jobs : i # s.id => owner'[i] = owner[i]
      BY DEF ReclaimDisown, RedisInv, TypeInv, RedisTypes
    <2>3. \A r \in Procs : proc[r].pc = "holding" => proc[r].id \in Jobs
      BY ThisCall DEF RedisInv, Shape, JobPcs, LeasePcs
    <2> QED
      BY <1>2, <2>1, <2>2, <2>3, RedisAssumption DEF SettlesKept
  <1>10. StoredKept(p)
    BY <1>1, <1>2, RedisAssumption
    DEF StoredKept, Graves, RedisInv, TypeInv, RedisTypes, ReclaimDisown, history
  <1> QED
    BY <1>1, <1>3, <1>4, <1>5, <1>6, <1>7, <1>8, <1>9, <1>10, QuietStep
    DEF ReclaimDisown, history

LEMMA PromoteLoadKeeps ==
  ASSUME RedisInv, NEW p \in Procs, PromoteLoad(p)
  PROVE  RedisInv'
  <1> DEFINE s == proc[p]
             n == IF job[s.id] = None THEN Continue([s EXCEPT !.id = None])
                  ELSE [s EXCEPT !.pc = "addDue"]
  <1>1. s \in Call /\ Shape(s) /\ s.pc = "loadDue" /\ Goto(p, n)
    BY ThisCall DEF RedisInv, PromoteLoad, Step, At
  <1>2. /\ n.pc \in {"claim", "scan", "head", "idle", "addDue"} /\ n.op # "ack" /\ n.op # "purge"
        /\ n.op # "reserve" /\ s.id \in Jobs
        /\ IF n.pc = "addDue" THEN n.id = s.id ELSE job[s.id] = None
    <2>1. s.op = "promote" /\ s.id \in Jobs
      BY <1>1 DEF Shape, JobPcs, HandPcs
    <2>2. CASE job[s.id] = None
      <3> DEFINE u == [s EXCEPT !.id = None]
      <3>1. u \in Call /\ u.op = "promote" /\ n = Continue(u)
        BY <1>1, <2>1, <2>2 DEF Call
      <3> HIDE DEF u, n
      <3> QED
        BY <2>1, <2>2, <3>1, ContinueCall, RedisAssumption DEF Idle
    <2>3. CASE job[s.id] # None
      BY <1>1, <2>1, <2>3 DEF Call
    <2> QED
      BY <2>2, <2>3
  <1> HIDE DEF n
  <1>3. s.id \in accepted
    BY <1>1, <1>2, RedisAssumption DEF RedisInv, Booked, New, JobPcs, HandPcs
  <1>4. TypeInv'
    BY PromoteLoadTypes DEF RedisInv
  <1>5. LeaseInv'
    <2>1. Quieter(s, n)
      BY <1>1, <1>2, <1>3, RedisAssumption DEF Quieter, UniquePcs, LeasePcs, GonePcs
    <2> QED
      BY <1>1, <2>1, LeasesQuiet DEF RedisInv, PromoteLoad, store, history
  <1>6. \A id \in Jobs : Leases(id)' = Leases(id)
    BY SameStore DEF PromoteLoad, store, history
  <1>7. HistoryGrows
    BY DEF HistoryGrows, PromoteLoad, store, history
  <1>8. HandsKept(p, n)
    <2>1. ASSUME NEW id \in Owed', s.id = id, job[id] = None PROVE FALSE
      <3>1. id \in Owed
        BY <1>7, OwedNow DEF PromoteLoad, store, history
      <3>2. p \in Hands(id)
        BY <1>1, <2>1 DEF Hands, Grips, HandPcs
      <3> QED
        BY <1>1, <2>1, <3>1, <3>2, HandStored
    <2> QED
      BY <1>1, <1>2, <2>1 DEF HandsKept, Grips, HandPcs, PromoteLoad, store, history
  <1>9. BooksKept(p, n)
    BY <1>1, <1>2, <1>3, RedisAssumption
    DEF BooksKept, RedisInv, Booked, New, JobPcs, TokenPcs, UniquePcs, HandPcs, LeasePcs,
        GonePcs, PromoteLoad, store, history
  <1>10. SettlesKept(p, n)
    BY <1>1, <1>2, <1>3, RedisAssumption DEF SettlesKept, PromoteLoad, store, history
  <1>11. StoredKept(p)
    BY <1>1, <1>2, <1>3, RedisAssumption
    DEF StoredKept, Graves, RedisInv, TypeInv, RedisTypes, PromoteLoad, store, history
  <1> QED
    BY <1>1, <1>4, <1>5, <1>6, <1>7, <1>8, <1>9, <1>10, <1>11, QuietStep
    DEF PromoteLoad, store, history

LEMMA PopLoadKeeps ==
  ASSUME RedisInv, NEW p \in Procs, PopLoad(p)
  PROVE  RedisInv'
  <1> DEFINE s == proc[p]
             n == IF job[s.id] = None THEN TryNextHead(s)
                  ELSE [s EXCEPT !.pc = "persist", !.attempts = job[s.id] + 1]
  <1>1. s \in Call /\ Shape(s) /\ s.pc = "load" /\ Goto(p, n)
    BY ThisCall DEF RedisInv, PopLoad, Step, At
  <1>2. /\ n.pc \in {"head", "idle", "persist"} /\ n.op # "ack" /\ n.op # "purge"
        /\ n.op = "reserve" => n.at = s.at /\ n.todo = s.todo
        /\ s.op = "reserve" /\ s.id \in Jobs
        /\ IF n.pc = "persist" THEN n.id = s.id ELSE job[s.id] = None
    <2>1. s.op = "reserve" /\ s.todo = {} /\ s.id \in Jobs
      BY <1>1 DEF Shape, JobPcs, HandPcs
    <2>2. CASE job[s.id] = None
      <3>1. n = TryNextHead(s)
        BY <2>2
      <3> HIDE DEF n
      <3>2. n \in Call /\ Shape(n) /\ n.pc \in {"head", "idle"} /\ n.todo = {}
            /\ (n.op = "reserve" => n.at = s.at)
        BY <1>1, <2>1, <3>1, TryNextHeadCall
      <3>3. n.op # "ack" /\ n.op # "purge"
        BY <3>2, RedisAssumption DEF Shape
      <3> QED
        BY <2>1, <2>2, <3>2, <3>3
    <2>3. CASE job[s.id] # None
      <3> DEFINE k == job[s.id] + 1
      <3>1. n = [s EXCEPT !.pc = "persist", !.attempts = k]
        BY <2>3
      <3> HIDE DEF k, n
      <3> QED
        BY <1>1, <2>1, <2>3, <3>1 DEF Call
    <2> QED
      BY <2>2, <2>3
  <1> HIDE DEF n
  <1>3. s.id \in accepted
    BY <1>1, <1>2, RedisAssumption DEF RedisInv, Booked, New, JobPcs, HandPcs
  <1>4. TypeInv'
    BY PopLoadTypes DEF RedisInv
  <1>5. LeaseInv'
    <2>1. Quieter(s, n)
      BY <1>1, <1>2, <1>3, RedisAssumption DEF Quieter, UniquePcs, LeasePcs, GonePcs
    <2> QED
      BY <1>1, <2>1, LeasesQuiet DEF RedisInv, PopLoad, store, history
  <1>6. \A id \in Jobs : Leases(id)' = Leases(id)
    BY SameStore DEF PopLoad, store, history
  <1>7. HistoryGrows
    BY DEF HistoryGrows, PopLoad, store, history
  <1>8. HandsKept(p, n)
    <2>1. ASSUME NEW id \in Owed', s.id = id, job[id] = None PROVE FALSE
      <3>1. id \in Owed
        BY <1>7, OwedNow DEF PopLoad, store, history
      <3>2. p \in Hands(id)
        BY <1>1, <2>1 DEF Hands, Grips, HandPcs
      <3> QED
        BY <1>1, <2>1, <3>1, <3>2, HandStored
    <2> QED
      BY <1>1, <1>2, <2>1 DEF HandsKept, Grips, HandPcs, PopLoad, store, history
  <1>9. BooksKept(p, n)
    BY <1>1, <1>2, <1>3, RedisAssumption
    DEF BooksKept, RedisInv, Booked, New, JobPcs, TokenPcs, UniquePcs, HandPcs, LeasePcs,
        GonePcs, PopLoad, store, history
  <1>10. SettlesKept(p, n)
    BY <1>1, <1>2, <1>3, RedisAssumption DEF SettlesKept, PopLoad, store, history
  <1>11. StoredKept(p)
    BY <1>1, <1>2, <1>3, RedisAssumption
    DEF StoredKept, Graves, RedisInv, TypeInv, RedisTypes, PopLoad, store, history
  <1> QED
    BY <1>1, <1>4, <1>5, <1>6, <1>7, <1>8, <1>9, <1>10, <1>11, QuietStep
    DEF PopLoad, store, history

LEMMA PopLeaseKeeps ==
  ASSUME RedisInv, NEW p \in Procs, PopLease(p)
  PROVE  RedisInv'
  <1> DEFINE s == proc[p]
             n == [s EXCEPT !.pc = "res", !.token = token + 1]
  <1>1. s \in Call /\ Shape(s) /\ s.pc = "lease" /\ Goto(p, n)
    BY ThisCall DEF RedisInv, PopLease, Step, At
  <1>2. /\ n.pc = "res" /\ n.id = s.id /\ n.op = "reserve" /\ n.at = s.at /\ n.todo = s.todo
        /\ s.op = "reserve" /\ s.id \in Jobs
    BY <1>1 DEF Call, Shape, JobPcs, HandPcs
  <1> HIDE DEF n
  <1>3. s.id \in accepted
    BY <1>1, <1>2, RedisAssumption DEF RedisInv, Booked, New, JobPcs, HandPcs
  <1>4. TypeInv'
    BY PopLeaseTypes DEF RedisInv
  <1>5. LeaseInv'
    BY <1>4, PopLeaseLease DEF RedisInv
  <1>6. \A id \in Jobs : Leases(id)' = Leases(id)
    <2> DEFINE k == [token |-> token + 1, queue |-> QueueOf(s.id),
                     expires |-> s.at + VisibilityMs]
    <2>1. processing' = processing \cup {k} /\ k.token = token + 1 /\ res' = res
      BY DEF PopLease
    <2>2. token + 1 \in Tokens => res[token + 1] = None
      BY DEF RedisInv, LeaseInv, FreshTokens, TypeInv, RedisTypes, Tokens
    <2> HIDE DEF k
    <2>3. \A t \in Tokens : res[t] # None => (HasLease(t)' <=> HasLease(t))
      BY <2>1, <2>2 DEF HasLease
    <2> QED
      BY <2>1, <2>3, RedisAssumption DEF Leases
  <1>7. HistoryGrows
    BY DEF HistoryGrows, PopLease, history
  <1>8. HandsKept(p, n)
    BY <1>1, <1>2, <1>3 DEF HandsKept, Grips, HandPcs, PopLease, history
  <1>9. BooksKept(p, n)
    BY <1>1, <1>2, <1>3, RedisAssumption
    DEF BooksKept, RedisInv, Booked, New, JobPcs, TokenPcs, UniquePcs, HandPcs, LeasePcs,
        GonePcs, PopLease, history
  <1>10. SettlesKept(p, n)
    BY <1>1, <1>2, <1>3, RedisAssumption DEF SettlesKept, PopLease, history
  <1>11. StoredKept(p)
    BY <1>1, <1>2, <1>3, RedisAssumption
    DEF StoredKept, Graves, RedisInv, TypeInv, RedisTypes, PopLease, history
  <1> QED
    BY <1>1, <1>4, <1>5, <1>6, <1>7, <1>8, <1>9, <1>10, <1>11, QuietStep
    DEF PopLease, history

LEMMA RetryPersistKeeps ==
  ASSUME RedisInv, NEW p \in Procs, RetryPersist(p)
  PROVE  RedisInv'
  <1> DEFINE s == proc[p]
             n == [s EXCEPT !.pc = "add", !.token = None]
  <1>1. s \in Call /\ Shape(s) /\ s.pc = "revive" /\ Goto(p, n)
    BY ThisCall DEF RedisInv, RetryPersist, Step, At
  <1>2. /\ n.pc = "add" /\ n.id = s.id /\ n.op = "retry" /\ s.op = "retry" /\ s.id \in Jobs
    BY <1>1 DEF Call, Shape, JobPcs, HandPcs
  <1> HIDE DEF n
  <1>3. s.id \in accepted
    BY <1>1, <1>2, RedisAssumption DEF RedisInv, Booked, New, JobPcs, HandPcs
  <1>4. TypeInv'
    BY RetryPersistTypes DEF RedisInv
  <1>5. LeaseInv'
    <2>1. Quieter(s, n)
      BY <1>1, <1>2, <1>3, RedisAssumption DEF Quieter, UniquePcs, LeasePcs, GonePcs
    <2> QED
      BY <1>1, <2>1, LeasesQuiet DEF RedisInv, RetryPersist, history
  <1>6. \A id \in Jobs : Leases(id)' = Leases(id)
    BY SameStore DEF RetryPersist, history
  <1>7. HistoryGrows
    BY DEF HistoryGrows, RetryPersist, history
  <1>8. HandsKept(p, n)
    BY <1>1, <1>2, <1>3 DEF HandsKept, Grips, HandPcs, RetryPersist, history
  <1>9. BooksKept(p, n)
    BY <1>1, <1>2, <1>3, RedisAssumption
    DEF BooksKept, RedisInv, Booked, New, JobPcs, TokenPcs, UniquePcs, HandPcs, LeasePcs,
        GonePcs, RetryPersist, history
  <1>10. SettlesKept(p, n)
    BY <1>1, <1>2, <1>3, RedisAssumption DEF SettlesKept, RetryPersist, history
  <1>11. StoredKept(p)
    BY <1>1, <1>2, <1>3, RedisAssumption
    DEF StoredKept, Graves, RedisInv, TypeInv, RedisTypes, RetryPersist, history
  <1> QED
    BY <1>1, <1>4, <1>5, <1>6, <1>7, <1>8, <1>9, <1>10, <1>11, QuietStep
    DEF RetryPersist, history

LEMMA PurgeReadyKeeps ==
  ASSUME RedisInv, NEW p \in Procs, NEW q \in queues, PurgeReady(p, q)
  PROVE  RedisInv'
  <1> DEFINE s == proc[p]
             n == [Idle EXCEPT !.pc = "purgeDelayed", !.op = "purge", !.scan = {q},
                        !.todo = {i \in ready : QueueOf(i) = q}]
  <1>1. s \in Call /\ Shape(s) /\ s.pc = "idle" /\ Goto(p, n)
    BY ThisCall DEF RedisInv, PurgeReady, Step, At, OperatorCall
  <1>2. /\ n.pc = "purgeDelayed" /\ n.op = "purge" /\ n.id = None
        /\ n.todo \subseteq ready
    BY <1>1 DEF Idle
  <1> HIDE DEF n
  <1>3. TypeInv'
    BY PurgeReadyTypes DEF RedisInv
  <1>4. LeaseInv'
    <2>1. Quieter(s, n)
      BY <1>1, <1>2, RedisAssumption DEF Quieter, UniquePcs, LeasePcs, GonePcs
    <2> QED
      BY <1>1, <2>1, LeasesQuiet DEF RedisInv, PurgeReady, store, history, OperatorCall
  <1>5. \A id \in Jobs : Leases(id)' = Leases(id)
    BY SameStore DEF PurgeReady, store, history, OperatorCall
  <1>6. HistoryGrows
    BY DEF HistoryGrows, PurgeReady, store, history, OperatorCall
  <1>7. HandsKept(p, n)
    BY <1>1, <1>2 DEF HandsKept, Grips, HandPcs, PurgeReady, store, history, OperatorCall
  <1>8. BooksKept(p, n)
    BY <1>1, <1>2, RedisAssumption
    DEF BooksKept, RedisInv, Booked, New, JobPcs, TokenPcs, UniquePcs, HandPcs, LeasePcs,
        GonePcs, PurgeReady, store, history, OperatorCall
  <1>9. SettlesKept(p, n)
    BY <1>1, <1>2, RedisAssumption DEF SettlesKept, PurgeReady, store, history, OperatorCall
  <1>10. StoredKept(p)
    BY <1>1, <1>2, RedisAssumption
    DEF StoredKept, Graves, RedisInv, TypeInv, RedisTypes, PurgeReady, store, history,
        OperatorCall
  <1> QED
    BY <1>1, <1>3, <1>4, <1>5, <1>6, <1>7, <1>8, <1>9, <1>10, QuietStep
    DEF PurgeReady, store, history, OperatorCall

LEMMA PurgeOwnerKeeps ==
  ASSUME RedisInv, NEW p \in Procs, PurgeOwner(p)
  PROVE  RedisInv'
  <1> DEFINE s == proc[p]
             n == PurgeNext(s)
  <1>1. s \in Call /\ Shape(s) /\ s.pc = "purgeOwner" /\ Goto(p, n)
    BY ThisCall DEF RedisInv, PurgeOwner, Step, At
  <1>2. /\ n.pc \in {"dropReady", "purgeJob"} /\ n.op = "purge" /\ n.todo = s.todo
        /\ s.op = "purge" /\ s.id \in Jobs
    BY <1>1, PurgeNextCall DEF Shape, JobPcs
  <1> HIDE DEF n
  <1>3. TypeInv'
    BY PurgeOwnerTypes DEF RedisInv
  <1>4. LeaseInv'
    <2>1. Quieter(s, n)
      BY <1>1, <1>2, RedisAssumption DEF Quieter, UniquePcs, LeasePcs, GonePcs
    <2> QED
      BY <1>1, <2>1, LeasesQuiet DEF RedisInv, PurgeOwner, history
  <1>5. \A id \in Jobs : Leases(id)' = Leases(id)
    BY SameStore DEF PurgeOwner, history
  <1>6. HistoryGrows
    BY DEF HistoryGrows, PurgeOwner, history
  <1>7. HandsKept(p, n)
    BY <1>1, <1>2 DEF HandsKept, Grips, HandPcs, PurgeOwner, history
  <1>8. BooksKept(p, n)
    BY <1>1, <1>2, RedisAssumption
    DEF BooksKept, RedisInv, Booked, New, JobPcs, TokenPcs, UniquePcs, HandPcs, LeasePcs,
        GonePcs, PurgeOwner, history
  <1>9. SettlesKept(p, n)
    <2>1. s.id \notin Owed'
      BY <1>1 DEF RedisInv, KeptInv, Settling, Owed, PurgeOwner, history
    <2>2. \A i \in Jobs : i # s.id => owner'[i] = owner[i]
      BY DEF PurgeOwner, RedisInv, TypeInv, RedisTypes
    <2>3. \A r \in Procs : proc[r].pc = "holding" => proc[r].id \in Jobs
      BY ThisCall DEF RedisInv, Shape, JobPcs, LeasePcs
    <2> QED
      BY <1>2, <2>1, <2>2, <2>3 DEF SettlesKept
  <1>10. StoredKept(p)
    BY <1>1, <1>2, RedisAssumption
    DEF StoredKept, Graves, RedisInv, TypeInv, RedisTypes, PurgeOwner, history
  <1> QED
    BY <1>1, <1>3, <1>4, <1>5, <1>6, <1>7, <1>8, <1>9, <1>10, QuietStep
    DEF PurgeOwner, history

LEMMA RemoveOwnerKeeps ==
  ASSUME RedisInv, NEW p \in Procs, RemoveOwner(p)
  PROVE  RedisInv'
  <1> DEFINE s == proc[p]
             n == [s EXCEPT !.pc = CASE s.op = "ack"  -> "delete"
                                  [] s.op = "nack" -> "repersist"
                                  [] s.op = "dead" -> "bury"]
  <1>1. s \in Call /\ Shape(s) /\ s.pc = "disclaim" /\ Goto(p, n)
    BY ThisCall DEF RedisInv, RemoveOwner, Step, At
  <1>2. /\ n.pc \in {"delete", "repersist", "bury"} /\ (n.pc = "delete" => s.op = "ack")
        /\ n.op = s.op /\ n.id = s.id /\ s.op \in {"ack", "nack", "dead"} /\ s.id \in Jobs
    BY <1>1 DEF Call, Shape, JobPcs, HandPcs
  <1> HIDE DEF n
  <1>3. s.id \in accepted /\ (s.op = "ack" => s.id \in succeeded)
    BY <1>1, <1>2, RedisAssumption DEF RedisInv, Booked, New, JobPcs, HandPcs, KeptInv, Settling
  <1>4. TypeInv'
    BY RemoveOwnerTypes DEF RedisInv
  <1>5. LeaseInv'
    <2>1. Quieter(s, n)
      BY <1>1, <1>2, <1>3, RedisAssumption DEF Quieter, UniquePcs, LeasePcs, GonePcs
    <2> QED
      BY <1>1, <2>1, LeasesQuiet DEF RedisInv, RemoveOwner, history
  <1>6. \A id \in Jobs : Leases(id)' = Leases(id)
    BY SameStore DEF RemoveOwner, history
  <1>7. HistoryGrows
    BY DEF HistoryGrows, RemoveOwner, history
  <1>8. HandsKept(p, n)
    BY <1>1, <1>2, <1>3 DEF HandsKept, Grips, HandPcs, RemoveOwner, history, Owed
  <1>9. BooksKept(p, n)
    BY <1>1, <1>2, <1>3, RedisAssumption
    DEF BooksKept, RedisInv, Booked, New, JobPcs, TokenPcs, UniquePcs, HandPcs, LeasePcs,
        GonePcs, RemoveOwner, history
  <1>10. SettlesKept(p, n)
    <2>1. \A r \in Procs : proc[r].pc = "holding" => proc[r].id \in Jobs /\ proc[r].id # s.id
      <3>1. p \in Hands(s.id)
        BY <1>1 DEF Hands, Grips, HandPcs
      <3> QED
        BY <3>1, LeaseIsPlace, LeaseApart DEF LeasePcs
    <2>2. \A i \in Jobs : i # s.id => owner'[i] = owner[i]
      BY DEF RemoveOwner, RedisInv, TypeInv, RedisTypes
    <2>3. succeeded' = succeeded
      BY DEF RemoveOwner, history
    <2> QED
      BY <1>2, <1>3, <2>1, <2>2, <2>3 DEF SettlesKept
  <1>11. StoredKept(p)
    BY <1>1, <1>2, <1>3, RedisAssumption
    DEF StoredKept, Graves, RedisInv, TypeInv, RedisTypes, RemoveOwner, history
  <1> QED
    BY <1>1, <1>4, <1>5, <1>6, <1>7, <1>8, <1>9, <1>10, <1>11, QuietStep
    DEF RemoveOwner, history

LEMMA DeleteJobKeeps ==
  ASSUME RedisInv, NEW p \in Procs, DeleteJob(p)
  PROVE  RedisInv'
  <1> DEFINE s == proc[p]
             n == Idle
  <1>1. s \in Call /\ Shape(s) /\ s.pc = "delete" /\ Goto(p, n)
    BY ThisCall DEF RedisInv, DeleteJob, Step, At
  <1>2. /\ n.pc = "idle" /\ n.op = None /\ s.op \in {"ack", "dead"} /\ s.id \in Jobs
    BY <1>1 DEF Idle, Shape, JobPcs
  <1> HIDE DEF n
  <1>3. s.id \in accepted
    BY <1>1, <1>2, RedisAssumption DEF RedisInv, Booked, New, JobPcs
  <1>4. TypeInv'
    BY DeleteJobTypes DEF RedisInv
  <1>5. LeaseInv'
    <2>1. Quieter(s, n)
      BY <1>1, <1>2, <1>3, RedisAssumption DEF Quieter, UniquePcs, LeasePcs, GonePcs
    <2> QED
      BY <1>1, <2>1, LeasesQuiet DEF RedisInv, DeleteJob, history
  <1>6. \A id \in Jobs : Leases(id)' = Leases(id)
    BY SameStore DEF DeleteJob, history
  <1>7. HistoryGrows
    BY DEF HistoryGrows, DeleteJob, history
  <1>8. HandsKept(p, n)
    BY <1>1, <1>2, <1>3 DEF HandsKept, Grips, HandPcs, DeleteJob, history
  <1>9. BooksKept(p, n)
    BY <1>1, <1>2, <1>3, RedisAssumption
    DEF BooksKept, RedisInv, Booked, New, JobPcs, TokenPcs, UniquePcs, HandPcs, LeasePcs,
        GonePcs, DeleteJob, history
  <1>10. SettlesKept(p, n)
    BY <1>1, <1>2, <1>3, RedisAssumption DEF SettlesKept, DeleteJob, history
  <1>11. StoredKept(p)
    <2>1. \A i \in Jobs : i # s.id => job'[i] = job[i]
      BY DEF DeleteJob, RedisInv, TypeInv, RedisTypes
    <2>2. \A i \in Jobs : Graves(i)' = Graves(i)
      BY SameStore DEF DeleteJob
    <2>3. ASSUME NEW i \in Jobs, i = s.id, i \in Owed' PROVE Graves(i)' # {}
      <3>1. s.op = "dead"
        BY <1>1, <1>2, <2>3 DEF RedisInv, KeptInv, Settling, Owed, DeleteJob
      <3>2. [id |-> s.id, token |-> s.token] \in dead
        BY <2>3, <3>1 DEF Owed, DeleteJob
      <3>3. [id |-> s.id, token |-> s.token] \in Graves(i)
        BY <2>3, <3>2 DEF Graves
      <3> QED
        BY <2>2, <3>3
    <2>4. Owed' \subseteq Jobs
      BY <1>4 DEF Owed, TypeInv, RedisTypes
    <2> QED
      BY <1>1, <2>1, <2>2, <2>3, <2>4 DEF StoredKept
  <1> QED
    BY <1>1, <1>4, <1>5, <1>6, <1>7, <1>8, <1>9, <1>10, <1>11, QuietStep
    DEF DeleteJob, history

LEMMA ScanQueueKeeps ==
  ASSUME RedisInv, NEW p \in Procs, ScanQueue(p)
  PROVE  RedisInv'
  <1> DEFINE s == proc[p]
             n == proc'[p]
  <1>1. s \in Call /\ Shape(s) /\ s.pc = "scan" /\ Goto(p, n)
    <2>1. \E m : Goto(p, m)
      BY DEF ScanQueue
    <2> QED
      BY <2>1, ThisCall DEF RedisInv, ScanQueue, At, Goto, TypeInv, RedisTypes
  <1>2. /\ n.pc \in {"claim", "scan", "head", "idle"} /\ n.op # "ack" /\ n.op # "purge"
    <2> DEFINE T(q) == IF s.op = "reserve" THEN Expired(q, s.at) ELSE Due(q, s.at)
               u(q) == [s EXCEPT !.scan = s.scan \ {q}, !.todo = T(q)]
    <2>1. PICK q \in s.scan : Goto(p, Continue(u(q)))
      BY DEF ScanQueue
    <2>2. s.op \in {"reserve", "promote"}
      BY <1>1 DEF Shape
    <2>3. T(q) \subseteq Tokens \cup Jobs
      BY DEF RedisInv, TypeInv, RedisTypes, Expired, Due
    <2>4. u(q) \in Call /\ u(q).op = s.op
      <3> HIDE DEF T
      <3> QED
        BY <1>1, <2>3 DEF Call
    <2>5. n = Continue(u(q))
      BY <2>1 DEF Goto, RedisInv, TypeInv, RedisTypes
    <2> HIDE DEF n, u
    <2> QED
      BY <2>2, <2>4, <2>5, ContinueCall, RedisAssumption DEF Idle
  <1> HIDE DEF n
  <1>3. TypeInv'
    BY ScanQueueTypes DEF RedisInv
  <1>4. LeaseInv'
    BY ScanQueueLease DEF RedisInv
  <1>5. \A id \in Jobs : Leases(id)' = Leases(id)
    BY SameStore DEF ScanQueue, store, history
  <1>6. HistoryGrows
    BY DEF HistoryGrows, ScanQueue, store, history
  <1>7. HandsKept(p, n)
    BY <1>1, <1>2 DEF HandsKept, Grips, HandPcs, ScanQueue, store, history
  <1>8. BooksKept(p, n)
    BY <1>1, <1>2, RedisAssumption
    DEF BooksKept, RedisInv, Booked, New, JobPcs, TokenPcs, UniquePcs, HandPcs, LeasePcs,
        GonePcs, ScanQueue, store, history
  <1>9. SettlesKept(p, n)
    BY <1>1, <1>2, RedisAssumption DEF SettlesKept, ScanQueue, store, history
  <1>10. StoredKept(p)
    BY <1>1, <1>2, RedisAssumption
    DEF StoredKept, Graves, RedisInv, TypeInv, RedisTypes, ScanQueue, store, history
  <1> QED
    BY <1>1, <1>3, <1>4, <1>5, <1>6, <1>7, <1>8, <1>9, <1>10, QuietStep
    DEF ScanQueue, store, history

LEMMA PopHeadKeeps ==
  ASSUME RedisInv, NEW p \in Procs, PopHead(p)
  PROVE  RedisInv'
  <1> DEFINE s == proc[p]
             n == proc'[p]
  <1>1. s \in Call /\ Shape(s) /\ s.pc = "head" /\ Goto(p, n)
    <2>1. \E m : Goto(p, m)
      BY DEF PopHead
    <2> QED
      BY <2>1, ThisCall DEF RedisInv, PopHead, At, Goto, TypeInv, RedisTypes
  <1>2. /\ n.pc \in {"head", "idle", "pop"} /\ n.op # "ack" /\ n.op # "purge"
        /\ n.pc = "pop" => n.id \in ready
        /\ n.op = "reserve" => s.op = "reserve" /\ n.at = s.at /\ n.todo = s.todo
    <2> DEFINE ids == {i \in ready : QueueOf(i) = ReserveOrder[s.qi]}
    <2>1. s.op = "reserve" /\ s.todo = {}
      BY <1>1 DEF Shape
    <2>2. CASE n = NextQueue(s)
      <3> HIDE DEF n
      <3>1. n \in Call /\ Shape(n) /\ n.pc \in {"head", "idle"} /\ n.todo = {}
            /\ (n.op = "reserve" => n.at = s.at)
        BY <1>1, <2>1, <2>2, NextQueueCall
      <3>2. n.op # "ack" /\ n.op # "purge"
        BY <3>1, RedisAssumption DEF Shape
      <3> QED
        BY <2>1, <3>1, <3>2
    <2>3. ASSUME NEW i \in Jobs, IsHead(i, ids), n = [s EXCEPT !.pc = "pop", !.id = i]
          PROVE  n.pc = "pop" /\ n.op = s.op /\ n.id \in ready /\ n.at = s.at /\ n.todo = s.todo
      <3>1. i \in ready
        BY <2>3 DEF IsHead
      <3> HIDE DEF n
      <3> QED
        BY <1>1, <2>3, <3>1 DEF Call
    <2>4. \/ n = NextQueue(s)
          \/ \E i \in Jobs : IsHead(i, ids) /\ n = [s EXCEPT !.pc = "pop", !.id = i]
      BY DEF PopHead, Goto, RedisInv, TypeInv, RedisTypes
    <2> HIDE DEF n, ids
    <2> QED
      BY <2>1, <2>2, <2>3, <2>4
  <1> HIDE DEF n
  <1>3. TypeInv'
    BY PopHeadTypes DEF RedisInv
  <1>4. LeaseInv'
    <2>1. Quieter(s, n)
      BY <1>1, <1>2, RedisAssumption DEF Quieter, UniquePcs, LeasePcs, GonePcs
    <2> QED
      BY <1>1, <2>1, LeasesQuiet DEF RedisInv, PopHead, store, history
  <1>5. \A id \in Jobs : Leases(id)' = Leases(id)
    BY SameStore DEF PopHead, store, history
  <1>6. HistoryGrows
    BY DEF HistoryGrows, PopHead, store, history
  <1>7. HandsKept(p, n)
    BY <1>1, <1>2 DEF HandsKept, Grips, HandPcs, PopHead, store, history
  <1>8. BooksKept(p, n)
    BY <1>1, <1>2, RedisAssumption
    DEF BooksKept, RedisInv, Booked, New, JobPcs, TokenPcs, UniquePcs, HandPcs, LeasePcs,
        GonePcs, PopHead, store, history
  <1>9. SettlesKept(p, n)
    BY <1>1, <1>2, RedisAssumption DEF SettlesKept, PopHead, store, history
  <1>10. StoredKept(p)
    BY <1>1, <1>2, RedisAssumption
    DEF StoredKept, Graves, RedisInv, TypeInv, RedisTypes, PopHead, store, history
  <1> QED
    BY <1>1, <1>3, <1>4, <1>5, <1>6, <1>7, <1>8, <1>9, <1>10, QuietStep
    DEF PopHead, store, history

LEMMA ReclaimDelRefKeeps ==
  ASSUME RedisInv, NEW p \in Procs, ReclaimDelRef(p)
  PROVE  RedisInv'
  <1> DEFINE s == proc[p]
             n == IF s.id = None THEN Continue(s) ELSE [s EXCEPT !.pc = "reload"]
  <1>1. s \in Call /\ Shape(s) /\ s.pc = "unref" /\ Goto(p, n)
    BY ThisCall DEF RedisInv, ReclaimDelRef, Step, At
  <1>2. /\ n.pc \in {"claim", "scan", "head", "idle", "reload"} /\ n.op # "ack" /\ n.op # "purge"
        /\ s.op = "reserve" /\ (n.op = "reserve" => n.at = s.at /\ n.todo = s.todo)
        /\ IF n.pc = "reload" THEN n.id = s.id /\ n.token = s.token /\ s.id # None ELSE s.id = None
    <2>1. s.op = "reserve"
      BY <1>1 DEF Shape
    <2>2. CASE s.id = None
      <3>1. n = Continue(s)
        BY <2>2
      <3> HIDE DEF n
      <3> QED
        BY <1>1, <2>1, <2>2, <3>1, ContinueCall, RedisAssumption DEF Idle
    <2>3. CASE s.id # None
      BY <1>1, <2>1, <2>3 DEF Call
    <2> QED
      BY <2>2, <2>3
  <1> HIDE DEF n
  <1>3. /\ s.token \in Tokens /\ s.token <= token
        /\ (s.id # None => s.id \in accepted)
        /\ \A r \in Procs : r # p /\ proc[r].pc \in UniquePcs => proc[r].token # s.token
        /\ \A r \in Procs : r # p /\ proc[r].pc = "ref" => proc[r].token \in Tokens \ {s.token}
    BY <1>1, RedisAssumption, TokenAlone
    DEF UniquePcs, GonePcs, RedisInv, Booked, New, JobPcs, HandPcs
  <1>4. TypeInv'
    BY ReclaimDelRefTypes DEF RedisInv
  <1>5. LeaseInv'
    <2>1. \A l \in processing : l.token # s.token
      BY <1>1 DEF RedisInv, LeaseInv, LeasesHeld, KeepsLease, HasLease, GonePcs
    <2> QED
      BY <1>1, <1>2, <1>3, <1>4, <2>1, LeaseRemoved
      DEF ReclaimDelRef, RedisInv, TypeInv, RedisTypes, UniquePcs, LeasePcs, GonePcs
  <1>6. \A id \in Jobs : Leases(id)' = Leases(id)
    <2>1. ~HasLease(s.token) /\ UNCHANGED processing
      BY <1>1 DEF RedisInv, LeaseInv, LeasesHeld, KeepsLease, GonePcs, ReclaimDelRef
    <2>2. \A t \in Tokens : t # s.token => res'[t] = res[t]
      BY DEF ReclaimDelRef, RedisInv, TypeInv, RedisTypes
    <2>3. \A t \in Tokens : HasLease(t)' <=> HasLease(t)
      BY <2>1 DEF HasLease
    <2> HIDE DEF s
    <2> QED
      BY <2>1, <2>2, <2>3 DEF Leases
  <1>7. HistoryGrows
    BY DEF HistoryGrows, ReclaimDelRef, history
  <1>8. HandsKept(p, n)
    BY <1>1, <1>2, <1>3, RedisAssumption
    DEF HandsKept, Grips, HandPcs, ReclaimDelRef, RedisInv, TypeInv, RedisTypes, history,
        Owed
  <1>9. BooksKept(p, n)
    BY <1>1, <1>2, <1>3, RedisAssumption
    DEF BooksKept, RedisInv, Booked, New, TypeInv, RedisTypes, JobPcs, HandPcs, LeasePcs,
        ReclaimDelRef, history
  <1>10. SettlesKept(p, n)
    BY <1>1, <1>2, <1>3, RedisAssumption DEF SettlesKept, ReclaimDelRef, history
  <1>11. StoredKept(p)
    BY <1>1, <1>2, <1>3, RedisAssumption
    DEF StoredKept, Graves, RedisInv, TypeInv, RedisTypes, ReclaimDelRef, history
  <1> QED
    BY <1>1, <1>4, <1>5, <1>6, <1>7, <1>8, <1>9, <1>10, <1>11, QuietStep
    DEF ReclaimDelRef, history

LEMMA RemoveResKeeps ==
  ASSUME RedisInv, NEW p \in Procs, RemoveRes(p)
  PROVE  RedisInv'
  <1> DEFINE s == proc[p]
             n == [s EXCEPT !.pc = "disclaim"]
  <1>1. s \in Call /\ Shape(s) /\ s.pc = "unres" /\ Goto(p, n)
    BY ThisCall DEF RedisInv, RemoveRes, Step, At
  <1>2. /\ n.pc = "disclaim" /\ n.id = s.id /\ n.op = s.op /\ s.id \in Jobs
        /\ s.op \in {"ack", "nack", "dead"}
    BY <1>1 DEF Call, Shape, JobPcs, HandPcs
  <1> HIDE DEF n
  <1>3. /\ s.token \in Tokens /\ s.token <= token
        /\ s.id \in accepted /\ (s.op = "ack" => s.id \in succeeded)
        /\ \A r \in Procs : r # p /\ proc[r].pc \in UniquePcs => proc[r].token # s.token
        /\ \A r \in Procs : r # p /\ proc[r].pc = "ref" => proc[r].token \in Tokens \ {s.token}
    BY <1>1, <1>2, RedisAssumption, TokenAlone
    DEF UniquePcs, GonePcs, RedisInv, Booked, New, JobPcs, HandPcs, KeptInv, Settling
  <1>4. TypeInv'
    BY RemoveResTypes DEF RedisInv
  <1>5. LeaseInv'
    BY <1>1, <1>2, <1>3, <1>4, LeaseRemoved
    DEF RemoveRes, RedisInv, TypeInv, RedisTypes, UniquePcs, LeasePcs, GonePcs
  <1>6. \A id \in Jobs : Leases(id)' = Leases(id)
    <2>1. ~HasLease(s.token) /\ UNCHANGED processing
      BY <1>1 DEF RedisInv, LeaseInv, LeasesHeld, KeepsLease, GonePcs, RemoveRes
    <2>2. \A t \in Tokens : t # s.token => res'[t] = res[t]
      BY DEF RemoveRes, RedisInv, TypeInv, RedisTypes
    <2>3. \A t \in Tokens : HasLease(t)' <=> HasLease(t)
      BY <2>1 DEF HasLease
    <2> HIDE DEF s
    <2> QED
      BY <2>1, <2>2, <2>3 DEF Leases
  <1>7. HistoryGrows
    BY DEF HistoryGrows, RemoveRes, history
  <1>8. HandsKept(p, n)
    BY <1>1, <1>2, <1>3, RedisAssumption
    DEF HandsKept, Grips, HandPcs, RemoveRes, RedisInv, TypeInv, RedisTypes, history
  <1>9. BooksKept(p, n)
    BY <1>1, <1>2, <1>3, RedisAssumption
    DEF BooksKept, RedisInv, Booked, New, TypeInv, RedisTypes, JobPcs, HandPcs, LeasePcs,
        RemoveRes, history
  <1>10. SettlesKept(p, n)
    BY <1>1, <1>2, <1>3, RedisAssumption DEF SettlesKept, RemoveRes, history
  <1>11. StoredKept(p)
    BY <1>1, <1>2, <1>3, RedisAssumption
    DEF StoredKept, Graves, RedisInv, TypeInv, RedisTypes, RemoveRes, history
  <1> QED
    BY <1>1, <1>4, <1>5, <1>6, <1>7, <1>8, <1>9, <1>10, <1>11, QuietStep
    DEF RemoveRes, history

LEMMA LoserDelLeaseKeeps ==
  ASSUME RedisInv, NEW p \in Procs, LoserDelLease(p)
  PROVE  RedisInv'
  <1> DEFINE s == proc[p]
             n == Idle
  <1>1. s \in Call /\ Shape(s) /\ s.pc = "loseLease" /\ Goto(p, n)
    BY ThisCall DEF RedisInv, LoserDelLease, Step, At
  <1>2. n.pc = "idle" /\ n.op = None
    BY DEF Idle
  <1> HIDE DEF n
  <1>3. /\ s.token \in Tokens /\ res[s.token] = None
        /\ \A r \in Procs : r # p /\ proc[r].pc \in UniquePcs => proc[r].token # s.token
        /\ \A r \in Procs : r # p /\ proc[r].pc = "ref" => proc[r].token \in Tokens \ {s.token}
    BY <1>1, TokenAlone DEF UniquePcs, RedisInv, LeaseInv, LeasesHeld, KeepsLease
  <1>4. TypeInv'
    BY LoserDelLeaseTypes DEF RedisInv
  <1>5. LeaseInv'
    BY <1>1, <1>2, <1>3, <1>4, LeaseRemoved, RedisAssumption
    DEF LoserDelLease, RedisInv, UniquePcs, LeasePcs, GonePcs
  <1>6. \A id \in Jobs : Leases(id)' = Leases(id)
    <2>1. \A t \in Tokens : t # s.token => (HasLease(t)' <=> HasLease(t))
      BY DEF LoserDelLease, HasLease
    <2>2. res' = res
      BY DEF LoserDelLease
    <2> QED
      BY <1>3, <2>1, <2>2, RedisAssumption DEF Leases
  <1>7. HistoryGrows
    BY DEF HistoryGrows, LoserDelLease, history
  <1>8. HandsKept(p, n)
    BY <1>1, <1>2, <1>3 DEF HandsKept, Grips, HandPcs, LoserDelLease, history
  <1>9. BooksKept(p, n)
    BY <1>1, <1>2, <1>3, RedisAssumption
    DEF BooksKept, RedisInv, Booked, New, JobPcs, TokenPcs, UniquePcs, HandPcs, LeasePcs,
        GonePcs, LoserDelLease, history
  <1>10. SettlesKept(p, n)
    BY <1>1, <1>2, <1>3, RedisAssumption DEF SettlesKept, LoserDelLease, history
  <1>11. StoredKept(p)
    BY <1>1, <1>2, <1>3, RedisAssumption
    DEF StoredKept, Graves, RedisInv, TypeInv, RedisTypes, LoserDelLease, history
  <1> QED
    BY <1>1, <1>4, <1>5, <1>6, <1>7, <1>8, <1>9, <1>10, <1>11, QuietStep
    DEF LoserDelLease, history

LEMMA SettleKeeps ==
  ASSUME RedisInv, NEW p \in Procs, NEW op \in {"ack", "nack", "dead"}, NEW delay \in 0..1,
         Settle(p, op, delay)
  PROVE  RedisInv'
  <1> DEFINE s == proc[p]
             a == IF delay > 0 THEN now + delay ELSE 0
             l == IF op = "dead" \/ owner[s.id] = s.token THEN "unlease" ELSE "loseRes"
             n == [s EXCEPT !.op = op, !.at = a, !.pc = l]
  <1>1. s \in Call /\ Shape(s) /\ s.pc = "holding" /\ Goto(p, n)
    BY ThisCall DEF RedisInv, Settle, Step, At
  <1>2. /\ n.pc = l /\ n.op = op /\ n.id = s.id /\ n.token = s.token /\ s.id \in Jobs
        /\ s.token \in Tokens /\ l \in {"unlease", "loseRes"}
        /\ (l = "loseRes" => owner[s.id] # s.token)
    <2>1. l \in {"unlease", "loseRes"} /\ (l = "loseRes" => owner[s.id] # s.token)
      OBVIOUS
    <2> HIDE DEF a, l
    <2> QED
      BY <1>1, <2>1 DEF Call, Shape, JobPcs, TokenPcs, UniquePcs, LeasePcs
  <1> HIDE DEF n, a, l
  <1>3. s.id \in accepted
    BY <1>1, <1>2, RedisAssumption DEF RedisInv, Booked, New, JobPcs, LeasePcs
  <1>4. TypeInv'
    BY SettleTypes DEF RedisInv
  <1>5. LeaseInv'
    <2>1. Quieter(s, n)
      BY <1>1, <1>2, <1>3, RedisAssumption DEF Quieter, UniquePcs, LeasePcs, GonePcs
    <2> QED
      BY <1>1, <2>1, LeasesQuiet DEF RedisInv, Settle, store, history
  <1>6. \A id \in Jobs : Leases(id)' = Leases(id)
    BY SameStore DEF Settle, store, history
  <1>7. HistoryGrows
    BY DEF HistoryGrows, Settle, store, history
  <1>8. HandsKept(p, n)
    BY <1>1, <1>2, <1>3 DEF HandsKept, Grips, HandPcs, Settle, store, history
  <1>9. BooksKept(p, n)
    BY <1>1, <1>2, <1>3, RedisAssumption
    DEF BooksKept, RedisInv, Booked, New, JobPcs, TokenPcs, UniquePcs, HandPcs, LeasePcs,
        GonePcs, Settle, store, history
  <1>10. SettlesKept(p, n)
    <2>1. s.id \in accepted
      BY <1>1, <1>2, RedisAssumption DEF RedisInv, Booked, New, JobPcs, LeasePcs
    <2>2. l = "loseRes" => s.id \notin Owed'
      BY <1>1, <1>2, <2>1, <1>7, OwedShrinks DEF HistoryGrows, RedisInv, KeptInv, Settling
    <2>3. op = "ack" => s.id \in succeeded'
      BY DEF Settle
    <2> QED
      BY <1>2, <2>2, <2>3 DEF SettlesKept, Settle, store
  <1>11. StoredKept(p)
    BY <1>1, <1>2, <1>3, RedisAssumption
    DEF StoredKept, Graves, RedisInv, TypeInv, RedisTypes, Settle, store, history
  <1> QED
    BY <1>1, <1>4, <1>5, <1>6, <1>7, <1>8, <1>9, <1>10, <1>11, QuietStep
    DEF Settle, store, history

LEMMA PurgeDelayedKeeps ==
  ASSUME RedisInv, NEW p \in Procs, PurgeDelayed(p)
  PROVE  RedisInv'
  <1> DEFINE s == proc[p]
             u == [s EXCEPT !.todo = s.todo \cup
                              {d.id : d \in {d \in delayed : QueueOf(d.id) \in s.scan}}]
             n == PurgeNext(u)
  <1>1. s \in Call /\ Shape(s) /\ s.pc = "purgeDelayed" /\ Goto(p, n)
    BY ThisCall DEF RedisInv, PurgeDelayed, Step, At
  <1>2. /\ n.pc \in {"dropReady", "purgeJob"} /\ n.op = "purge" /\ n.todo \subseteq accepted
        /\ s.op = "purge"
    <2>1. s.op = "purge" /\ s.todo \subseteq accepted /\ s.todo \subseteq Jobs
      BY <1>1 DEF Shape, RedisInv, Booked
    <2> DEFINE D == {d.id : d \in {d \in delayed : QueueOf(d.id) \in s.scan}}
    <2>2. D \subseteq accepted /\ D \subseteq Jobs
      BY DEF RedisInv, Booked, TypeInv, RedisTypes
    <2>3. u = [s EXCEPT !.todo = s.todo \cup D]
      OBVIOUS
    <2> HIDE DEF D, u
    <2>4. u \in Call /\ u.op = "purge" /\ u.todo = s.todo \cup D
      BY <1>1, <2>1, <2>2, <2>3 DEF Call
    <2> QED
      BY <2>1, <2>2, <2>4, PurgeNextCall
  <1> HIDE DEF n
  <1>3. TypeInv'
    BY PurgeDelayedTypes DEF RedisInv
  <1>4. LeaseInv'
    <2>1. Quieter(s, n)
      BY <1>1, <1>2, RedisAssumption DEF Quieter, UniquePcs, LeasePcs, GonePcs
    <2> QED
      BY <1>1, <2>1, LeasesQuiet DEF RedisInv, PurgeDelayed, store, history
  <1>5. \A id \in Jobs : Leases(id)' = Leases(id)
    BY SameStore DEF PurgeDelayed, store, history
  <1>6. HistoryGrows
    BY DEF HistoryGrows, PurgeDelayed, store, history
  <1>7. HandsKept(p, n)
    BY <1>1, <1>2 DEF HandsKept, Grips, HandPcs, PurgeDelayed, store, history
  <1>8. BooksKept(p, n)
    BY <1>1, <1>2, RedisAssumption
    DEF BooksKept, RedisInv, Booked, New, JobPcs, TokenPcs, UniquePcs, HandPcs, LeasePcs,
        GonePcs, PurgeDelayed, store, history
  <1>9. SettlesKept(p, n)
    BY <1>1, <1>2, RedisAssumption DEF SettlesKept, PurgeDelayed, store, history
  <1>10. StoredKept(p)
    BY <1>1, <1>2, RedisAssumption
    DEF StoredKept, Graves, RedisInv, TypeInv, RedisTypes, PurgeDelayed, store, history
  <1> QED
    BY <1>1, <1>3, <1>4, <1>5, <1>6, <1>7, <1>8, <1>9, <1>10, QuietStep
    DEF PurgeDelayed, store, history

LEMMA PurgeJobKeeps ==
  ASSUME RedisInv, NEW p \in Procs, PurgeJob(p)
  PROVE  RedisInv'
  <1> DEFINE s == proc[p]
             n == proc'[p]
  <1>1. s \in Call /\ Shape(s) /\ s.pc = "purgeJob" /\ Goto(p, n)
    <2>1. \E m : Goto(p, m)
      BY DEF PurgeJob
    <2> QED
      BY <2>1, ThisCall DEF RedisInv, PurgeJob, At, Goto, TypeInv, RedisTypes
  <1>2. /\ n.pc = "purgeOwner" /\ n.op = "purge" /\ n.id \in accepted /\ n.id \in Jobs
        /\ n.todo \subseteq accepted /\ job' = [job EXCEPT ![n.id] = None]
        /\ discarded' = discarded \cup {n.id}
    <2>1. s.op = "purge" /\ s.todo \subseteq accepted /\ s.todo \subseteq Jobs
      BY <1>1 DEF Shape, RedisInv, Booked
    <2>2. PICK id \in s.todo :
            /\ n = [s EXCEPT !.pc = "purgeOwner", !.id = id, !.todo = s.todo \ {id}]
            /\ job' = [job EXCEPT ![id] = None] /\ discarded' = discarded \cup {id}
      BY DEF PurgeJob, Goto, RedisInv, TypeInv, RedisTypes
    <2> HIDE DEF n
    <2> QED
      BY <1>1, <2>1, <2>2 DEF Call
  <1> HIDE DEF n
  <1>3. TypeInv'
    BY PurgeJobTypes DEF RedisInv
  <1>4. LeaseInv'
    <2>1. Quieter(s, n)
      BY <1>1, <1>2, RedisAssumption DEF Quieter, UniquePcs, LeasePcs, GonePcs
    <2> QED
      BY <1>1, <2>1, LeasesQuiet DEF RedisInv, PurgeJob, history
  <1>5. \A id \in Jobs : Leases(id)' = Leases(id)
    BY SameStore DEF PurgeJob, history
  <1>6. HistoryGrows
    BY DEF HistoryGrows, PurgeJob, history
  <1>7. HandsKept(p, n)
    BY <1>1, <1>2 DEF HandsKept, Grips, HandPcs, PurgeJob, history
  <1>8. BooksKept(p, n)
    <2>1. \A r \in Procs : New(proc[r]) => proc[r].id \in Jobs /\ proc[r].id \notin accepted /\ job[proc[r].id] # None
      BY ThisCall DEF RedisInv, Booked, New, Shape, JobPcs, HandPcs
    <2>2. \A i \in Jobs : i # n.id => job'[i] = job[i]
      BY <1>2 DEF RedisInv, TypeInv, RedisTypes
    <2> QED
      BY <1>1, <1>2, <2>1, <2>2 DEF BooksKept, New, PurgeJob
  <1>9. SettlesKept(p, n)
    BY <1>1, <1>2, RedisAssumption DEF SettlesKept, PurgeJob, history
  <1>10. StoredKept(p)
    <2>1. \A i \in Owed' : i \in Jobs /\ i # n.id
      BY <1>2, <1>3 DEF Owed, TypeInv, RedisTypes
    <2>2. \A i \in Jobs : i # n.id => job'[i] = job[i]
      BY <1>2 DEF RedisInv, TypeInv, RedisTypes
    <2>3. \A i \in Jobs : Graves(i)' = Graves(i)
      BY SameStore DEF PurgeJob
    <2> QED
      BY <1>1, <2>1, <2>2, <2>3 DEF StoredKept
  <1> QED
    BY <1>1, <1>3, <1>4, <1>5, <1>6, <1>7, <1>8, <1>9, <1>10, QuietStep
    DEF PurgeJob, history

----------------------------------------------------------------------------
(* The actions that drop jobs: an operator's, a loser's, and a crash.      *)

LEMMA DropReadyKeeps ==
  ASSUME RedisInv, NEW p \in Procs, DropReady(p)
  PROVE  RedisInv'
  <1> DEFINE s == proc[p]
             n == [s EXCEPT !.pc = "dropDelayed"]
  <1>1. s \in Call /\ Shape(s) /\ s.pc = "dropReady" /\ Goto(p, n)
    BY ThisCall DEF RedisInv, DropReady, Step, At
  <1>2. n.pc = "dropDelayed" /\ n.op = "purge" /\ n.todo = s.todo /\ s.op = "purge"
    BY <1>1 DEF Call, Shape
  <1> HIDE DEF n
  <1>3. TypeInv'
    BY DropReadyTypes DEF RedisInv
  <1>4. LeaseInv'
    <2>1. Quieter(s, n)
      BY <1>1, <1>2, RedisAssumption DEF Quieter, UniquePcs, LeasePcs, GonePcs
    <2> QED
      BY <1>1, <2>1, LeasesQuiet DEF RedisInv, DropReady, history
  <1>5. HistoryGrows
    BY DEF HistoryGrows, DropReady, history
  <1>6. Finding'
    BY <1>1, <1>2, Others DEF RedisInv, Finding, DropReady, history
  <1>7. /\ ready' \subseteq ready /\ delayed' \subseteq delayed /\ dead' \subseteq dead
        /\ \A id \in Jobs : Leases(id)' \subseteq Leases(id)
    BY SameStore DEF DropReady, history
  <1>8. \A id \in Owed' : /\ id \in ready => id \in ready'
                          /\ Waits(id)' = Waits(id) /\ Graves(id)' = Graves(id)
                          /\ Leases(id)' = Leases(id)
    <2>0. Owed' \subseteq Jobs
      BY <1>3 DEF Owed, TypeInv, RedisTypes
    <2> QED
      BY <2>0, SameStore DEF Owed, DropReady
  <1>9. HandsKept(p, n)
    BY <1>1, <1>2 DEF HandsKept, Grips, HandPcs, DropReady, history
  <1>10. BooksKept(p, n)
    BY <1>1, <1>2, RedisAssumption
    DEF BooksKept, RedisInv, Booked, New, JobPcs, TokenPcs, UniquePcs, HandPcs, LeasePcs,
        GonePcs, DropReady, history
  <1>11. SettlesKept(p, n)
    BY <1>1, <1>2, RedisAssumption DEF SettlesKept, DropReady, history
  <1>12. StoredKept(p)
    BY <1>1, <1>3, SameStore DEF StoredKept, Owed, TypeInv, RedisTypes, DropReady
  <1> QED
    BY <1>1, <1>3, <1>4, <1>5, <1>9, <1>10, <1>11, <1>12, <1>6, <1>7, <1>8, ShrinkStep
    DEF DropReady, history

LEMMA DropDelayedKeeps ==
  ASSUME RedisInv, NEW p \in Procs, DropDelayed(p)
  PROVE  RedisInv'
  <1> DEFINE s == proc[p]
             n == Idle
  <1>1. s \in Call /\ Shape(s) /\ s.pc = "dropDelayed" /\ Goto(p, n)
    BY ThisCall DEF RedisInv, DropDelayed, Step, At
  <1>2. n.pc = "idle" /\ n.op = None
    BY DEF Idle
  <1> HIDE DEF n
  <1>3. TypeInv'
    BY DropDelayedTypes DEF RedisInv
  <1>4. LeaseInv'
    <2>1. Quieter(s, n)
      BY <1>1, <1>2, RedisAssumption DEF Quieter, UniquePcs, LeasePcs, GonePcs
    <2> QED
      BY <1>1, <2>1, LeasesQuiet DEF RedisInv, DropDelayed, history
  <1>5. HistoryGrows
    BY DEF HistoryGrows, DropDelayed, history
  <1>6. Finding'
    BY <1>1, <1>2, Others DEF RedisInv, Finding, DropDelayed, history
  <1>7. /\ ready' \subseteq ready /\ delayed' \subseteq delayed /\ dead' \subseteq dead
        /\ \A id \in Jobs : Leases(id)' \subseteq Leases(id)
    BY SameStore DEF DropDelayed, history
  <1>8. \A id \in Owed' : /\ id \in ready => id \in ready'
                          /\ Waits(id)' = Waits(id) /\ Graves(id)' = Graves(id)
                          /\ Leases(id)' = Leases(id)
    <2>0. Owed' \subseteq Jobs
      BY <1>3 DEF Owed, TypeInv, RedisTypes
    <2>1. \A id \in Owed' : Waits(id)' = Waits(id)
      BY DEF Owed, Waits, DropDelayed
    <2> QED
      BY <2>0, <2>1, SameStore DEF DropDelayed
  <1>9. HandsKept(p, n)
    BY <1>1, <1>2 DEF HandsKept, Grips, HandPcs, DropDelayed, history
  <1>10. BooksKept(p, n)
    BY <1>1, <1>2, RedisAssumption
    DEF BooksKept, RedisInv, Booked, New, JobPcs, TokenPcs, UniquePcs, HandPcs, LeasePcs,
        GonePcs, DropDelayed, history
  <1>11. SettlesKept(p, n)
    BY <1>1, <1>2, RedisAssumption DEF SettlesKept, DropDelayed, history
  <1>12. StoredKept(p)
    BY <1>1, <1>3, SameStore DEF StoredKept, Owed, TypeInv, RedisTypes, DropDelayed
  <1> QED
    BY <1>1, <1>3, <1>4, <1>5, <1>9, <1>10, <1>11, <1>12, <1>6, <1>7, <1>8, ShrinkStep
    DEF DropDelayed, history

LEMMA LoserDelResKeeps ==
  ASSUME RedisInv, NEW p \in Procs, LoserDelRes(p)
  PROVE  RedisInv'
  <1> DEFINE s == proc[p]
             n == [s EXCEPT !.pc = "loseLease"]
  <1>1. s \in Call /\ Shape(s) /\ s.pc = "loseRes" /\ Goto(p, n)
    BY ThisCall DEF RedisInv, LoserDelRes, Step, At
  <1>2. n.pc = "loseLease" /\ n.id = s.id /\ n.token = s.token /\ n.op = s.op
        /\ s.op \in {"ack", "nack"} /\ s.id \in Jobs
    BY <1>1 DEF Call, Shape, JobPcs, LeasePcs
  <1> HIDE DEF n
  <1>3. /\ s.token \in Tokens /\ s.token <= token /\ res[s.token] = s.id
        /\ s.id \in accepted /\ s.id \notin Owed /\ (s.op = "ack" => s.id \in succeeded)
        /\ \A l \in processing : l.token = s.token => l.expires > now
        /\ \A r \in Procs : r # p /\ proc[r].pc \in UniquePcs => proc[r].token # s.token
        /\ \A r \in Procs : r # p /\ proc[r].pc = "ref" => proc[r].token \in Tokens \ {s.token}
    <2>1. KeepsLease(s)
      BY DEF RedisInv, LeaseInv, LeasesHeld
    <2>2. /\ res[s.token] = s.id
          /\ \A l \in processing : l.token = s.token => l.expires > now
      BY <1>1, <2>1 DEF KeepsLease, LeasePcs
    <2>3. s.id \in accepted /\ s.id \notin Owed /\ (s.op = "ack" => s.id \in succeeded)
      BY <1>1, <1>2, RedisAssumption
      DEF RedisInv, Booked, New, JobPcs, LeasePcs, KeptInv, Settling
    <2>4. s.pc \in UniquePcs
      BY <1>1 DEF UniquePcs, LeasePcs
    <2> QED
      BY <2>2, <2>3, <2>4, TokenAlone
  <1>4. TypeInv'
    BY LoserDelResTypes DEF RedisInv
  <1>5. LeaseInv'
    <2>1. res' = [res EXCEPT ![s.token] = None] /\ UNCHANGED <<now, token, processing>>
      BY DEF LoserDelRes
    <2>2. res'[s.token] = None /\ (\A u \in Tokens : u # s.token => res'[u] = res[u])
      BY <1>3, <2>1 DEF RedisInv, TypeInv, RedisTypes
    <2>3. n.pc \notin LeasePcs \cup {"res"} /\ n.pc \notin GonePcs /\ n.op # "reserve"
      BY <1>2 DEF LeasePcs, GonePcs
    <2> QED
      BY <1>1, <1>2, <1>3, <1>4, <2>1, <2>2, <2>3, LeaseRemoved DEF RedisInv
  <1>6. HistoryGrows
    BY DEF HistoryGrows, LoserDelRes, history
  <1>7. Finding'
    BY <1>1, <1>2, Others DEF RedisInv, Finding, LoserDelRes, history
  <1>8. /\ ready' \subseteq ready /\ delayed' \subseteq delayed /\ dead' \subseteq dead
        /\ \A id \in Jobs : Leases(id)' \subseteq Leases(id)
    <2>1. \A t \in Tokens : res'[t] = res[t] \/ res'[t] = None
      BY DEF LoserDelRes, RedisInv, TypeInv, RedisTypes
    <2>2. \A t \in Tokens : HasLease(t)' <=> HasLease(t)
      BY DEF HasLease, LoserDelRes
    <2> QED
      BY <2>1, <2>2, RedisAssumption DEF Leases, LoserDelRes
  <1>9. \A id \in Owed' : /\ id \in ready => id \in ready'
                          /\ Waits(id)' = Waits(id) /\ Graves(id)' = Graves(id)
                          /\ Leases(id)' = Leases(id)
    <2>0. Owed' \subseteq Jobs
      BY <1>4 DEF Owed, TypeInv, RedisTypes
    <2>1. \A t \in Tokens : HasLease(t)' <=> HasLease(t)
      BY DEF HasLease, LoserDelRes
    <2>2. ASSUME NEW id \in Owed' PROVE Leases(id)' = Leases(id)
      <3>1. id # s.id
        BY <1>6, <1>3, OwedNow DEF LoserDelRes, history
      <3>2. \A t \in Tokens : res'[t] = id <=> res[t] = id
        BY <2>0, <3>1, <1>3, RedisAssumption DEF LoserDelRes, RedisInv, TypeInv, RedisTypes
      <3> QED
        BY <2>1, <3>2 DEF Leases
    <2> QED
      BY <2>0, <2>2, SameStore DEF LoserDelRes
  <1>10. HandsKept(p, n)
    BY <1>1, <1>2, <1>3, RedisAssumption
    DEF HandsKept, Grips, HandPcs, LoserDelRes, RedisInv, TypeInv, RedisTypes, history
  <1>11. BooksKept(p, n)
    BY <1>1, <1>2, <1>3, RedisAssumption
    DEF BooksKept, RedisInv, Booked, New, TypeInv, RedisTypes, JobPcs, HandPcs, LeasePcs,
        LoserDelRes, history
  <1>12. SettlesKept(p, n)
    BY <1>1, <1>2, <1>3, RedisAssumption DEF SettlesKept, LoserDelRes, history
  <1>13. StoredKept(p)
    BY <1>1, <1>4, SameStore DEF StoredKept, Owed, TypeInv, RedisTypes, LoserDelRes, history
  <1> QED
    BY <1>1, <1>4, <1>5, <1>6, <1>10, <1>11, <1>12, <1>13, <1>7, <1>8, <1>9, ShrinkStep
    DEF LoserDelRes, history

LEMMA FlushDeadKeeps ==
  ASSUME RedisInv, NEW p \in Procs, NEW q, FlushDead(p, q), OneOperator
  PROVE  RedisInv'
  <1> DEFINE s == proc[p]
             n == s
  <1>1. s \in Call /\ Shape(s) /\ s.pc = "idle" /\ Goto(p, n)
    BY ThisCall DEF RedisInv, FlushDead, OperatorCall, At, Goto, TypeInv, RedisTypes
  <1>2. n.pc = "idle" /\ n.op = None /\ n = s /\ p \in Operators
    BY <1>1 DEF Shape, FlushDead, OperatorCall
  <1> HIDE DEF n
  <1>3. TypeInv'
    BY FlushDeadTypes DEF RedisInv
  <1>4. LeaseInv'
    <2>1. Quieter(s, n)
      BY <1>1, <1>2, RedisAssumption DEF Quieter, UniquePcs, LeasePcs, GonePcs
    <2> QED
      BY <1>1, <2>1, LeasesQuiet DEF RedisInv, FlushDead, history, OperatorCall
  <1>5. HistoryGrows
    BY DEF HistoryGrows, FlushDead, history, OperatorCall
  <1>6. Finding'
    BY <1>1, <1>2 DEF RedisInv, Finding, OneOperator, FlushDead
  <1>7. /\ ready' \subseteq ready /\ delayed' \subseteq delayed /\ dead' \subseteq dead
        /\ \A id \in Jobs : Leases(id)' \subseteq Leases(id)
    BY SameStore DEF FlushDead, history, OperatorCall
  <1>8. \A id \in Owed' : /\ id \in ready => id \in ready'
                          /\ Waits(id)' = Waits(id) /\ Graves(id)' = Graves(id)
                          /\ Leases(id)' = Leases(id)
    <2>0. Owed' \subseteq Jobs
      BY <1>3 DEF Owed, TypeInv, RedisTypes
    <2>1. \A id \in Owed' : Graves(id)' = Graves(id)
      BY DEF Owed, Graves, FlushDead
    <2> QED
      BY <2>0, <2>1, SameStore DEF FlushDead
  <1>9. HandsKept(p, n)
    BY <1>1, <1>2 DEF HandsKept, Grips, HandPcs, FlushDead, history, OperatorCall
  <1>10. BooksKept(p, n)
    BY <1>1, <1>2, RedisAssumption
    DEF BooksKept, RedisInv, Booked, New, JobPcs, TokenPcs, UniquePcs, HandPcs, LeasePcs,
        GonePcs, FlushDead, history, OperatorCall
  <1>11. SettlesKept(p, n)
    BY <1>1, <1>2, RedisAssumption DEF SettlesKept, FlushDead, history, OperatorCall
  <1>12. StoredKept(p)
    <2>1. \A id \in Owed' : Graves(id)' = Graves(id)
      BY DEF Owed, Graves, FlushDead
    <2> QED
      BY <1>1, <2>1 DEF StoredKept, FlushDead
  <1> QED
    BY <1>1, <1>3, <1>4, <1>5, <1>9, <1>10, <1>11, <1>12, <1>6, <1>7, <1>8, ShrinkStep
    DEF FlushDead, history, OperatorCall

LEMMA CrashKeeps ==
  ASSUME RedisInv, NEW p \in Procs, Crash(p)
  PROVE  RedisInv'
  <1> DEFINE s == proc[p]
             n == Idle
  <1>1. s \in Call /\ Shape(s) /\ Goto(p, n)
    BY ThisCall DEF RedisInv, Crash
  <1>2. n.pc = "idle" /\ n.op = None
    BY DEF Idle
  <1> HIDE DEF n
  <1>3. TypeInv'
    BY CrashTypes DEF RedisInv
  <1>4. LeaseInv'
    <2>1. Quieter(s, n)
      BY <1>2, RedisAssumption DEF Quieter, UniquePcs, LeasePcs, GonePcs
    <2> QED
      BY <1>1, <2>1, LeasesQuiet DEF RedisInv, Crash, store
  <1>5. \A id \in Jobs : Leases(id)' = Leases(id)
    BY SameStore DEF Crash, store
  <1>6. HistoryGrows
    BY DEF HistoryGrows, Crash
  <1>7. ASSUME NEW id \in Owed' PROVE ~Grips(s, id)
    <2>1. id \in Jobs /\ id # None /\ id \in accepted /\ id \notin exposed' /\ id \notin succeeded
      BY <1>3, RedisAssumption DEF Owed, Crash, TypeInv, RedisTypes
    <2>2. InHand(s) => s.id # id
      BY <2>1 DEF Crash
    <2>3. s.pc = "ref" => res[s.token] # id
      BY <2>1 DEF Crash, InHand
    <2>4. s.pc \in HandPcs /\ ~InHand(s) => New(s) \/ s.op = "ack"
      BY <1>1 DEF InHand, HandPcs, Shape, New
    <2>5. New(s) => s.id # id
      BY <2>1 DEF RedisInv, Booked
    <2>6. s.op = "ack" => s.id # id
      BY <2>1 DEF RedisInv, KeptInv, Settling
    <2> QED
      BY <2>2, <2>3, <2>4, <2>5, <2>6 DEF Grips
  <1>8. HandsKept(p, n)
    BY <1>2, <1>7 DEF HandsKept, HandPcs, Crash, store
  <1>9. BooksKept(p, n)
    BY <1>2, RedisAssumption
    DEF BooksKept, RedisInv, Booked, New, JobPcs, HandPcs, LeasePcs, Crash, store
  <1>10. SettlesKept(p, n)
    BY <1>2, RedisAssumption DEF SettlesKept, Crash, store
  <1>11. StoredKept(p)
    <2>1. \A id \in Owed' : ~(s.pc = "revive" /\ s.id = id)
      BY <1>7 DEF Grips, HandPcs
    <2> QED
      BY <2>1 DEF StoredKept, Graves, Crash, store
  <1> QED
    BY <1>1, <1>3, <1>4, <1>5, <1>6, <1>8, <1>9, <1>10, <1>11, QuietStep DEF Crash, store

----------------------------------------------------------------------------
(* Steps that move one job from a place to another.                        *)
GripsNext(n, id) == \/ n.pc \in HandPcs /\ n.id = id
                    \/ n.pc = "ref" /\ res'[n.token] = id

LEMMA HandsMove ==
  ASSUME TypeInv, NEW p \in Procs, NEW n, Goto(p, n), NEW i \in Jobs,
         \A r \in Procs : r # p /\ proc[r].pc = "ref"
                            => res'[proc[r].token] = res[proc[r].token],
         \A id \in Jobs : id # i => ~Grips(proc[p], id) /\ ~GripsNext(n, id)
  PROVE  /\ \A id \in Jobs : id # i => Hands(id)' = Hands(id)
         /\ ~GripsNext(n, i) => Hands(i)' = Hands(i) \ {p}
         /\ GripsNext(n, i) => Hands(i)' = Hands(i) \cup {p}
  <1>1. \A id \in Jobs :
           Hands(id)' = (Hands(id) \ {p}) \cup {q \in {p} : GripsNext(n, id)}
    BY HandsNow DEF GripsNext
  <1>2. \A id \in Jobs : id # i => p \notin Hands(id)
    BY DEF Hands
  <1> QED
    BY <1>1, <1>2

(* Where a job is, it is only there.                                       *)
LEMMA OnlyPlace ==
  ASSUME RedisInv, NEW i \in Jobs
  PROVE  /\ \A p \in Hands(i) : /\ Hands(i) = {p} /\ i \notin ready /\ Waits(i) = {}
                                /\ Leases(i) = {} /\ Graves(i) = {}
         /\ \A t \in Leases(i) : /\ Leases(i) = {t} /\ i \notin ready /\ Waits(i) = {}
                                 /\ Hands(i) = {} /\ Graves(i) = {}
         /\ \A d \in Graves(i) : /\ Graves(i) = {d} /\ i \notin ready /\ Waits(i) = {}
                                 /\ Leases(i) = {} /\ Hands(i) = {}
         /\ Waits(i) # {} => /\ i \notin ready /\ Leases(i) = {} /\ Hands(i) = {}
                             /\ Graves(i) = {}
         /\ i \in ready => /\ Waits(i) = {} /\ Leases(i) = {} /\ Hands(i) = {}
                           /\ Graves(i) = {}
  <1>1. OnePlace(i)
    BY DEF RedisInv, Placed
  <1> QED
    BY <1>1 DEF OnePlace, Single

(* The job `i` is in one place afterwards, the others are where they were. *)
LEMMA MoveStep ==
  ASSUME RedisInv, TypeInv', LeaseInv', Booked', Finding', Settling',
         \A id \in Owed' : Stored(id)', NEW i \in Jobs,
         \A id \in Jobs : id # i => /\ id \in ready' <=> id \in ready
                                    /\ Waits(id)' = Waits(id) /\ Graves(id)' = Graves(id)
                                    /\ Leases(id)' = Leases(id) /\ Hands(id)' = Hands(id)
                                    /\ id \in Owed' => id \in Owed,
         OnePlace(i)', i \in Owed' => Somewhere(i)'
  PROVE  RedisInv'
  <1>1. Placed'
    <2> SUFFICES ASSUME NEW id \in Jobs, id # i PROVE OnePlace(id)'
      BY DEF Placed
    <2>1. OnePlace(id)
      BY DEF RedisInv, Placed
    <2> QED
      BY <2>1 DEF OnePlace
  <1>2. Kept'
    <2> SUFFICES ASSUME NEW id \in Owed', id # i PROVE Somewhere(id)'
      BY DEF Kept
    <2>1. id \in Jobs
      BY DEF Owed, TypeInv, RedisTypes
    <2>2. Somewhere(id)
      BY <2>1 DEF RedisInv, KeptInv, Kept
    <2> QED
      BY <2>1, <2>2 DEF Somewhere
  <1> QED
    BY <1>1, <1>2 DEF RedisInv, KeptInv

----------------------------------------------------------------------------
(* The actions that move a job.                                            *)

LEMMA ReclaimAddKeeps ==
  ASSUME RedisInv, NEW p \in Procs, ReclaimAdd(p)
  PROVE  RedisInv'
  <1> DEFINE s == proc[p]
             n == [s EXCEPT !.pc = "disown"]
  <1>1. s \in Call /\ Shape(s) /\ s.pc = "readd" /\ Goto(p, n)
    BY ThisCall DEF RedisInv, ReclaimAdd, Step, At
  <1>2. PICK i \in Jobs : /\ i = s.id /\ n.pc = "disown" /\ n.id = i /\ n.token = s.token
        /\ n.op = "reserve" /\ s.op = "reserve" /\ n.at = s.at /\ n.todo = s.todo
    BY <1>1 DEF Call, Shape, JobPcs, HandPcs
  <1> HIDE DEF n
  <1>3. i \in accepted
    BY <1>1, <1>2, RedisAssumption DEF RedisInv, Booked, New, JobPcs, HandPcs
  <1>4. TypeInv'
    BY ReclaimAddTypes DEF RedisInv
  <1>5. LeaseInv'
    <2>1. Quieter(s, n)
      BY <1>1, <1>2, <1>3, RedisAssumption DEF Quieter, UniquePcs, LeasePcs, GonePcs
    <2> QED
      BY <1>1, <2>1, LeasesQuiet DEF RedisInv, ReclaimAdd, history
  <1>6. HistoryGrows
    BY DEF HistoryGrows, ReclaimAdd, history
  <1>7. Booked'
    <2>1. BooksKept(p, n)
      BY <1>1, <1>2, <1>3, RedisAssumption
      DEF BooksKept, RedisInv, Booked, New, JobPcs, TokenPcs, UniquePcs, HandPcs, LeasePcs,
          GonePcs, ReclaimAdd, history
    <2> QED
      BY <1>1, <1>2, <1>3, <2>1, BooksGoto DEF RedisInv, Booked, ReclaimAdd, history
  <1>8. Finding'
    BY <1>1, <1>2, <1>3, Others DEF RedisInv, Finding, ReclaimAdd, history
  <1>9. Settling'
    <2>1. SettlesKept(p, n)
      BY <1>1, <1>2, <1>3, RedisAssumption DEF SettlesKept, ReclaimAdd, history
    <2> QED
      BY <1>1, <1>6, <2>1, SettlesGoto
  <1>10. \A id \in Owed' : Stored(id)'
    <2>1. StoredKept(p)
      BY <1>1, <1>2, <1>3, RedisAssumption
      DEF StoredKept, Graves, RedisInv, TypeInv, RedisTypes, ReclaimAdd, history
    <2> QED
      BY <1>1, <1>6, <2>1, StoredStep DEF ReclaimAdd, history
  <1>11. /\ \A id \in Jobs : id # i => Hands(id)' = Hands(id)
         /\ ~GripsNext(n, i) => Hands(i)' = Hands(i) \ {p}
         /\ GripsNext(n, i) => Hands(i)' = Hands(i) \cup {p}
    <2>1. \A id \in Jobs : id # i => ~Grips(s, id) /\ ~GripsNext(n, id)
      BY <1>1, <1>2, <1>3 DEF Grips, GripsNext, HandPcs, ReclaimAdd, history
    <2> QED
      BY <1>1, <2>1, HandsMove DEF RedisInv, ReclaimAdd, history
  <1>12. /\ i \in ready' /\ Waits(i)' = {} /\ Leases(i)' = {} /\ Hands(i)' = {}
         /\ Graves(i)' = {}
    <2>1. p \in Hands(i)
      BY <1>1, <1>2 DEF Hands, Grips, HandPcs
    <2>2. Hands(i)' = {}
      <3>1. ~GripsNext(n, i)
        BY <1>2 DEF GripsNext, HandPcs
      <3>2. Hands(i) = {p}
        BY <2>1, OnlyPlace
      <3> QED
        BY <1>11, <3>1, <3>2
    <2> QED
      BY <1>2, <2>1, <2>2, SameStore, OnlyPlace DEF ReclaimAdd
  <1>13. \A id \in Jobs : id # i => /\ id \in ready' <=> id \in ready
                                    /\ Waits(id)' = Waits(id) /\ Graves(id)' = Graves(id)
                                    /\ Leases(id)' = Leases(id)
                                    /\ id \in Owed' => id \in Owed
    <2>1. \A id \in Jobs : id \in Owed' => id \in Owed
      BY <1>6, OwedNow DEF ReclaimAdd, history
    <2> QED
      BY <1>2, <2>1, SameStore DEF ReclaimAdd
  <1>14. OnePlace(i)' /\ (i \in Owed' => Somewhere(i)')
    BY <1>12 DEF OnePlace, Single, Somewhere
  <1>15. \A id \in Jobs : id # i => /\ id \in ready' <=> id \in ready
                                    /\ Waits(id)' = Waits(id) /\ Graves(id)' = Graves(id)
                                    /\ Leases(id)' = Leases(id) /\ Hands(id)' = Hands(id)
                                    /\ id \in Owed' => id \in Owed
    BY <1>11, <1>13
  <1> QED
    BY <1>4, <1>5, <1>7, <1>8, <1>9, <1>10, <1>14, <1>15, MoveStep

LEMMA PromoteAddKeeps ==
  ASSUME RedisInv, NEW p \in Procs, PromoteAdd(p)
  PROVE  RedisInv'
  <1> DEFINE s == proc[p]
             n == Continue([s EXCEPT !.id = None])
  <1>1. s \in Call /\ Shape(s) /\ s.pc = "addDue" /\ Goto(p, n)
    BY ThisCall DEF RedisInv, PromoteAdd, Step, At
  <1>2. PICK i \in Jobs : /\ i = s.id /\ n.pc \in {"claim", "scan", "head", "idle"}
        /\ n.op # "ack" /\ n.op # "purge" /\ n.op # "reserve"
    <2>1. s.id \in Jobs /\ s.op = "promote"
      BY <1>1 DEF Shape, JobPcs, HandPcs
    <2> DEFINE u == [s EXCEPT !.id = None]
    <2>2. u \in Call /\ u.op = "promote" /\ n = Continue(u)
      BY <1>1, <2>1 DEF Call
    <2> HIDE DEF u, n
    <2> QED
      BY <2>1, <2>2, ContinueCall, RedisAssumption DEF Idle
  <1> HIDE DEF n
  <1>3. i \in accepted
    BY <1>1, <1>2, RedisAssumption DEF RedisInv, Booked, New, JobPcs, HandPcs
  <1>4. TypeInv'
    BY PromoteAddTypes DEF RedisInv
  <1>5. LeaseInv'
    <2>1. Quieter(s, n)
      BY <1>1, <1>2, <1>3, RedisAssumption DEF Quieter, UniquePcs, LeasePcs, GonePcs
    <2> QED
      BY <1>1, <2>1, LeasesQuiet DEF RedisInv, PromoteAdd, history
  <1>6. HistoryGrows
    BY DEF HistoryGrows, PromoteAdd, history
  <1>7. Booked'
    <2>1. BooksKept(p, n)
      BY <1>1, <1>2, <1>3, RedisAssumption
      DEF BooksKept, RedisInv, Booked, New, JobPcs, TokenPcs, UniquePcs, HandPcs, LeasePcs,
          GonePcs, PromoteAdd, history
    <2> QED
      BY <1>1, <1>2, <1>3, <2>1, BooksGoto DEF RedisInv, Booked, PromoteAdd, history
  <1>8. Finding'
    BY <1>1, <1>2, <1>3, Others DEF RedisInv, Finding, PromoteAdd, history
  <1>9. Settling'
    <2>1. SettlesKept(p, n)
      BY <1>1, <1>2, <1>3, RedisAssumption DEF SettlesKept, PromoteAdd, history
    <2> QED
      BY <1>1, <1>6, <2>1, SettlesGoto
  <1>10. \A id \in Owed' : Stored(id)'
    <2>1. StoredKept(p)
      BY <1>1, <1>2, <1>3, RedisAssumption
      DEF StoredKept, Graves, RedisInv, TypeInv, RedisTypes, PromoteAdd, history
    <2> QED
      BY <1>1, <1>6, <2>1, StoredStep DEF PromoteAdd, history
  <1>11. /\ \A id \in Jobs : id # i => Hands(id)' = Hands(id)
         /\ ~GripsNext(n, i) => Hands(i)' = Hands(i) \ {p}
         /\ GripsNext(n, i) => Hands(i)' = Hands(i) \cup {p}
    <2>1. \A id \in Jobs : id # i => ~Grips(s, id) /\ ~GripsNext(n, id)
      BY <1>1, <1>2, <1>3 DEF Grips, GripsNext, HandPcs, PromoteAdd, history
    <2> QED
      BY <1>1, <2>1, HandsMove DEF RedisInv, PromoteAdd, history
  <1>12. /\ i \in ready' /\ Waits(i)' = {} /\ Leases(i)' = {} /\ Hands(i)' = {}
         /\ Graves(i)' = {}
    <2>1. p \in Hands(i)
      BY <1>1, <1>2 DEF Hands, Grips, HandPcs
    <2>2. Hands(i)' = {}
      <3>1. ~GripsNext(n, i)
        BY <1>2 DEF GripsNext, HandPcs
      <3>2. Hands(i) = {p}
        BY <2>1, OnlyPlace
      <3> QED
        BY <1>11, <3>1, <3>2
    <2> QED
      BY <1>2, <2>1, <2>2, SameStore, OnlyPlace DEF PromoteAdd
  <1>13. \A id \in Jobs : id # i => /\ id \in ready' <=> id \in ready
                                    /\ Waits(id)' = Waits(id) /\ Graves(id)' = Graves(id)
                                    /\ Leases(id)' = Leases(id)
                                    /\ id \in Owed' => id \in Owed
    <2>1. \A id \in Jobs : id \in Owed' => id \in Owed
      BY <1>6, OwedNow DEF PromoteAdd, history
    <2> QED
      BY <1>2, <2>1, SameStore DEF PromoteAdd
  <1>14. OnePlace(i)' /\ (i \in Owed' => Somewhere(i)')
    BY <1>12 DEF OnePlace, Single, Somewhere
  <1>15. \A id \in Jobs : id # i => /\ id \in ready' <=> id \in ready
                                    /\ Waits(id)' = Waits(id) /\ Graves(id)' = Graves(id)
                                    /\ Leases(id)' = Leases(id) /\ Hands(id)' = Hands(id)
                                    /\ id \in Owed' => id \in Owed
    BY <1>11, <1>13
  <1> QED
    BY <1>4, <1>5, <1>7, <1>8, <1>9, <1>10, <1>14, <1>15, MoveStep

LEMMA NackAddKeeps ==
  ASSUME RedisInv, NEW p \in Procs, NackAdd(p)
  PROVE  RedisInv'
  <1> DEFINE s == proc[p]
             n == Idle
  <1>1. s \in Call /\ Shape(s) /\ s.pc = "requeue" /\ Goto(p, n)
    BY ThisCall DEF RedisInv, NackAdd, Step, At
  <1>2. PICK i \in Jobs : /\ i = s.id /\ n.pc = "idle" /\ n.op = None
    BY <1>1 DEF Shape, JobPcs, HandPcs, Idle
  <1> HIDE DEF n
  <1>3. i \in accepted
    BY <1>1, <1>2, RedisAssumption DEF RedisInv, Booked, New, JobPcs, HandPcs
  <1>4. TypeInv'
    BY NackAddTypes DEF RedisInv
  <1>5. LeaseInv'
    <2>1. Quieter(s, n)
      BY <1>1, <1>2, <1>3, RedisAssumption DEF Quieter, UniquePcs, LeasePcs, GonePcs
    <2> QED
      BY <1>1, <2>1, LeasesQuiet DEF RedisInv, NackAdd, history
  <1>6. HistoryGrows
    BY DEF HistoryGrows, NackAdd, history
  <1>7. Booked'
    <2>1. BooksKept(p, n)
      BY <1>1, <1>2, <1>3, RedisAssumption
      DEF BooksKept, RedisInv, Booked, New, JobPcs, TokenPcs, UniquePcs, HandPcs, LeasePcs,
          GonePcs, NackAdd, history
    <2> QED
      BY <1>1, <1>2, <1>3, <2>1, BooksGoto DEF RedisInv, Booked, NackAdd, history
  <1>8. Finding'
    BY <1>1, <1>2, <1>3, Others DEF RedisInv, Finding, NackAdd, history
  <1>9. Settling'
    <2>1. SettlesKept(p, n)
      BY <1>1, <1>2, <1>3, RedisAssumption DEF SettlesKept, NackAdd, history
    <2> QED
      BY <1>1, <1>6, <2>1, SettlesGoto
  <1>10. \A id \in Owed' : Stored(id)'
    <2>1. StoredKept(p)
      BY <1>1, <1>2, <1>3, RedisAssumption
      DEF StoredKept, Graves, RedisInv, TypeInv, RedisTypes, NackAdd, history
    <2> QED
      BY <1>1, <1>6, <2>1, StoredStep DEF NackAdd, history
  <1>11. /\ \A id \in Jobs : id # i => Hands(id)' = Hands(id)
         /\ ~GripsNext(n, i) => Hands(i)' = Hands(i) \ {p}
         /\ GripsNext(n, i) => Hands(i)' = Hands(i) \cup {p}
    <2>1. \A id \in Jobs : id # i => ~Grips(s, id) /\ ~GripsNext(n, id)
      BY <1>1, <1>2, <1>3 DEF Grips, GripsNext, HandPcs, NackAdd, history
    <2> QED
      BY <1>1, <2>1, HandsMove DEF RedisInv, NackAdd, history
  <1>12. /\ i \in ready' <=> Waits(i)' = {}
         /\ Leases(i)' = {} /\ Hands(i)' = {} /\ Graves(i)' = {}
    <2>1. p \in Hands(i)
      BY <1>1, <1>2 DEF Hands, Grips, HandPcs
    <2>2. Hands(i)' = {}
      <3>1. ~GripsNext(n, i)
        BY <1>2 DEF GripsNext, HandPcs
      <3>2. Hands(i) = {p}
        BY <2>1, OnlyPlace
      <3> QED
        BY <1>11, <3>1, <3>2
    <2>3. Leases(i)' = {} /\ Graves(i)' = {} /\ i \notin ready /\ Waits(i) = {}
      BY <2>1, SameStore, OnlyPlace DEF NackAdd
    <2>4. CASE s.at > 0
      <3>1. [id |-> i, runAt |-> s.at] \in delayed' /\ ready' = ready
        BY <1>2, <2>4 DEF NackAdd
      <3>2. [id |-> i, runAt |-> s.at] \in Waits(i)'
        BY <3>1 DEF Waits
      <3> QED
        BY <2>2, <2>3, <3>1, <3>2
    <2>5. CASE ~(s.at > 0)
      BY <1>2, <2>2, <2>3, <2>5, SameStore DEF NackAdd
    <2> QED
      BY <2>4, <2>5
  <1>13. \A id \in Jobs : id # i => /\ id \in ready' <=> id \in ready
                                    /\ Waits(id)' = Waits(id) /\ Graves(id)' = Graves(id)
                                    /\ Leases(id)' = Leases(id)
                                    /\ id \in Owed' => id \in Owed
    <2>1. \A id \in Jobs : id # i /\ id \in Owed' => id \in Owed
      BY <1>6, OwedNow DEF NackAdd, history
    <2>2. \A id \in Jobs : id # i => Waits(id)' = Waits(id) /\ (id \in ready' <=> id \in ready)
      BY <1>2 DEF Waits, NackAdd
    <2> QED
      BY <2>1, <2>2, SameStore DEF NackAdd
  <1>14. OnePlace(i)' /\ (i \in Owed' => Somewhere(i)')
    BY <1>12 DEF OnePlace, Single, Somewhere
  <1>15. \A id \in Jobs : id # i => /\ id \in ready' <=> id \in ready
                                    /\ Waits(id)' = Waits(id) /\ Graves(id)' = Graves(id)
                                    /\ Leases(id)' = Leases(id) /\ Hands(id)' = Hands(id)
                                    /\ id \in Owed' => id \in Owed
    BY <1>11, <1>13
  <1> QED
    BY <1>4, <1>5, <1>7, <1>8, <1>9, <1>10, <1>14, <1>15, MoveStep

LEMMA EnqueueAddKeeps ==
  ASSUME RedisInv, NEW p \in Procs, EnqueueAdd(p)
  PROVE  RedisInv'
  <1> DEFINE s == proc[p]
             n == Idle
  <1>1. s \in Call /\ Shape(s) /\ s.pc = "add" /\ Goto(p, n)
    BY ThisCall DEF RedisInv, EnqueueAdd, Step, At
  <1>2. PICK i \in Jobs : /\ i = s.id /\ n.pc = "idle" /\ n.op = None
    BY <1>1 DEF Shape, JobPcs, HandPcs, Idle
  <1> HIDE DEF n
  <1>3. Hands(i) = {p}
    <2>1. p \in Hands(i)
      BY <1>1, <1>2 DEF Hands, Grips, HandPcs
    <2> QED
      BY <2>1, OnlyPlace
  <1>4. TypeInv'
    BY EnqueueAddTypes DEF RedisInv
  <1>5. LeaseInv'
    <2>1. Quieter(s, n)
      BY <1>1, <1>2, <1>3, RedisAssumption DEF Quieter, UniquePcs, LeasePcs, GonePcs
    <2> QED
      BY <1>1, <2>1, LeasesQuiet DEF RedisInv, EnqueueAdd, history
  <1>6. HistoryGrows
    BY DEF HistoryGrows, EnqueueAdd, history
  <1>7. Booked'
    <2>1. \A r \in Procs : r # p => proc'[r] = proc[r] /\ (New(proc[r]) => proc[r].id # i)
      BY <1>1, <1>3, Others DEF RedisInv, Hands, Grips, New, HandPcs
    <2>2. proc'[p].pc = "idle" /\ proc'[p].op = None
      BY <1>1, <1>2, Others DEF RedisInv
    <2>3. \A d \in delayed' : d.id \in accepted'
      BY <1>2 DEF EnqueueAdd, RedisInv, Booked
    <2>4. accepted' = accepted \cup {i} /\ ready' \subseteq accepted' /\ UNCHANGED <<job, res, dead>>
      BY <1>2 DEF EnqueueAdd, RedisInv, Booked
    <2> QED
      BY <2>1, <2>2, <2>3, <2>4, RedisAssumption
      DEF RedisInv, Booked, New, JobPcs, HandPcs, LeasePcs
  <1>8. Finding'
    BY <1>1, <1>2, <1>3, Others DEF RedisInv, Finding, EnqueueAdd, history
  <1>9. Settling'
    <2>1. SettlesKept(p, n)
      BY <1>1, <1>2, <1>3, RedisAssumption DEF SettlesKept, EnqueueAdd, history
    <2> QED
      BY <1>1, <1>6, <2>1, SettlesGoto
  <1>10. \A id \in Owed' : Stored(id)'
    <2>1. UNCHANGED <<job, dead>> /\ accepted' = accepted \cup {i}
      BY <1>2 DEF EnqueueAdd
    <2>2. ASSUME NEW id \in Owed', id # i PROVE Stored(id)'
      <3>1. id \in Jobs /\ id \in Owed
        BY <2>2, <1>2, <1>4 DEF Owed, EnqueueAdd, TypeInv, RedisTypes
      <3>2. Stored(id)
        BY <3>1 DEF RedisInv, KeptInv, Kept
      <3> QED
        BY <1>1, <2>1, <3>1, <3>2, StoredGoto, SameStore DEF RedisInv
    <2>3. ASSUME i \in Owed' PROVE job[i] # None
      <3>1. CASE New(s)
        BY <1>2, <3>1 DEF RedisInv, Booked
      <3>2. CASE ~New(s)
        <4>1. i \in accepted
          BY <1>1, <1>2, <3>2, RedisAssumption DEF RedisInv, Booked, JobPcs, HandPcs
        <4>2. i \in Owed
          BY <2>3, <4>1 DEF Owed, EnqueueAdd
        <4> QED
          BY <1>1, <1>3, <4>2, HandStored
      <3> QED
        BY <3>1, <3>2
    <2> QED
      BY <2>1, <2>2, <2>3 DEF Stored
  <1>11. /\ \A id \in Jobs : id # i => Hands(id)' = Hands(id)
         /\ ~GripsNext(n, i) => Hands(i)' = Hands(i) \ {p}
         /\ GripsNext(n, i) => Hands(i)' = Hands(i) \cup {p}
    <2>1. \A id \in Jobs : id # i => ~Grips(s, id) /\ ~GripsNext(n, id)
      BY <1>1, <1>2, <1>3 DEF Grips, GripsNext, HandPcs, EnqueueAdd, history
    <2> QED
      BY <1>1, <2>1, HandsMove DEF RedisInv, EnqueueAdd, history
  <1>12. /\ i \in ready' <=> Waits(i)' = {}
         /\ Leases(i)' = {} /\ Hands(i)' = {} /\ Graves(i)' = {}
    <2>1. p \in Hands(i)
      BY <1>1, <1>2 DEF Hands, Grips, HandPcs
    <2>2. Hands(i)' = {}
      <3>1. ~GripsNext(n, i)
        BY <1>2 DEF GripsNext, HandPcs
      <3>2. Hands(i) = {p}
        BY <2>1, OnlyPlace
      <3> QED
        BY <1>11, <3>1, <3>2
    <2>3. Leases(i)' = {} /\ Graves(i)' = {} /\ i \notin ready /\ Waits(i) = {}
      BY <2>1, SameStore, OnlyPlace DEF EnqueueAdd
    <2>4. CASE s.op = "enqueueDelayed"
      <3>1. [id |-> i, runAt |-> s.at] \in delayed' /\ ready' = ready
        BY <1>2, <2>4 DEF EnqueueAdd
      <3>2. [id |-> i, runAt |-> s.at] \in Waits(i)'
        BY <3>1 DEF Waits
      <3> QED
        BY <2>2, <2>3, <3>1, <3>2
    <2>5. CASE ~(s.op = "enqueueDelayed")
      BY <1>2, <2>2, <2>3, <2>5, SameStore DEF EnqueueAdd
    <2> QED
      BY <2>4, <2>5
  <1>13. \A id \in Jobs : id # i => /\ id \in ready' <=> id \in ready
                                    /\ Waits(id)' = Waits(id) /\ Graves(id)' = Graves(id)
                                    /\ Leases(id)' = Leases(id)
                                    /\ id \in Owed' => id \in Owed
    <2>1. \A id \in Jobs : id # i /\ id \in Owed' => id \in Owed
      BY <1>2 DEF Owed, EnqueueAdd
    <2>2. \A id \in Jobs : id # i => Waits(id)' = Waits(id) /\ (id \in ready' <=> id \in ready)
      BY <1>2 DEF Waits, EnqueueAdd
    <2> QED
      BY <2>1, <2>2, SameStore DEF EnqueueAdd
  <1>14. OnePlace(i)' /\ (i \in Owed' => Somewhere(i)')
    BY <1>12 DEF OnePlace, Single, Somewhere
  <1>15. \A id \in Jobs : id # i => /\ id \in ready' <=> id \in ready
                                    /\ Waits(id)' = Waits(id) /\ Graves(id)' = Graves(id)
                                    /\ Leases(id)' = Leases(id) /\ Hands(id)' = Hands(id)
                                    /\ id \in Owed' => id \in Owed
    BY <1>11, <1>13
  <1> QED
    BY <1>4, <1>5, <1>7, <1>8, <1>9, <1>10, <1>14, <1>15, MoveStep

LEMMA EnqueuePersistKeeps ==
  ASSUME RedisInv, NEW p \in Procs, NEW id \in Jobs, NEW delay \in 0..1,
         EnqueuePersist(p, id, delay)
  PROVE  RedisInv'
  <1> DEFINE s == proc[p]
             a == now + delay
             o == IF delay > 0 THEN "enqueueDelayed" ELSE "enqueue"
             n == [Idle EXCEPT !.pc = "add", !.id = id, !.at = a, !.op = o]
  <1>1. s \in Call /\ Shape(s) /\ s.pc = "idle" /\ Goto(p, n)
    BY ThisCall DEF RedisInv, EnqueuePersist, Step, At
  <1>2. PICK i \in Jobs : /\ i = id /\ n.pc = "add" /\ n.id = i /\ n.todo = {}
        /\ n.op \in {"enqueue", "enqueueDelayed"}
    <2>1. o \in {"enqueue", "enqueueDelayed"}
      OBVIOUS
    <2> HIDE DEF a, o
    <2> QED
      BY <2>1 DEF Idle
  <1> HIDE DEF n
  <1>3. /\ i \notin accepted /\ job[i] = None /\ i \notin ready /\ Waits(i) = {}
        /\ Leases(i) = {} /\ Hands(i) = {} /\ Graves(i) = {}
    <2>1. i \notin accepted /\ job[i] = None
      BY <1>2 DEF EnqueuePersist
    <2>2. \A r \in Procs : ~Grips(proc[r], i)
      <3> SUFFICES ASSUME NEW r \in Procs, Grips(proc[r], i) PROVE FALSE
        OBVIOUS
      <3>1. proc[r].pc = "ref" => proc[r].token \in Tokens
        BY ThisCall DEF RedisInv, Shape, TokenPcs, UniquePcs, GonePcs
      <3>2. HandPcs \subseteq JobPcs \cup {"unref"}
        BY DEF JobPcs
      <3> QED
        BY <2>1, <3>1, <3>2, RedisAssumption DEF Grips, RedisInv, Booked
    <2> QED
      BY <2>1, <2>2, RedisAssumption DEF RedisInv, Booked, Waits, Leases, Hands, Graves
  <1>4. TypeInv'
    BY EnqueuePersistTypes DEF RedisInv
  <1>5. LeaseInv'
    <2>1. Quieter(s, n)
      BY <1>1, <1>2, <1>3, RedisAssumption DEF Quieter, UniquePcs, LeasePcs, GonePcs
    <2> QED
      BY <1>1, <2>1, LeasesQuiet DEF RedisInv, EnqueuePersist, history
  <1>6. HistoryGrows
    BY DEF HistoryGrows, EnqueuePersist, history
  <1>7. Booked'
    <2>1. \A j \in Jobs : job[j] # None => job'[j] # None
      BY RedisAssumption DEF EnqueuePersist, RedisInv, TypeInv, RedisTypes
    <2>2. job'[i] # None
      BY <1>2, RedisAssumption DEF EnqueuePersist, RedisInv, TypeInv, RedisTypes
    <2>3. \A r \in Procs : New(proc[r]) => proc[r].id \in Jobs /\ job[proc[r].id] # None
      BY ThisCall DEF RedisInv, Booked, New, Shape, JobPcs, HandPcs
    <2>4. New(n) /\ n.op # "purge"
      BY <1>2 DEF New
    <2> QED
      BY <1>1, <1>2, <1>3, <2>1, <2>2, <2>3, <2>4, BookedGoto
      DEF RedisInv, Booked, EnqueuePersist, history
  <1>8. Finding'
    BY <1>1, <1>2, <1>3, Others DEF RedisInv, Finding, EnqueuePersist, history
  <1>9. Settling'
    <2>1. SettlesKept(p, n)
      BY <1>1, <1>2, <1>3, RedisAssumption DEF SettlesKept, EnqueuePersist, history
    <2> QED
      BY <1>1, <1>6, <2>1, SettlesGoto
  <1>10. \A k \in Owed' : Stored(k)'
    <2>1. \A j \in Jobs : j # i => job'[j] = job[j]
      BY <1>2 DEF EnqueuePersist, RedisInv, TypeInv, RedisTypes
    <2>2. \A j \in Owed' : j \in Jobs /\ j # i
      BY <1>3, <1>4 DEF Owed, EnqueuePersist, history, TypeInv, RedisTypes
    <2>3. StoredKept(p)
      BY <1>1, <2>1, <2>2, SameStore DEF StoredKept, EnqueuePersist
    <2> QED
      BY <1>1, <1>6, <2>3, StoredStep DEF EnqueuePersist, history
  <1>11. /\ \A k \in Jobs : k # i => Hands(k)' = Hands(k)
         /\ ~GripsNext(n, i) => Hands(i)' = Hands(i) \ {p}
         /\ GripsNext(n, i) => Hands(i)' = Hands(i) \cup {p}
    <2>1. \A k \in Jobs : k # i => ~Grips(s, k) /\ ~GripsNext(n, k)
      BY <1>1, <1>2, <1>3 DEF Grips, GripsNext, HandPcs, EnqueuePersist, history
    <2> QED
      BY <1>1, <2>1, HandsMove DEF RedisInv, EnqueuePersist, history
  <1>12. /\ i \notin ready' /\ Waits(i)' = {} /\ Leases(i)' = {} /\ Hands(i)' = {p}
         /\ Graves(i)' = {}
    <2>1. GripsNext(n, i)
      BY <1>2 DEF GripsNext, HandPcs
    <2> QED
      BY <1>3, <1>11, <2>1, SameStore DEF EnqueuePersist
  <1>13. \A k \in Jobs : k # i => /\ k \in ready' <=> k \in ready
                                  /\ Waits(k)' = Waits(k) /\ Graves(k)' = Graves(k)
                                  /\ Leases(k)' = Leases(k)
                                  /\ k \in Owed' => k \in Owed
    <2>1. \A k \in Jobs : k \in Owed' => k \in Owed
      BY <1>6, OwedNow DEF EnqueuePersist, history
    <2> QED
      BY <1>2, <2>1, SameStore DEF EnqueuePersist
  <1>14. OnePlace(i)' /\ (i \in Owed' => Somewhere(i)')
    BY <1>12 DEF OnePlace, Single, Somewhere
  <1>15. \A k \in Jobs : k # i => /\ k \in ready' <=> k \in ready
                                  /\ Waits(k)' = Waits(k) /\ Graves(k)' = Graves(k)
                                  /\ Leases(k)' = Leases(k) /\ Hands(k)' = Hands(k)
                                  /\ k \in Owed' => k \in Owed
    BY <1>11, <1>13
  <1> QED
    BY <1>4, <1>5, <1>7, <1>8, <1>9, <1>10, <1>14, <1>15, MoveStep

LEMMA PopResKeeps ==
  ASSUME RedisInv, NEW p \in Procs, PopRes(p)
  PROVE  RedisInv'
  <1> DEFINE s == proc[p]
             n == [s EXCEPT !.pc = "own"]
  <1>1. s \in Call /\ Shape(s) /\ s.pc = "res" /\ Goto(p, n)
    BY ThisCall DEF RedisInv, PopRes, Step, At
  <1>2. PICK i \in Jobs : /\ i = s.id /\ n.pc = "own" /\ n.id = i /\ n.op = "reserve"
    BY <1>1 DEF Call, Shape, JobPcs, HandPcs
  <1> HIDE DEF n
  <1>3. /\ s.token \in Tokens /\ HasLease(s.token) /\ res[s.token] = None /\ i \in accepted
        /\ \A r \in Procs : r # p /\ proc[r].pc = "ref" => proc[r].token \in Tokens \ {s.token}
        /\ \A t \in Tokens : res'[t] = IF t = s.token THEN i ELSE res[t]
    <2>1. s.pc \in UniquePcs
      BY <1>1 DEF UniquePcs
    <2>2. HasLease(s.token) /\ res[s.token] = None
      BY <1>1 DEF RedisInv, LeaseInv, LeasesHeld, KeepsLease
    <2>3. i \in accepted
      BY <1>1, <1>2, RedisAssumption DEF RedisInv, Booked, New, JobPcs, HandPcs
    <2>4. \A t \in Tokens : res'[t] = IF t = s.token THEN i ELSE res[t]
      BY <1>2 DEF PopRes, RedisInv, TypeInv, RedisTypes
    <2> QED
      BY <2>1, <2>2, <2>3, <2>4, TokenAlone
  <1>4. TypeInv'
    BY PopResTypes DEF RedisInv
  <1>5. LeaseInv'
    BY PopResLease DEF RedisInv
  <1>6. HistoryGrows
    BY DEF HistoryGrows, PopRes, history
  <1>7. Booked'
    <2>1. ~New(n) /\ n.op # "purge"
      BY <1>2 DEF New
    <2> QED
      BY <1>1, <1>2, <1>3, <2>1, BookedGoto DEF RedisInv, Booked, PopRes, history
  <1>8. Finding'
    BY <1>1, <1>2, <1>3, Others DEF RedisInv, Finding, PopRes, history
  <1>9. Settling'
    <2>1. SettlesKept(p, n)
      BY <1>1, <1>2, <1>3, RedisAssumption DEF SettlesKept, PopRes, history
    <2> QED
      BY <1>1, <1>6, <2>1, SettlesGoto
  <1>10. \A id \in Owed' : Stored(id)'
    <2>1. StoredKept(p)
      BY <1>1, <1>2, <1>3, RedisAssumption
      DEF StoredKept, Graves, RedisInv, TypeInv, RedisTypes, PopRes, history
    <2> QED
      BY <1>1, <1>6, <2>1, StoredStep DEF PopRes, history
  <1>11. /\ \A id \in Jobs : id # i => Hands(id)' = Hands(id)
         /\ ~GripsNext(n, i) => Hands(i)' = Hands(i) \ {p}
         /\ GripsNext(n, i) => Hands(i)' = Hands(i) \cup {p}
    <2>1. \A id \in Jobs : id # i => ~Grips(s, id) /\ ~GripsNext(n, id)
      BY <1>1, <1>2 DEF Grips, GripsNext, HandPcs
    <2>2. \A r \in Procs : r # p /\ proc[r].pc = "ref" => res'[proc[r].token] = res[proc[r].token]
      BY <1>3
    <2> QED
      BY <1>1, <2>1, <2>2, HandsMove DEF RedisInv
  <1>12. /\ i \notin ready' /\ Waits(i)' = {} /\ Single(Leases(i)') /\ Leases(i)' # {}
         /\ Hands(i)' = {} /\ Graves(i)' = {}
    <2>1. p \in Hands(i)
      BY <1>1, <1>2 DEF Hands, Grips, HandPcs
    <2>2. Hands(i)' = {}
      <3>1. ~GripsNext(n, i)
        BY <1>2 DEF GripsNext, HandPcs
      <3>2. Hands(i) = {p}
        BY <2>1, OnlyPlace
      <3> QED
        BY <1>11, <3>1, <3>2
    <2>3. Leases(i) = {} /\ i \notin ready' /\ Waits(i)' = {} /\ Graves(i)' = {}
      BY <2>1, SameStore, OnlyPlace DEF PopRes
    <2>4. \A t \in Tokens : HasLease(t)' <=> HasLease(t)
      BY DEF HasLease, PopRes
    <2>5. \A t \in Leases(i)' : t = s.token
      BY <1>3, <2>3, <2>4 DEF Leases
    <2>6. s.token \in Leases(i)'
      BY <1>3, <2>4 DEF Leases
    <2> QED
      BY <2>2, <2>3, <2>5, <2>6 DEF Single
  <1>13. \A id \in Jobs : id # i => /\ id \in ready' <=> id \in ready
                                    /\ Waits(id)' = Waits(id) /\ Graves(id)' = Graves(id)
                                    /\ Leases(id)' = Leases(id)
                                    /\ id \in Owed' => id \in Owed
    <2>1. \A id \in Jobs : id \in Owed' => id \in Owed
      BY <1>6, OwedNow DEF PopRes, history
    <2>2. \A t \in Tokens : HasLease(t)' <=> HasLease(t)
      BY DEF HasLease, PopRes
    <2>3. \A id \in Jobs : id # i => Leases(id)' = Leases(id)
      BY <1>3, <2>2, RedisAssumption DEF Leases
    <2> QED
      BY <2>1, <2>3, SameStore DEF PopRes
  <1>14. OnePlace(i)' /\ (i \in Owed' => Somewhere(i)')
    BY <1>12 DEF OnePlace, Single, Somewhere
  <1>15. \A id \in Jobs : id # i => /\ id \in ready' <=> id \in ready
                                    /\ Waits(id)' = Waits(id) /\ Graves(id)' = Graves(id)
                                    /\ Leases(id)' = Leases(id) /\ Hands(id)' = Hands(id)
                                    /\ id \in Owed' => id \in Owed
    BY <1>11, <1>13
  <1> QED
    BY <1>4, <1>5, <1>7, <1>8, <1>9, <1>10, <1>14, <1>15, MoveStep

LEMMA RemoveLeaseKeeps ==
  ASSUME RedisInv, NEW p \in Procs, RemoveLease(p)
  PROVE  RedisInv'
  <1> DEFINE s == proc[p]
             n == [s EXCEPT !.pc = "unres"]
  <1>1. s \in Call /\ Shape(s) /\ s.pc = "unlease" /\ Goto(p, n)
    BY ThisCall DEF RedisInv, RemoveLease, Step, At
  <1>2. PICK i \in Jobs : /\ i = s.id /\ n.pc = "unres" /\ n.id = i /\ n.token = s.token
        /\ n.op = s.op /\ s.op \in {"ack", "nack", "dead"}
    BY <1>1 DEF Call, Shape, JobPcs, LeasePcs
  <1> HIDE DEF n
  <1>3. /\ s.token \in Leases(i) /\ s.token \in Tokens /\ s.token <= token
        /\ i \in accepted /\ (s.op = "ack" => i \in succeeded)
        /\ \A r \in Procs : r # p /\ proc[r].pc \in UniquePcs => proc[r].token # s.token
    <2>1. s.pc \in UniquePcs /\ s.pc \in LeasePcs
      BY <1>1 DEF UniquePcs, LeasePcs
    <2>2. i \in accepted /\ (s.op = "ack" => i \in succeeded)
      BY <1>1, <1>2, RedisAssumption
      DEF RedisInv, Booked, New, JobPcs, LeasePcs, KeptInv, Settling
    <2> QED
      BY <1>2, <2>1, <2>2, TokenAlone, LeaseIsPlace
  <1>4. TypeInv'
    BY RemoveLeaseTypes DEF RedisInv
  <1>5. LeaseInv'
    BY <1>1, <1>2, <1>3, <1>4, LeaseRemoved
    DEF RemoveLease, RedisInv, UniquePcs, LeasePcs, GonePcs
  <1>6. HistoryGrows
    BY DEF HistoryGrows, RemoveLease, history
  <1>7. Booked'
    <2>1. BooksKept(p, n)
      BY <1>1, <1>2, <1>3, RedisAssumption
      DEF BooksKept, RedisInv, Booked, New, JobPcs, TokenPcs, UniquePcs, HandPcs, LeasePcs,
          GonePcs, RemoveLease, history
    <2> QED
      BY <1>1, <1>2, <1>3, <2>1, BooksGoto DEF RedisInv, Booked, RemoveLease, history
  <1>8. Finding'
    BY <1>1, <1>2, <1>3, Others DEF RedisInv, Finding, RemoveLease, history
  <1>9. Settling'
    <2>1. SettlesKept(p, n)
      BY <1>1, <1>2, <1>3, RedisAssumption DEF SettlesKept, RemoveLease, history
    <2> QED
      BY <1>1, <1>6, <2>1, SettlesGoto
  <1>10. \A id \in Owed' : Stored(id)'
    <2>1. StoredKept(p)
      BY <1>1, <1>2, <1>3, RedisAssumption
      DEF StoredKept, Graves, RedisInv, TypeInv, RedisTypes, RemoveLease, history
    <2> QED
      BY <1>1, <1>6, <2>1, StoredStep DEF RemoveLease, history
  <1>11. /\ \A id \in Jobs : id # i => Hands(id)' = Hands(id)
         /\ ~GripsNext(n, i) => Hands(i)' = Hands(i) \ {p}
         /\ GripsNext(n, i) => Hands(i)' = Hands(i) \cup {p}
    <2>1. \A id \in Jobs : id # i => ~Grips(s, id) /\ ~GripsNext(n, id)
      BY <1>1, <1>2, <1>3 DEF Grips, GripsNext, HandPcs, RemoveLease, history
    <2> QED
      BY <1>1, <2>1, HandsMove DEF RedisInv, RemoveLease, history
  <1>12. /\ i \notin ready' /\ Waits(i)' = {} /\ Leases(i)' = {} /\ Hands(i)' = {p}
         /\ Graves(i)' = {}
    <2>1. GripsNext(n, i)
      BY <1>2 DEF GripsNext, HandPcs
    <2>2. /\ Leases(i) = {s.token} /\ i \notin ready' /\ Waits(i)' = {} /\ Graves(i)' = {}
          /\ Hands(i) = {}
      BY <1>3, SameStore, OnlyPlace DEF RemoveLease
    <2>3. Leases(i)' = {}
      BY <2>2 DEF Leases, HasLease, RemoveLease
    <2> QED
      BY <1>11, <2>1, <2>2, <2>3
  <1>13. \A id \in Jobs : id # i => /\ id \in ready' <=> id \in ready
                                    /\ Waits(id)' = Waits(id) /\ Graves(id)' = Graves(id)
                                    /\ Leases(id)' = Leases(id)
                                    /\ id \in Owed' => id \in Owed
    <2>1. \A id \in Jobs : id \in Owed' => id \in Owed
      BY <1>6, OwedNow DEF RemoveLease, history
    <2>2. res' = res /\ res[s.token] = i
      BY <1>3 DEF Leases, RemoveLease
    <2>3. \A t \in Tokens : t # s.token => (HasLease(t)' <=> HasLease(t))
      BY DEF HasLease, RemoveLease
    <2>4. \A id \in Jobs : id # i => Leases(id)' = Leases(id)
      BY <2>2, <2>3 DEF Leases
    <2> QED
      BY <2>1, <2>4, SameStore DEF RemoveLease
  <1>14. OnePlace(i)' /\ (i \in Owed' => Somewhere(i)')
    BY <1>12 DEF OnePlace, Single, Somewhere
  <1>15. \A id \in Jobs : id # i => /\ id \in ready' <=> id \in ready
                                    /\ Waits(id)' = Waits(id) /\ Graves(id)' = Graves(id)
                                    /\ Leases(id)' = Leases(id) /\ Hands(id)' = Hands(id)
                                    /\ id \in Owed' => id \in Owed
    BY <1>11, <1>13
  <1> QED
    BY <1>4, <1>5, <1>7, <1>8, <1>9, <1>10, <1>14, <1>15, MoveStep

LEMMA BuryKeeps ==
  ASSUME RedisInv, NEW p \in Procs, Bury(p)
  PROVE  RedisInv'
  <1> DEFINE s == proc[p]
             d == [id |-> s.id, token |-> s.token]
             n == [s EXCEPT !.pc = "delete"]
  <1>1. s \in Call /\ Shape(s) /\ s.pc = "bury" /\ Goto(p, n)
    BY ThisCall DEF RedisInv, Bury, Step, At
  <1>2. PICK i \in Jobs : /\ i = s.id /\ n.pc = "delete" /\ n.id = i /\ n.op = "dead"
        /\ d.id = i /\ dead' = dead \cup {d}
    BY <1>1 DEF Call, Shape, JobPcs, HandPcs, Bury
  <1> HIDE DEF n, d
  <1>3. i \in accepted
    BY <1>1, <1>2, RedisAssumption DEF RedisInv, Booked, New, JobPcs, HandPcs
  <1>4. TypeInv'
    BY BuryTypes DEF RedisInv
  <1>5. LeaseInv'
    <2>1. Quieter(s, n)
      BY <1>1, <1>2, <1>3, RedisAssumption DEF Quieter, UniquePcs, LeasePcs, GonePcs
    <2> QED
      BY <1>1, <2>1, LeasesQuiet DEF RedisInv, Bury, history
  <1>6. HistoryGrows
    BY DEF HistoryGrows, Bury, history
  <1>7. Booked'
    <2>1. BooksKept(p, n)
      BY <1>1, <1>2, <1>3, RedisAssumption
      DEF BooksKept, RedisInv, Booked, New, JobPcs, TokenPcs, UniquePcs, HandPcs, LeasePcs,
          GonePcs, Bury, history
    <2> QED
      BY <1>1, <1>2, <1>3, <2>1, BooksGoto DEF RedisInv, Booked, Bury, history
  <1>8. Finding'
    BY <1>1, <1>2, <1>3, Others DEF RedisInv, Finding, Bury, history
  <1>9. Settling'
    <2>1. SettlesKept(p, n)
      BY <1>1, <1>2, <1>3, RedisAssumption DEF SettlesKept, Bury, history
    <2> QED
      BY <1>1, <1>6, <2>1, SettlesGoto
  <1>10. \A id \in Owed' : Stored(id)'
    <2>1. StoredKept(p)
      BY <1>1, <1>2, <1>3, RedisAssumption
      DEF StoredKept, Graves, RedisInv, TypeInv, RedisTypes, Bury, history
    <2> QED
      BY <1>1, <1>6, <2>1, StoredStep DEF Bury, history
  <1>11. /\ \A id \in Jobs : id # i => Hands(id)' = Hands(id)
         /\ ~GripsNext(n, i) => Hands(i)' = Hands(i) \ {p}
         /\ GripsNext(n, i) => Hands(i)' = Hands(i) \cup {p}
    <2>1. \A id \in Jobs : id # i => ~Grips(s, id) /\ ~GripsNext(n, id)
      BY <1>1, <1>2, <1>3 DEF Grips, GripsNext, HandPcs, Bury, history
    <2> QED
      BY <1>1, <2>1, HandsMove DEF RedisInv, Bury, history
  <1>12. /\ i \notin ready' /\ Waits(i)' = {} /\ Leases(i)' = {} /\ Hands(i)' = {}
         /\ Graves(i)' = {d}
    <2>1. p \in Hands(i)
      BY <1>1, <1>2 DEF Hands, Grips, HandPcs
    <2>2. Hands(i)' = {}
      <3>1. ~GripsNext(n, i)
        BY <1>2 DEF GripsNext, HandPcs
      <3>2. Hands(i) = {p}
        BY <2>1, OnlyPlace
      <3> QED
        BY <1>11, <3>1, <3>2
    <2>3. Graves(i) = {} /\ i \notin ready' /\ Waits(i)' = {} /\ Leases(i)' = {}
      BY <2>1, SameStore, OnlyPlace DEF Bury
    <2>4. Graves(i)' = {d}
      BY <1>2, <2>3 DEF Graves
    <2> QED
      BY <2>2, <2>3, <2>4
  <1>13. \A id \in Jobs : id # i => /\ id \in ready' <=> id \in ready
                                    /\ Waits(id)' = Waits(id) /\ Graves(id)' = Graves(id)
                                    /\ Leases(id)' = Leases(id)
                                    /\ id \in Owed' => id \in Owed
    <2>1. \A id \in Jobs : id \in Owed' => id \in Owed
      BY <1>6, OwedNow DEF Bury, history
    <2>2. \A id \in Jobs : id # i => Graves(id)' = Graves(id)
      BY <1>2 DEF Graves
    <2> QED
      BY <2>1, <2>2, SameStore DEF Bury
  <1>14. OnePlace(i)' /\ (i \in Owed' => Somewhere(i)')
    BY <1>12 DEF OnePlace, Single, Somewhere
  <1>15. \A id \in Jobs : id # i => /\ id \in ready' <=> id \in ready
                                    /\ Waits(id)' = Waits(id) /\ Graves(id)' = Graves(id)
                                    /\ Leases(id)' = Leases(id) /\ Hands(id)' = Hands(id)
                                    /\ id \in Owed' => id \in Owed
    BY <1>11, <1>13
  <1> QED
    BY <1>4, <1>5, <1>7, <1>8, <1>9, <1>10, <1>14, <1>15, MoveStep

LEMMA DeadTakeKeeps ==
  ASSUME RedisInv, NEW p \in Procs, DeadTake(p), OneOperator
  PROVE  RedisInv'
  <1> DEFINE s == proc[p]
             d == [id |-> s.id, token |-> s.token]
             n == [s EXCEPT !.pc = "revive"]
  <1>1. s \in Call /\ Shape(s) /\ s.pc = "take" /\ Goto(p, n)
    BY ThisCall DEF RedisInv, DeadTake, Step, At
  <1>2. PICK i \in Jobs : /\ i = s.id /\ n.pc = "revive" /\ n.id = i /\ n.op = "retry"
        /\ d.id = i /\ d \in dead /\ dead' = dead \ {d} /\ p \in Operators
    BY <1>1 DEF Call, Shape, JobPcs, DeadTake, RedisInv, Finding
  <1> HIDE DEF n, d
  <1>3. i \in accepted
    BY <1>2 DEF RedisInv, Booked
  <1>4. TypeInv'
    BY DeadTakeTypes DEF RedisInv
  <1>5. LeaseInv'
    <2>1. Quieter(s, n)
      BY <1>1, <1>2, <1>3, RedisAssumption DEF Quieter, UniquePcs, LeasePcs, GonePcs
    <2> QED
      BY <1>1, <2>1, LeasesQuiet DEF RedisInv, DeadTake, history
  <1>6. HistoryGrows
    BY DEF HistoryGrows, DeadTake, history
  <1>7. Booked'
    <2>1. BooksKept(p, n)
      BY <1>1, <1>2, <1>3, RedisAssumption
      DEF BooksKept, RedisInv, Booked, New, JobPcs, TokenPcs, UniquePcs, HandPcs, LeasePcs,
          GonePcs, DeadTake, history
    <2> QED
      BY <1>1, <1>2, <1>3, <2>1, BooksGoto DEF RedisInv, Booked, DeadTake, history
  <1>8. Finding'
    BY <1>1, <1>2, Others DEF RedisInv, Finding, OneOperator
  <1>9. Settling'
    <2>1. SettlesKept(p, n)
      BY <1>1, <1>2, <1>3, RedisAssumption DEF SettlesKept, DeadTake, history
    <2> QED
      BY <1>1, <1>6, <2>1, SettlesGoto
  <1>10. \A id \in Owed' : Stored(id)'
    <2>1. \A id \in Jobs : id # i => Graves(id)' = Graves(id)
      BY <1>2 DEF Graves
    <2>2. ASSUME NEW id \in Owed', id # i PROVE Stored(id)'
      <3>1. id \in Jobs /\ Stored(id)
        BY <1>6, OwedNow DEF RedisInv, KeptInv, Kept, DeadTake, history
      <3> QED
        BY <1>1, <2>1, <2>2, <3>1, StoredGoto DEF RedisInv, DeadTake
    <2>3. Stored(i)'
      BY <1>1, <1>2, Others DEF Stored, RedisInv
    <2> QED
      BY <2>2, <2>3
  <1>11. /\ \A id \in Jobs : id # i => Hands(id)' = Hands(id)
         /\ ~GripsNext(n, i) => Hands(i)' = Hands(i) \ {p}
         /\ GripsNext(n, i) => Hands(i)' = Hands(i) \cup {p}
    <2>1. \A id \in Jobs : id # i => ~Grips(s, id) /\ ~GripsNext(n, id)
      BY <1>1, <1>2, <1>3 DEF Grips, GripsNext, HandPcs, DeadTake, history
    <2> QED
      BY <1>1, <2>1, HandsMove DEF RedisInv, DeadTake, history
  <1>12. /\ i \notin ready' /\ Waits(i)' = {} /\ Leases(i)' = {} /\ Hands(i)' = {p}
         /\ Graves(i)' = {}
    <2>1. d \in Graves(i)
      BY <1>2 DEF Graves
    <2>2. Graves(i) = {d} /\ i \notin ready' /\ Waits(i)' = {} /\ Leases(i)' = {} /\ Hands(i) = {}
      BY <2>1, SameStore, OnlyPlace DEF DeadTake
    <2>3. Graves(i)' = {}
      BY <1>2, <2>2 DEF Graves
    <2>4. GripsNext(n, i)
      BY <1>2 DEF GripsNext, HandPcs
    <2> QED
      BY <1>11, <2>2, <2>3, <2>4
  <1>13. \A id \in Jobs : id # i => /\ id \in ready' <=> id \in ready
                                    /\ Waits(id)' = Waits(id) /\ Graves(id)' = Graves(id)
                                    /\ Leases(id)' = Leases(id)
                                    /\ id \in Owed' => id \in Owed
    <2>1. \A id \in Jobs : id \in Owed' => id \in Owed
      BY <1>6, OwedNow DEF DeadTake, history
    <2>2. \A id \in Jobs : id # i => Graves(id)' = Graves(id)
      BY <1>2 DEF Graves
    <2> QED
      BY <2>1, <2>2, SameStore DEF DeadTake
  <1>14. OnePlace(i)' /\ (i \in Owed' => Somewhere(i)')
    BY <1>12 DEF OnePlace, Single, Somewhere
  <1>15. \A id \in Jobs : id # i => /\ id \in ready' <=> id \in ready
                                    /\ Waits(id)' = Waits(id) /\ Graves(id)' = Graves(id)
                                    /\ Leases(id)' = Leases(id) /\ Hands(id)' = Hands(id)
                                    /\ id \in Owed' => id \in Owed
    BY <1>11, <1>13
  <1> QED
    BY <1>4, <1>5, <1>7, <1>8, <1>9, <1>10, <1>14, <1>15, MoveStep

LEMMA PopClaimTakes ==
  ASSUME RedisInv, NEW p \in Procs, PopClaim(p), proc[p].id \in ready
  PROVE  RedisInv'
  <1> DEFINE s == proc[p]
             n == [s EXCEPT !.pc = "load"]
  <1>1. s \in Call /\ Shape(s) /\ s.pc = "pop" /\ Goto(p, n)
    BY ThisCall DEF RedisInv, PopClaim, Step, At
  <1>2. PICK i \in Jobs : /\ i = s.id /\ n.pc = "load" /\ n.id = i /\ n.op = "reserve"
        /\ s.op = "reserve" /\ n.at = s.at /\ n.todo = s.todo /\ i \in ready
    BY <1>1 DEF Call, Shape, JobPcs
  <1> HIDE DEF n
  <1>3. i \in accepted
    BY <1>2 DEF RedisInv, Booked
  <1>4. TypeInv'
    BY PopClaimTypes DEF RedisInv
  <1>5. LeaseInv'
    <2>1. Quieter(s, n)
      BY <1>1, <1>2, <1>3, RedisAssumption DEF Quieter, UniquePcs, LeasePcs, GonePcs
    <2> QED
      BY <1>1, <2>1, LeasesQuiet DEF RedisInv, PopClaim, history
  <1>6. HistoryGrows
    BY DEF HistoryGrows, PopClaim, history
  <1>7. Booked'
    <2>1. BooksKept(p, n)
      BY <1>1, <1>2, <1>3, RedisAssumption
      DEF BooksKept, RedisInv, Booked, New, JobPcs, TokenPcs, UniquePcs, HandPcs, LeasePcs,
          GonePcs, PopClaim, history
    <2> QED
      BY <1>1, <1>2, <1>3, <2>1, BooksGoto DEF RedisInv, Booked, PopClaim, history
  <1>8. Finding'
    BY <1>1, <1>2, <1>3, Others DEF RedisInv, Finding, PopClaim, history
  <1>9. Settling'
    <2>1. SettlesKept(p, n)
      BY <1>1, <1>2, <1>3, RedisAssumption DEF SettlesKept, PopClaim, history
    <2> QED
      BY <1>1, <1>6, <2>1, SettlesGoto
  <1>10. \A id \in Owed' : Stored(id)'
    <2>1. StoredKept(p)
      BY <1>1, <1>2, <1>3, RedisAssumption
      DEF StoredKept, Graves, RedisInv, TypeInv, RedisTypes, PopClaim, history
    <2> QED
      BY <1>1, <1>6, <2>1, StoredStep DEF PopClaim, history
  <1>11. /\ \A id \in Jobs : id # i => Hands(id)' = Hands(id)
         /\ ~GripsNext(n, i) => Hands(i)' = Hands(i) \ {p}
         /\ GripsNext(n, i) => Hands(i)' = Hands(i) \cup {p}
    <2>1. \A id \in Jobs : id # i => ~Grips(s, id) /\ ~GripsNext(n, id)
      BY <1>1, <1>2, <1>3 DEF Grips, GripsNext, HandPcs, PopClaim, history
    <2> QED
      BY <1>1, <2>1, HandsMove DEF RedisInv, PopClaim, history
  <1>12. /\ i \notin ready' /\ Waits(i)' = {} /\ Leases(i)' = {} /\ Hands(i)' = {p}
         /\ Graves(i)' = {}
    <2>1. GripsNext(n, i)
      BY <1>2 DEF GripsNext, HandPcs
    <2>2. Waits(i)' = {} /\ Leases(i)' = {} /\ Graves(i)' = {} /\ Hands(i) = {}
      BY <1>2, SameStore, OnlyPlace DEF PopClaim
    <2>3. i \notin ready'
      BY <1>2 DEF PopClaim
    <2> QED
      BY <1>11, <2>1, <2>2, <2>3
  <1>13. \A id \in Jobs : id # i => /\ id \in ready' <=> id \in ready
                                    /\ Waits(id)' = Waits(id) /\ Graves(id)' = Graves(id)
                                    /\ Leases(id)' = Leases(id)
                                    /\ id \in Owed' => id \in Owed
    <2>1. \A id \in Jobs : id \in Owed' => id \in Owed
      BY <1>6, OwedNow DEF PopClaim, history
    <2> QED
      BY <1>2, <2>1, SameStore DEF PopClaim
  <1>14. OnePlace(i)' /\ (i \in Owed' => Somewhere(i)')
    BY <1>12 DEF OnePlace, Single, Somewhere
  <1>15. \A id \in Jobs : id # i => /\ id \in ready' <=> id \in ready
                                    /\ Waits(id)' = Waits(id) /\ Graves(id)' = Graves(id)
                                    /\ Leases(id)' = Leases(id) /\ Hands(id)' = Hands(id)
                                    /\ id \in Owed' => id \in Owed
    BY <1>11, <1>13
  <1> QED
    BY <1>4, <1>5, <1>7, <1>8, <1>9, <1>10, <1>14, <1>15, MoveStep

LEMMA PopClaimMisses ==
  ASSUME RedisInv, NEW p \in Procs, PopClaim(p), proc[p].id \notin ready
  PROVE  RedisInv'
  <1> DEFINE s == proc[p]
             n == TryNextHead(s)
  <1>1. s \in Call /\ Shape(s) /\ s.pc = "pop" /\ Goto(p, n)
    BY ThisCall DEF RedisInv, PopClaim, Step, At
  <1>2. /\ n.pc \in {"head", "idle"} /\ n.op # "ack" /\ n.op # "purge" /\ s.op = "reserve"
        /\ (n.op = "reserve" => n.at = s.at /\ n.todo = s.todo) /\ ready' = ready
    <2>1. s.op = "reserve" /\ s.todo = {} /\ ready' = ready
      BY <1>1 DEF Shape, PopClaim
    <2>2. /\ n \in Call /\ Shape(n) /\ n.pc \in {"head", "idle"} /\ n.todo = {}
          /\ (n.op = "reserve" => n.at = s.at)
      BY <1>1, <2>1, TryNextHeadCall
    <2> HIDE DEF n
    <2>3. n.op # "ack" /\ n.op # "purge"
      BY <2>2, RedisAssumption DEF Shape
    <2> QED
      BY <2>1, <2>2, <2>3
  <1> HIDE DEF n
  <1>3. TypeInv'
    BY PopClaimTypes DEF RedisInv
  <1>4. LeaseInv'
    <2>1. Quieter(s, n)
      BY <1>1, <1>2, RedisAssumption DEF Quieter, UniquePcs, LeasePcs, GonePcs
    <2> QED
      BY <1>1, <2>1, LeasesQuiet DEF RedisInv, PopClaim, history
  <1>5. \A id \in Jobs : Leases(id)' = Leases(id)
    BY SameStore DEF PopClaim, history
  <1>6. HistoryGrows
    BY DEF HistoryGrows, PopClaim, history
  <1>7. HandsKept(p, n)
    BY <1>1, <1>2 DEF HandsKept, Grips, HandPcs, PopClaim, history
  <1>8. BooksKept(p, n)
    BY <1>1, <1>2, RedisAssumption
    DEF BooksKept, RedisInv, Booked, New, JobPcs, TokenPcs, UniquePcs, HandPcs, LeasePcs,
        GonePcs, PopClaim, history
  <1>9. SettlesKept(p, n)
    BY <1>1, <1>2, RedisAssumption DEF SettlesKept, PopClaim, history
  <1>10. StoredKept(p)
    BY <1>1, <1>2, RedisAssumption
    DEF StoredKept, Graves, RedisInv, TypeInv, RedisTypes, PopClaim, history
  <1> QED
    BY <1>1, <1>3, <1>4, <1>5, <1>6, <1>7, <1>8, <1>9, <1>10, <1>2, QuietStep
    DEF PopClaim, history

LEMMA PopClaimKeeps ==
  ASSUME RedisInv, NEW p \in Procs, PopClaim(p)
  PROVE  RedisInv'
  BY PopClaimTakes, PopClaimMisses

LEMMA PromoteClaimTakes ==
  ASSUME RedisInv, NEW p \in Procs, NEW k \in proc[p].todo, PromoteClaim(p),
         delayed' = {d \in delayed : d.id # k}, NEW d \in delayed, d.id = k,
         Goto(p, [[proc[p] EXCEPT !.todo = proc[p].todo \ {k}]
                    EXCEPT !.pc = "loadDue", !.id = k])
  PROVE  RedisInv'
  <1> DEFINE s == proc[p]
             n == [[s EXCEPT !.todo = s.todo \ {k}] EXCEPT !.pc = "loadDue", !.id = k]
  <1>1. s \in Call /\ Shape(s) /\ s.pc = "claim" /\ Goto(p, n)
    BY ThisCall DEF RedisInv, PromoteClaim, Step, At
  <1>2. PICK i \in Jobs : /\ i = k /\ n.pc = "loadDue" /\ n.id = i /\ n.op = "promote"
    <2>1. k \in Jobs
      BY DEF RedisInv, TypeInv, RedisTypes
    <2>2. s.op = "promote"
      BY DEF PromoteClaim
    <2> QED
      BY <1>1, <2>1, <2>2 DEF Call
  <1> HIDE DEF n
  <1>3. i \in accepted /\ d \in Waits(i)
    BY <1>2 DEF RedisInv, Booked, Waits
  <1>4. TypeInv'
    BY PromoteClaimTypes DEF RedisInv
  <1>5. LeaseInv'
    <2>1. Quieter(s, n)
      BY <1>1, <1>2, <1>3, RedisAssumption DEF Quieter, UniquePcs, LeasePcs, GonePcs
    <2> QED
      BY <1>1, <2>1, LeasesQuiet DEF RedisInv, PromoteClaim, history
  <1>6. HistoryGrows
    BY DEF HistoryGrows, PromoteClaim, history
  <1>7. Booked'
    <2>1. BooksKept(p, n)
      BY <1>1, <1>2, <1>3, RedisAssumption
      DEF BooksKept, RedisInv, Booked, New, JobPcs, TokenPcs, UniquePcs, HandPcs, LeasePcs,
          GonePcs, PromoteClaim, history
    <2> QED
      BY <1>1, <1>2, <1>3, <2>1, BooksGoto DEF RedisInv, Booked, PromoteClaim, history
  <1>8. Finding'
    BY <1>1, <1>2, <1>3, Others DEF RedisInv, Finding, PromoteClaim, history
  <1>9. Settling'
    <2>1. SettlesKept(p, n)
      BY <1>1, <1>2, <1>3, RedisAssumption DEF SettlesKept, PromoteClaim, history
    <2> QED
      BY <1>1, <1>6, <2>1, SettlesGoto
  <1>10. \A id \in Owed' : Stored(id)'
    <2>1. StoredKept(p)
      BY <1>1, <1>2, <1>3, RedisAssumption
      DEF StoredKept, Graves, RedisInv, TypeInv, RedisTypes, PromoteClaim, history
    <2> QED
      BY <1>1, <1>6, <2>1, StoredStep DEF PromoteClaim, history
  <1>11. /\ \A id \in Jobs : id # i => Hands(id)' = Hands(id)
         /\ ~GripsNext(n, i) => Hands(i)' = Hands(i) \ {p}
         /\ GripsNext(n, i) => Hands(i)' = Hands(i) \cup {p}
    <2>1. \A id \in Jobs : id # i => ~Grips(s, id) /\ ~GripsNext(n, id)
      BY <1>1, <1>2, <1>3 DEF Grips, GripsNext, HandPcs, PromoteClaim, history
    <2> QED
      BY <1>1, <2>1, HandsMove DEF RedisInv, PromoteClaim, history
  <1>12. /\ i \notin ready' /\ Waits(i)' = {} /\ Leases(i)' = {} /\ Hands(i)' = {p}
         /\ Graves(i)' = {}
    <2>1. GripsNext(n, i)
      BY <1>2 DEF GripsNext, HandPcs
    <2>2. i \notin ready' /\ Leases(i)' = {} /\ Graves(i)' = {} /\ Hands(i) = {}
      BY <1>3, SameStore, OnlyPlace DEF PromoteClaim
    <2>3. Waits(i)' = {}
      BY <1>2 DEF Waits
    <2> QED
      BY <1>11, <2>1, <2>2, <2>3
  <1>13. \A id \in Jobs : id # i => /\ id \in ready' <=> id \in ready
                                    /\ Waits(id)' = Waits(id) /\ Graves(id)' = Graves(id)
                                    /\ Leases(id)' = Leases(id)
                                    /\ id \in Owed' => id \in Owed
    <2>1. \A id \in Jobs : id \in Owed' => id \in Owed
      BY <1>6, OwedNow DEF PromoteClaim, history
    <2>2. \A id \in Jobs : id # i => Waits(id)' = Waits(id)
      BY <1>2 DEF Waits
    <2> QED
      BY <2>1, <2>2, SameStore DEF PromoteClaim
  <1>14. OnePlace(i)' /\ (i \in Owed' => Somewhere(i)')
    BY <1>12 DEF OnePlace, Single, Somewhere
  <1>15. \A id \in Jobs : id # i => /\ id \in ready' <=> id \in ready
                                    /\ Waits(id)' = Waits(id) /\ Graves(id)' = Graves(id)
                                    /\ Leases(id)' = Leases(id) /\ Hands(id)' = Hands(id)
                                    /\ id \in Owed' => id \in Owed
    BY <1>11, <1>13
  <1> QED
    BY <1>4, <1>5, <1>7, <1>8, <1>9, <1>10, <1>14, <1>15, MoveStep

LEMMA PromoteClaimMisses ==
  ASSUME RedisInv, NEW p \in Procs, NEW k \in proc[p].todo, PromoteClaim(p),
         delayed' = delayed,
         Goto(p, Continue([proc[p] EXCEPT !.todo = proc[p].todo \ {k}]))
  PROVE  RedisInv'
  <1> DEFINE s == proc[p]
             n == Continue([s EXCEPT !.todo = s.todo \ {k}])
  <1>1. s \in Call /\ Shape(s) /\ s.pc = "claim" /\ Goto(p, n)
    BY ThisCall DEF RedisInv, PromoteClaim, Step, At
  <1>2. /\ n.pc \in {"claim", "scan", "head", "idle"} /\ n.op # "ack" /\ n.op # "purge"
        /\ n.op # "reserve"
    <2> DEFINE u == [s EXCEPT !.todo = s.todo \ {k}]
    <2>1. u \in Call /\ u.op = "promote" /\ n = Continue(u)
      BY <1>1 DEF Call, PromoteClaim
    <2> HIDE DEF u, n
    <2> QED
      BY <2>1, ContinueCall, RedisAssumption DEF Idle
  <1> HIDE DEF n
  <1>3. TypeInv'
    BY PromoteClaimTypes DEF RedisInv
  <1>4. LeaseInv'
    <2>1. Quieter(s, n)
      BY <1>1, <1>2, RedisAssumption DEF Quieter, UniquePcs, LeasePcs, GonePcs
    <2> QED
      BY <1>1, <2>1, LeasesQuiet DEF RedisInv, PromoteClaim, history
  <1>5. \A id \in Jobs : Leases(id)' = Leases(id)
    BY SameStore DEF PromoteClaim, history
  <1>6. HistoryGrows
    BY DEF HistoryGrows, PromoteClaim, history
  <1>7. HandsKept(p, n)
    BY <1>1, <1>2 DEF HandsKept, Grips, HandPcs, PromoteClaim, history
  <1>8. BooksKept(p, n)
    BY <1>1, <1>2, RedisAssumption
    DEF BooksKept, RedisInv, Booked, New, JobPcs, TokenPcs, UniquePcs, HandPcs, LeasePcs,
        GonePcs, PromoteClaim, history
  <1>9. SettlesKept(p, n)
    BY <1>1, <1>2, RedisAssumption DEF SettlesKept, PromoteClaim, history
  <1>10. StoredKept(p)
    BY <1>1, <1>2, RedisAssumption
    DEF StoredKept, Graves, RedisInv, TypeInv, RedisTypes, PromoteClaim, history
  <1> QED
    BY <1>1, <1>3, <1>4, <1>5, <1>6, <1>7, <1>8, <1>9, <1>10, QuietStep
    DEF PromoteClaim, history

LEMMA PromoteClaimKeeps ==
  ASSUME RedisInv, NEW p \in Procs, PromoteClaim(p)
  PROVE  RedisInv'
  <1> DEFINE rest(k) == [proc[p] EXCEPT !.todo = proc[p].todo \ {k}]
  <1>1. PICK k \in proc[p].todo :
          /\ delayed' = {d \in delayed : d.id # k}
          /\ Goto(p, IF \E d \in delayed : d.id = k
                     THEN [rest(k) EXCEPT !.pc = "loadDue", !.id = k]
                     ELSE Continue(rest(k)))
    BY DEF PromoteClaim
  <1>2. CASE \E d \in delayed : d.id = k
    BY <1>1, <1>2, PromoteClaimTakes
  <1>3. CASE ~\E d \in delayed : d.id = k
    <2>1. delayed' = delayed
      BY <1>1, <1>3
    <2> QED
      BY <1>1, <1>3, <2>1, PromoteClaimMisses
  <1> QED
    BY <1>2, <1>3

(* An expired lease that a reclaim removes is nobody's any more.            *)
LEMMA ReclaimClaimLease ==
  ASSUME RedisInv, TypeInv', NEW p \in Procs, NEW t \in proc[p].todo, NEW n,
         proc[p].op = "reserve", HasLease(t), Goto(p, n),
         processing' = {l \in processing : l.token # t}, UNCHANGED <<now, token, res>>,
         n.pc = "ref", n.token = t, n.op = "reserve", n.at = proc[p].at,
         n.todo \subseteq proc[p].todo
  PROVE  /\ LeaseInv' /\ t \in Tokens
         /\ \A u \in Tokens : u # t => (HasLease(u)' <=> HasLease(u))
         /\ ~HasLease(t)'
  <1>1. PICK l \in processing : l.token = t /\ l.expires <= proc[p].at
    BY DEF HasLease, RedisInv, LeaseInv, CallsAreYoung
  <1>2. t \in Tokens /\ t <= token /\ l.expires \in Nat /\ now \in Nat /\ proc[p].at \in Nat
    BY <1>1, ThisCall DEF RedisInv, TypeInv, RedisTypes, LeaseInv, FreshTokens, Call
  <1>3. ~(l.expires > now)
    BY <1>1, <1>2 DEF RedisInv, LeaseInv, CallsAreYoung
  <1>4. \A r \in Procs : proc[r].pc \in UniquePcs => proc[r].token # t
    BY <1>1, <1>3 DEF RedisInv, LeaseInv, LeasesHeld, KeepsLease, UniquePcs
  <1>5. LeaseInv'
    <2>1. \A m \in processing' : m.token # t
      OBVIOUS
    <2>2. n.pc \notin LeasePcs \cup {"res"} /\ n.pc # "loseLease"
      BY DEF LeasePcs
    <2> QED
      BY <1>2, <1>4, <2>1, <2>2, LeaseRemoved DEF RedisInv
  <1> QED
    BY <1>2, <1>5 DEF HasLease

LEMMA ReclaimClaimUnfinished ==
  ASSUME RedisInv, NEW p \in Procs, NEW t \in proc[p].todo, ReclaimClaim(p),
         processing' = {l \in processing : l.token # t}, HasLease(t),
         Goto(p, [[proc[p] EXCEPT !.todo = proc[p].todo \ {t}]
                    EXCEPT !.pc = "ref", !.token = t]), res[t] = None
  PROVE  RedisInv'
  <1> DEFINE s == proc[p]
             n == [[s EXCEPT !.todo = s.todo \ {t}] EXCEPT !.pc = "ref", !.token = t]
  <1>1. s \in Call /\ Shape(s) /\ s.pc = "claim" /\ Goto(p, n)
    BY ThisCall DEF RedisInv, ReclaimClaim, Step, At
  <1>2. /\ n.pc = "ref" /\ n.token = t /\ n.op = "reserve" /\ s.op = "reserve"
        /\ n.at = s.at /\ n.todo \subseteq s.todo /\ t \in Tokens
    <2>1. s.op = "reserve"
      BY DEF ReclaimClaim
    <2>2. t \in Tokens
      BY DEF HasLease, RedisInv, TypeInv, RedisTypes
    <2> QED
      BY <1>1, <2>1, <2>2 DEF Call
  <1> HIDE DEF n
  <1>3. TypeInv'
    BY ReclaimClaimTypes DEF RedisInv
  <1>4. LeaseInv'
    BY <1>1, <1>2, <1>3, ReclaimClaimLease DEF ReclaimClaim
  <1>5. \A id \in Jobs : Leases(id)' = Leases(id)
    <2>1. \A u \in Tokens : u # t => (HasLease(u)' <=> HasLease(u))
      BY <1>1, <1>2, <1>3, ReclaimClaimLease DEF ReclaimClaim
    <2>2. res' = res
      BY DEF ReclaimClaim
    <2> QED
      BY <2>1, <2>2, RedisAssumption DEF Leases
  <1>6. HistoryGrows
    BY DEF HistoryGrows, ReclaimClaim, history
  <1>7. HandsKept(p, n)
    BY <1>1, <1>2, RedisAssumption DEF HandsKept, Grips, HandPcs, ReclaimClaim
  <1>8. BooksKept(p, n)
    BY <1>1, <1>2, RedisAssumption
    DEF BooksKept, RedisInv, Booked, New, JobPcs, TokenPcs, UniquePcs, HandPcs, LeasePcs,
        GonePcs, ReclaimClaim, history
  <1>9. SettlesKept(p, n)
    BY <1>1, <1>2, RedisAssumption DEF SettlesKept, ReclaimClaim, history
  <1>10. StoredKept(p)
    BY <1>1, <1>2, RedisAssumption
    DEF StoredKept, Graves, RedisInv, TypeInv, RedisTypes, ReclaimClaim, history
  <1> QED
    BY <1>1, <1>3, <1>4, <1>5, <1>6, <1>7, <1>8, <1>9, <1>10, QuietStep
    DEF ReclaimClaim, history

LEMMA ReclaimClaimTakes ==
  ASSUME RedisInv, NEW p \in Procs, NEW t \in proc[p].todo, ReclaimClaim(p),
         processing' = {l \in processing : l.token # t}, HasLease(t),
         Goto(p, [[proc[p] EXCEPT !.todo = proc[p].todo \ {t}]
                    EXCEPT !.pc = "ref", !.token = t]), res[t] # None
  PROVE  RedisInv'
  <1> DEFINE s == proc[p]
             n == [[s EXCEPT !.todo = s.todo \ {t}] EXCEPT !.pc = "ref", !.token = t]
  <1>1. s \in Call /\ Shape(s) /\ s.pc = "claim" /\ Goto(p, n)
    BY ThisCall DEF RedisInv, ReclaimClaim, Step, At
  <1>2. PICK i \in Jobs : i = res[t]
        /\ n.pc = "ref" /\ n.token = t /\ n.op = "reserve" /\ s.op = "reserve"
        /\ n.at = s.at /\ n.todo \subseteq s.todo /\ t \in Tokens
    <2>1. s.op = "reserve"
      BY DEF ReclaimClaim
    <2>2. t \in Tokens
      BY DEF HasLease, RedisInv, TypeInv, RedisTypes
    <2>3. res[t] \in Jobs
      BY <2>2 DEF RedisInv, TypeInv, RedisTypes
    <2> QED
      BY <1>1, <2>1, <2>2, <2>3 DEF Call
  <1> HIDE DEF n
  <1>3. res' = res /\ t \in Leases(i)
    BY <1>2 DEF Leases, ReclaimClaim
  <1>4. TypeInv'
    BY ReclaimClaimTypes DEF RedisInv
  <1>5. LeaseInv'
    BY <1>1, <1>2, <1>4, ReclaimClaimLease DEF ReclaimClaim
  <1>6. HistoryGrows
    BY DEF HistoryGrows, ReclaimClaim, history
  <1>7. Booked'
    <2>1. BooksKept(p, n)
      BY <1>1, <1>2, <1>3, RedisAssumption
      DEF BooksKept, RedisInv, Booked, New, JobPcs, TokenPcs, UniquePcs, HandPcs, LeasePcs,
          GonePcs, ReclaimClaim, history
    <2> QED
      BY <1>1, <1>2, <1>3, <2>1, BooksGoto DEF RedisInv, Booked, ReclaimClaim, history
  <1>8. Finding'
    BY <1>1, <1>2, <1>3, Others DEF RedisInv, Finding, ReclaimClaim, history
  <1>9. Settling'
    <2>1. SettlesKept(p, n)
      BY <1>1, <1>2, <1>3, RedisAssumption DEF SettlesKept, ReclaimClaim, history
    <2> QED
      BY <1>1, <1>6, <2>1, SettlesGoto
  <1>10. \A id \in Owed' : Stored(id)'
    <2>1. StoredKept(p)
      BY <1>1, <1>2, <1>3, RedisAssumption
      DEF StoredKept, Graves, RedisInv, TypeInv, RedisTypes, ReclaimClaim, history
    <2> QED
      BY <1>1, <1>6, <2>1, StoredStep DEF ReclaimClaim, history
  <1>11. /\ \A id \in Jobs : id # i => Hands(id)' = Hands(id)
         /\ ~GripsNext(n, i) => Hands(i)' = Hands(i) \ {p}
         /\ GripsNext(n, i) => Hands(i)' = Hands(i) \cup {p}
    <2>1. \A id \in Jobs : id # i => ~Grips(s, id) /\ ~GripsNext(n, id)
      BY <1>1, <1>2, <1>3 DEF Grips, GripsNext, HandPcs, ReclaimClaim, history
    <2> QED
      BY <1>1, <2>1, HandsMove DEF RedisInv, ReclaimClaim, history
  <1>12. /\ i \notin ready' /\ Waits(i)' = {} /\ Leases(i)' = {} /\ Hands(i)' = {p}
         /\ Graves(i)' = {}
    <2>1. GripsNext(n, i)
      BY <1>2, <1>3 DEF GripsNext
    <2>2. /\ Leases(i) = {t} /\ i \notin ready' /\ Waits(i)' = {} /\ Graves(i)' = {}
          /\ Hands(i) = {}
      BY <1>3, SameStore, OnlyPlace DEF ReclaimClaim
    <2>3. Leases(i)' = {}
      BY <1>3, <2>2 DEF Leases, HasLease
    <2> QED
      BY <1>11, <2>1, <2>2, <2>3
  <1>13. \A id \in Jobs : id # i => /\ id \in ready' <=> id \in ready
                                    /\ Waits(id)' = Waits(id) /\ Graves(id)' = Graves(id)
                                    /\ Leases(id)' = Leases(id)
                                    /\ id \in Owed' => id \in Owed
    <2>1. \A id \in Jobs : id \in Owed' => id \in Owed
      BY <1>6, OwedNow DEF ReclaimClaim, history
    <2>2. \A u \in Tokens : u # t => (HasLease(u)' <=> HasLease(u))
      BY DEF HasLease
    <2>3. \A id \in Jobs : id # i => Leases(id)' = Leases(id)
      BY <1>2, <1>3, <2>2 DEF Leases
    <2> QED
      BY <2>1, <2>3, SameStore DEF ReclaimClaim
  <1>14. OnePlace(i)' /\ (i \in Owed' => Somewhere(i)')
    BY <1>12 DEF OnePlace, Single, Somewhere
  <1>15. \A id \in Jobs : id # i => /\ id \in ready' <=> id \in ready
                                    /\ Waits(id)' = Waits(id) /\ Graves(id)' = Graves(id)
                                    /\ Leases(id)' = Leases(id) /\ Hands(id)' = Hands(id)
                                    /\ id \in Owed' => id \in Owed
    BY <1>11, <1>13
  <1> QED
    BY <1>4, <1>5, <1>7, <1>8, <1>9, <1>10, <1>14, <1>15, MoveStep

LEMMA ReclaimClaimMisses ==
  ASSUME RedisInv, NEW p \in Procs, NEW t \in proc[p].todo, ReclaimClaim(p),
         processing' = processing,
         Goto(p, Continue([proc[p] EXCEPT !.todo = proc[p].todo \ {t}]))
  PROVE  RedisInv'
  <1> DEFINE s == proc[p]
             n == Continue([s EXCEPT !.todo = s.todo \ {t}])
  <1>1. s \in Call /\ Shape(s) /\ s.pc = "claim" /\ Goto(p, n)
    BY ThisCall DEF RedisInv, ReclaimClaim, Step, At
  <1>2. /\ n.pc \in {"claim", "scan", "head", "idle"} /\ n.op # "ack" /\ n.op # "purge"
        /\ s.op = "reserve" /\ (n.op = "reserve" => n.at = s.at /\ n.todo \subseteq s.todo)
    <2> DEFINE u == [s EXCEPT !.todo = s.todo \ {t}]
    <2>1. /\ u \in Call /\ u.op = "reserve" /\ u.at = s.at /\ u.todo \subseteq s.todo
          /\ s.op = "reserve" /\ n = Continue(u)
      BY <1>1 DEF Call, ReclaimClaim
    <2> HIDE DEF u, n
    <2> QED
      BY <2>1, ContinueCall, RedisAssumption DEF Idle
  <1> HIDE DEF n
  <1>3. TypeInv'
    BY ReclaimClaimTypes DEF RedisInv
  <1>4. LeaseInv'
    <2>1. Quieter(s, n)
      BY <1>1, <1>2, RedisAssumption DEF Quieter, UniquePcs, LeasePcs, GonePcs
    <2> QED
      BY <1>1, <2>1, LeasesQuiet DEF RedisInv, ReclaimClaim, history
  <1>5. \A id \in Jobs : Leases(id)' = Leases(id)
    BY SameStore DEF ReclaimClaim, history
  <1>6. HistoryGrows
    BY DEF HistoryGrows, ReclaimClaim, history
  <1>7. HandsKept(p, n)
    BY <1>1, <1>2 DEF HandsKept, Grips, HandPcs, ReclaimClaim, history
  <1>8. BooksKept(p, n)
    BY <1>1, <1>2, RedisAssumption
    DEF BooksKept, RedisInv, Booked, New, JobPcs, TokenPcs, UniquePcs, HandPcs, LeasePcs,
        GonePcs, ReclaimClaim, history
  <1>9. SettlesKept(p, n)
    BY <1>1, <1>2, RedisAssumption DEF SettlesKept, ReclaimClaim, history
  <1>10. StoredKept(p)
    BY <1>1, <1>2, RedisAssumption
    DEF StoredKept, Graves, RedisInv, TypeInv, RedisTypes, ReclaimClaim, history
  <1> QED
    BY <1>1, <1>3, <1>4, <1>5, <1>6, <1>7, <1>8, <1>9, <1>10, QuietStep
    DEF ReclaimClaim, history

LEMMA ReclaimClaimKeeps ==
  ASSUME RedisInv, NEW p \in Procs, ReclaimClaim(p)
  PROVE  RedisInv'
  <1> DEFINE rest(t) == [proc[p] EXCEPT !.todo = proc[p].todo \ {t}]
  <1>1. PICK t \in proc[p].todo :
          /\ processing' = {l \in processing : l.token # t}
          /\ Goto(p, IF \E l \in processing : l.token = t
                     THEN [rest(t) EXCEPT !.pc = "ref", !.token = t]
                     ELSE Continue(rest(t)))
    BY DEF ReclaimClaim
  <1>2. CASE HasLease(t)
    <2>1. Goto(p, [rest(t) EXCEPT !.pc = "ref", !.token = t])
      BY <1>1, <1>2 DEF HasLease
    <2> QED
      BY <1>1, <1>2, <2>1, ReclaimClaimTakes, ReclaimClaimUnfinished
  <1>3. CASE ~HasLease(t)
    <2>1. processing' = processing /\ Goto(p, Continue(rest(t)))
      BY <1>1, <1>3 DEF HasLease
    <2> QED
      BY <2>1, ReclaimClaimMisses
  <1> QED
    BY <1>2, <1>3

(* Only the time, or nothing at all, changes.                              *)
LEMMA StoreUnchanged ==
  ASSUME RedisInv, TypeInv', LeaseInv', UNCHANGED <<store, proc, history>>
  PROVE  RedisInv'
  <1>1. UNCHANGED <<store, proc, history>>
    OBVIOUS
  <1>2. Booked' /\ Finding'
    BY <1>1 DEF RedisInv, Booked, Finding, store, history
  <1>3. \A id \in Jobs : /\ Hands(id)' = Hands(id) /\ Leases(id)' = Leases(id)
                         /\ Waits(id)' = Waits(id) /\ Graves(id)' = Graves(id)
    BY <1>1 DEF Hands, Grips, Leases, HasLease, Waits, Graves, store
  <1>4. Placed'
    BY <1>1, <1>3 DEF RedisInv, Placed, OnePlace, store
  <1>5. KeptInv'
    <2>1. Owed' = Owed /\ Owed \subseteq Jobs
      BY <1>1 DEF Owed, history, RedisInv, TypeInv, RedisTypes
    <2>2. Settling'
      BY <1>1, <2>1 DEF RedisInv, KeptInv, Settling, store, history
    <2>3. Kept'
      BY <1>1, <1>3, <2>1 DEF RedisInv, KeptInv, Kept, Somewhere, Stored, store
    <2> QED
      BY <2>2, <2>3 DEF KeptInv
  <1> QED
    BY <1>2, <1>4, <1>5 DEF RedisInv

LEMMA TickKeeps ==
  ASSUME RedisInv, Tick, ~SlowHandlers
  PROVE  RedisInv'
  BY TickTypes, TickLease, StoreUnchanged DEF RedisInv, Tick

----------------------------------------------------------------------------
(* The invariant holds initially and every step preserves it.              *)
LEMMA NextKeeps ==
  ASSUME RedisInv, RedisNext, ~SlowHandlers, OneOperator
  PROVE  RedisInv'
  <1>1. ASSUME NEW p \in Procs, Command(p) PROVE RedisInv'
    BY <1>1, EnqueueAddKeeps, ScanQueueKeeps, ReclaimClaimKeeps,
       ReclaimRefKeeps, ReclaimDelRefKeeps, ReclaimLoadKeeps, ReclaimAddKeeps,
       ReclaimDisownKeeps, PromoteClaimKeeps, PromoteLoadKeeps,
       PromoteAddKeeps, PopHeadKeeps, PopClaimKeeps, PopLoadKeeps,
       PopPersistKeeps, PopLeaseKeeps, PopResKeeps, PopOwnerKeeps,
       LoserDelResKeeps, LoserDelLeaseKeeps, RemoveLeaseKeeps, RemoveResKeeps,
       RemoveOwnerKeeps, NackPersistKeeps, NackAddKeeps, BuryKeeps,
       DeleteJobKeeps, DeadTakeKeeps, RetryPersistKeeps, PurgeDelayedKeeps,
       PurgeJobKeeps, PurgeOwnerKeeps, DropReadyKeeps, DropDelayedKeeps
       DEF Command
  <1>2. ASSUME NEW p \in Procs, Handled(p) PROVE RedisInv'
    <2>1. PICK op \in {"ack", "nack", "dead"}, delay \in 0..1 : Settle(p, op, delay)
      BY <1>2 DEF Handled
    <2> QED
      BY <2>1, SettleKeeps
  <1>3. CASE Tick
    BY <1>3, TickKeeps
  <1>4. ASSUME NEW p \in Procs, Crash(p) PROVE RedisInv'
    BY <1>4, CrashKeeps
  <1>5. ASSUME NEW p \in Procs, KnownQueues(p, "reserve") \/ KnownQueues(p, "promote")
        PROVE  RedisInv'
    BY <1>5, KnownQueuesKeeps
  <1>6. ASSUME NEW p \in Procs, NEW id \in Jobs, NEW delay \in 0..1,
               EnqueuePersist(p, id, delay)
        PROVE  RedisInv'
    BY <1>6, EnqueuePersistKeeps
  <1>7. ASSUME NEW p \in Procs, NEW d \in dead, DeadFind(p, d) PROVE RedisInv'
    BY <1>7, DeadFindKeeps
  <1>8. ASSUME NEW p \in Procs, NEW q \in queues, FlushDead(p, q) \/ PurgeReady(p, q)
        PROVE  RedisInv'
    BY <1>8, FlushDeadKeeps, PurgeReadyKeeps
  <1> QED
    BY <1>1, <1>2, <1>3, <1>4, <1>5, <1>6, <1>7, <1>8 DEF RedisNext

LEMMA InitKeeps == RedisInit => RedisInv
  <1> SUFFICES ASSUME RedisInit PROVE RedisInv
    OBVIOUS
  <1>1. TypeInv
    BY InitTypes
  <1>2. \A p \in Procs : proc[p].pc = "idle" /\ proc[p].op = None
    BY DEF RedisInit, Idle
  <1>3. LeaseInv
    BY <1>2, RedisAssumption DEF RedisInit, LeaseInv, FreshTokens, CallsAreYoung, LeasesHeld,
         KeepsLease, UniqueTokens, UniquePcs, LeasePcs, GonePcs
  <1>4. Booked /\ Finding
    BY <1>2, RedisAssumption
    DEF RedisInit, Booked, Finding, New, JobPcs, HandPcs, LeasePcs
  <1>5. \A id \in Jobs : /\ Hands(id) = {} /\ Leases(id) = {} /\ Waits(id) = {}
                         /\ Graves(id) = {} /\ id \notin ready
    BY <1>2 DEF RedisInit, Hands, Grips, HandPcs, Leases, HasLease, Waits, Graves
  <1>6. Placed
    BY <1>5 DEF Placed, OnePlace, Single
  <1>7. KeptInv
    BY <1>2, RedisAssumption DEF RedisInit, KeptInv, Settling, Kept, Owed
  <1> QED
    BY <1>1, <1>3, <1>4, <1>6, <1>7 DEF RedisInv

LEMMA InvariantHolds ==
  ASSUME ~SlowHandlers, OneOperator
  PROVE  RedisSpec => []RedisInv
  <1>1. RedisInv /\ UNCHANGED redisVars => RedisInv'
    <2> SUFFICES ASSUME RedisInv, UNCHANGED redisVars PROVE RedisInv'
      OBVIOUS
    <2>1. UNCHANGED <<now, store, proc, history>>
      BY DEF redisVars
    <2>2. TypeInv'
      BY <2>1 DEF store, history, RedisInv, TypeInv, RedisTypes, Shaped
    <2>3. FreshTokens' /\ CallsAreYoung' /\ UniqueTokens'
      BY <2>1 DEF store, RedisInv, LeaseInv, FreshTokens, CallsAreYoung, UniqueTokens
    <2>4. LeasesHeld'
      BY <2>1 DEF store, RedisInv, LeaseInv, LeasesHeld, KeepsLease, HasLease
    <2> QED
      BY <2>1, <2>2, <2>3, <2>4, StoreUnchanged DEF LeaseInv
  <1>2. RedisInv /\ [RedisNext]_redisVars => RedisInv'
    BY <1>1, NextKeeps
  <1> QED
    BY <1>2, InitKeeps, PTL DEF RedisSpec

LEMMA OneReserves == RedisInv => ReservedByOne
  <1> SUFFICES ASSUME RedisInv, NEW p \in Procs, NEW r \in Procs,
                      proc[p].pc \in Reserving \cup {"holding"},
                      proc[r].pc \in Reserving \cup {"holding"}, proc[p].id = proc[r].id
               PROVE  p = r
    BY DEF ReservedByOne
  <1>1. Reserving \cup {"holding"} \subseteq HandPcs \cup LeasePcs
    BY DEF Reserving, HandPcs, LeasePcs
  <1>2. proc[p].id \in Jobs
    BY ThisCall DEF RedisInv, Shape, JobPcs, Reserving, HandPcs, LeasePcs
  <1>3. CASE proc[p].pc \in LeasePcs \/ proc[r].pc \in LeasePcs
    <2>1. proc[p].pc \in LeasePcs /\ proc[r].pc \in LeasePcs
      <3>1. /\ proc[p].pc \in HandPcs => p \in Hands(proc[p].id)
            /\ proc[r].pc \in HandPcs => r \in Hands(proc[p].id)
        BY DEF Hands, Grips
      <3> QED
        BY <1>1, <1>3, <3>1, LeaseApart
    <2> QED
      BY <2>1, LeaseApart
  <1>4. CASE proc[p].pc \in HandPcs /\ proc[r].pc \in HandPcs
    <2>1. p \in Hands(proc[p].id) /\ r \in Hands(proc[p].id)
      BY <1>4 DEF Hands, Grips
    <2> QED
      BY <1>2, <2>1 DEF RedisInv, Placed, OnePlace, Single
  <1> QED
    BY <1>1, <1>3, <1>4

LEMMA LossExplained == RedisInv => LossesAreExplained
  <1> SUFFICES ASSUME RedisInv, NEW id \in Owed PROVE ~Lost(id)
    BY DEF LossesAreExplained, Owed
  <1>1. /\ id \in Jobs /\ id \in accepted /\ id \notin succeeded
        /\ Somewhere(id) /\ Stored(id) /\ OnePlace(id)
    BY DEF RedisInv, KeptInv, Kept, Owed, TypeInv, RedisTypes, Placed
  <1>2. CASE Graves(id) # {}
    BY <1>2 DEF Lost, Findable, Graves
  <1>3. CASE Hands(id) # {}
    <2>1. PICK p \in Procs : Grips(proc[p], id)
      BY <1>3 DEF Hands
    <2>2. proc[p].pc \in HandPcs => InHand(proc[p]) \/ New(proc[p]) \/ proc[p].op = "ack"
      BY ThisCall DEF RedisInv, InHand, HandPcs, Shape, New
    <2>3. New(proc[p]) => proc[p].id # id
      BY <1>1 DEF RedisInv, Booked
    <2>4. proc[p].op = "ack" => proc[p].id # id
      BY <1>1 DEF RedisInv, KeptInv, Settling
    <2> QED
      BY <2>1, <2>2, <2>3, <2>4 DEF Lost, Carried, Grips
  <1>4. CASE Graves(id) = {} /\ Hands(id) = {}
    <2>1. job[id] # None
      BY <1>1, <1>4 DEF Stored, Hands, Grips, HandPcs
    <2>2. \/ id \in ready \/ \E d \in delayed : d.id = id
          \/ \E l \in processing : res[l.token] = id
      BY <1>1, <1>4 DEF Somewhere, Waits, Leases, HasLease
    <2> QED
      BY <2>1, <2>2 DEF Lost, Findable
  <1> QED
    BY <1>2, <1>3, <1>4

(* For any number of processes, jobs, queues and crashes: while live       *)
(* processes keep their leases and one operator at a time uses the         *)
(* dead-letter API, two processes never have the same job reserved.        *)
THEOREM RedisReservedByOne ==
  ASSUME ~SlowHandlers, OneOperator
  PROVE  RedisSpec => []ReservedByOne
BY InvariantHolds, OneReserves, PTL

(* Under the same conditions every accepted job that no handler completed  *)
(* and no operator dropped is in Redis or with a live process, unless it   *)
(* met one of the gaps recorded in `exposed`.                              *)
THEOREM RedisLossesExplained ==
  ASSUME ~SlowHandlers, OneOperator
  PROVE  RedisSpec => []LossesAreExplained
BY InvariantHolds, LossExplained, PTL
=============================================================================
