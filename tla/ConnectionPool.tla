---------------------------- MODULE ConnectionPool ----------------------------
(***************************************************************************)
(* The PostgreSQL connection pool (packages/pool/src/pool.ts).             *)
(*                                                                         *)
(* The pool runs on one event loop.  A call runs on until it awaits, and a *)
(* connect that settles, in a socket callback of its own, runs the         *)
(* continuation of the code awaiting it before anything else: each of      *)
(* these is one action.  Callers come and go, connections die, streams are *)
(* given back before the server has finished them, and the pool may be     *)
(* closed at any point.                                                    *)
(***************************************************************************)
EXTENDS Integers, Sequences, FiniteSets, SequencesExt

CONSTANTS
  Callers, Ids,       \* callers of the pool; bound: connections there may be
  minConnections, maxConnections, MAX_WAIT,
  MaxDeaths, MaxRefusals,   \* bounds: connections that die, connects that fail
  None

ASSUME PoolAssumption ==
  /\ {minConnections, MaxDeaths, MaxRefusals} \subseteq Nat
  /\ maxConnections \in Nat \ {0} /\ minConnections <= maxConnections
  /\ MAX_WAIT \in Nat
  /\ IsFiniteSet(Ids) /\ None \notin Ids
  /\ Callers \cap {None, "replace", "warmup", "stray"} = {}
  /\ None \notin {"replace", "warmup", "stray"}

VARIABLES
  connections,  \* ids of the pooled connections, oldest first
  conn,         \* [status, inUse, for, late] of each connection
  waitQueue,    \* callers waiting, first come first
  caller,       \* [pc, conn] of each caller
  initialized, warming,   \* warm-up: done; initPromise # null
  closed,       \* "no", "closing" (close() awaits its connections), "yes"
  inflight,     \* history: connects in progress when close() was called
  strayed,      \* history: a failed warm-up left connections behind
  deaths, refusals

poolVars == <<connections, conn, waitQueue, caller, initialized, warming, closed,
              inflight, strayed, deaths, refusals>>

(* status: none (no such connection), connecting, or the wire's state; for *)
(* says who awaits the connect: a caller, a replacement, the warm-up or a  *)
(* warm-up that has already failed (stray).  late marks a connection that  *)
(* became free without being offered to the waiters.                       *)
NoConn == [status |-> "none", inUse |-> FALSE, for |-> None, late |-> FALSE]
Opening(for) == [NoConn EXCEPT !.status = "connecting", !.for = for]
Away == [pc |-> "idle", conn |-> None]

PoolInit ==
  /\ connections = <<>> /\ waitQueue = <<>>
  /\ conn = [i \in Ids |-> NoConn]
  /\ caller = [c \in Callers |-> Away]
  /\ initialized = FALSE /\ warming = FALSE /\ closed = "no"
  /\ inflight = {} /\ strayed = FALSE /\ deaths = 0 /\ refusals = 0

Unused == {i \in Ids : conn[i].status = "none"}
Connecting == {i \in Ids : conn[i].status = "connecting"}
Open == {i \in Ids : conn[i].status \in {"ready", "query"}}
Pending == {i \in Connecting : conn[i].for \notin {"warmup", "stray"}}

(* indexOf and splice.                                                     *)
Without(s, e) == RemoveAt(s, CHOOSE k \in 1..Len(s) : s[k] = e)

(* The connection that is opened next, once known are the ones there are.  *)
Spare(known) == {i \in Ids : known[i].status = "none"}
NextId(known) == CHOOSE i \in Spare(known) : TRUE

RoomNow(conns) == Len(conns) < maxConnections
Room(conns) == Len(conns) + Cardinality(Pending) < maxConnections

----------------------------------------------------------------------------
(* _doAcquire: the first connection that is dead or free decides.  A dead  *)
(* one is removed; a new one is opened while there is room; else the       *)
(* caller waits, or is refused when the queue is full.                     *)
Dead(i) == conn[i].status = "closed"
Free(i) == conn[i].status = "ready" /\ ~conn[i].inUse
FirstOf(conns) ==
  LET hits == {k \in DOMAIN conns : Dead(conns[k]) \/ Free(conns[k])} IN
  IF hits = {} THEN None ELSE conns[CHOOSE k \in hits : \A h \in hits : k <= h]

(* A dead connection that nobody holds any more is gone.                   *)
Forget(i) == IF \E c \in Callers : caller[c].conn = i THEN conn ELSE [conn EXCEPT ![i] = NoConn]

TakeFree(c, i) ==
  /\ conn' = [conn EXCEPT ![i].inUse = TRUE, ![i].late = FALSE]
  /\ caller' = [caller EXCEPT ![c] = [pc |-> "holding", conn |-> i]]
  /\ UNCHANGED <<connections, waitQueue>>

(* cs and known are the pool and its connections without the dead one.     *)
OpenOrWaitOneMore(c, cs, known) ==
  IF Room(cs)
  THEN /\ Spare(known) # {}
       /\ conn' = [known EXCEPT ![NextId(known)] = Opening(c)]
       /\ caller' = [caller EXCEPT ![c] = [pc |-> "connecting", conn |-> None]]
       /\ waitQueue' = waitQueue
  ELSE /\ conn' = known
       /\ IF Len(waitQueue) > MAX_WAIT
          THEN waitQueue' = waitQueue /\ caller' = [caller EXCEPT ![c] = Away]
          ELSE /\ waitQueue' = Append(waitQueue, c)
               /\ caller' = [caller EXCEPT ![c] = [pc |-> "waiting", conn |-> None]]

OpenOrWait(c, cs, known) ==
  IF Room(cs)
  THEN /\ Spare(known) # {}
       /\ conn' = [known EXCEPT ![NextId(known)] = Opening(c)]
       /\ caller' = [caller EXCEPT ![c] = [pc |-> "connecting", conn |-> None]]
       /\ waitQueue' = waitQueue
  ELSE /\ conn' = known
       /\ IF Len(waitQueue) >= MAX_WAIT
          THEN waitQueue' = waitQueue /\ caller' = [caller EXCEPT ![c] = Away]
          ELSE /\ waitQueue' = Append(waitQueue, c)
               /\ caller' = [caller EXCEPT ![c] = [pc |-> "waiting", conn |-> None]]

doAcquire(c) ==
  LET i == FirstOf(connections) IN
  IF closed # "no"
  THEN caller' = [caller EXCEPT ![c] = Away] /\ UNCHANGED <<connections, conn, waitQueue>>
  ELSE IF i = None
  THEN OpenOrWait(c, connections, conn) /\ connections' = connections
  ELSE IF Dead(i)
  THEN LET cs == Without(connections, i) IN
       OpenOrWait(c, cs, Forget(i)) /\ connections' = cs
  ELSE TakeFree(c, i)

(* acquire on the cold path: the first caller starts the warm-up, the      *)
(* others join it.  A warm-up with nothing to open is over at once.        *)
StartWarmup ==
  IF warming THEN UNCHANGED <<conn, warming, initialized>>
  ELSE LET fits == {S \in SUBSET Unused : Cardinality(S) = minConnections}
           new == CHOOSE S \in fits : TRUE
       IN
       /\ fits # {}
       /\ conn' = [i \in Ids |-> IF i \in new THEN Opening("warmup") ELSE conn[i]]
       /\ warming' = TRUE /\ initialized' = (minConnections = 0)

Acquire(c) ==
  /\ caller[c].pc = "idle" /\ closed = "no"
  /\ IF initialized
     THEN doAcquire(c) /\ UNCHANGED <<warming, initialized>>
     ELSE /\ StartWarmup
          /\ caller' = [caller EXCEPT ![c] = [pc |-> "warming", conn |-> None]]
          /\ UNCHANGED <<connections, waitQueue>>
  /\ UNCHANGED <<closed, inflight, strayed, deaths, refusals>>

WarmupAwaited(c) ==
  /\ caller[c].pc = "warming" /\ initialized
  /\ doAcquire(c)
  /\ UNCHANGED <<initialized, warming, closed, inflight, strayed, deaths, refusals>>

----------------------------------------------------------------------------
(* Connection i is free: the first waiter gets it, its timer is cleared.   *)
ServeUnmarked(i, served, callers) ==
  IF waitQueue = <<>>
  THEN /\ conn' = [conn EXCEPT ![i] = [served EXCEPT !.inUse = FALSE]]
       /\ caller' = callers /\ waitQueue' = waitQueue
  ELSE /\ conn' = [conn EXCEPT ![i] = [served EXCEPT !.inUse = FALSE]]
       /\ caller' = [callers EXCEPT ![Head(waitQueue)] = [pc |-> "holding", conn |-> i]]
       /\ waitQueue' = Tail(waitQueue)

ServeNobody(i, served, callers) ==
  /\ conn' = [conn EXCEPT ![i] = [served EXCEPT !.inUse = FALSE]]
  /\ caller' = callers /\ waitQueue' = waitQueue

Serve(i, served, callers) ==
  IF waitQueue = <<>>
  THEN /\ conn' = [conn EXCEPT ![i] = [served EXCEPT !.inUse = FALSE]]
       /\ caller' = callers /\ waitQueue' = waitQueue
  ELSE /\ conn' = [conn EXCEPT ![i] = [served EXCEPT !.inUse = TRUE]]
       /\ caller' = [callers EXCEPT ![Head(waitQueue)] = [pc |-> "holding", conn |-> i]]
       /\ waitQueue' = Tail(waitQueue)

(* A connect succeeds: the connection joins the pool, closed or not, and   *)
(* goes to the one who awaits it.                                          *)
Connected(i) ==
  LET for == conn[i].for
      fresh == [conn[i] EXCEPT !.status = "ready", !.late = (for = "stray")]
  IN
  /\ i \in Connecting
  /\ connections' = Append(connections, i)
  /\ CASE for \in Callers ->
            /\ conn' = [conn EXCEPT ![i] = [fresh EXCEPT !.inUse = TRUE, !.for = None]]
            /\ caller' = [caller EXCEPT ![for] = [pc |-> "holding", conn |-> i]]
            /\ UNCHANGED <<waitQueue, initialized>>
       [] for = "replace" -> Serve(i, [fresh EXCEPT !.for = None], caller) /\ initialized' = initialized
       [] for = "warmup" /\ \A k \in Connecting \ {i} : conn[k].for # "warmup" ->
            /\ conn' = [k \in Ids |-> IF k = i THEN [fresh EXCEPT !.for = None]
                          ELSE IF conn[k].for = "warmup" THEN [conn[k] EXCEPT !.for = None]
                          ELSE conn[k]]
            /\ initialized' = TRUE
            /\ UNCHANGED <<caller, waitQueue>>
       [] OTHER ->
            /\ conn' = [conn EXCEPT ![i] = fresh]
            /\ UNCHANGED <<caller, waitQueue, initialized>>
  /\ UNCHANGED <<warming, closed, inflight, strayed, deaths, refusals>>

(* A connect fails: its caller is refused.  The first failure of a warm-up *)
(* refuses all its callers and leaves its other connects to themselves; a  *)
(* failed replacement is not tried again.                                  *)
ConnectFailsKeepsPromise(i) ==
  LET for == conn[i].for
      gone == [conn EXCEPT ![i] = NoConn]
  IN
  /\ i \in Connecting /\ refusals < MaxRefusals
  /\ refusals' = refusals + 1
  /\ IF for = "warmup"
     THEN /\ conn' = [k \in Ids |-> IF gone[k].for = "warmup"
                                    THEN [gone[k] EXCEPT !.for = "stray"] ELSE gone[k]]
          /\ caller' = [c \in Callers |-> IF caller[c].pc = "warming" THEN Away ELSE caller[c]]
          /\ warming' = TRUE
          /\ strayed' = (strayed \/ \E k \in Ids : conn'[k].for = "stray")
     ELSE /\ conn' = gone
          /\ caller' = IF for \in Callers THEN [caller EXCEPT ![for] = Away] ELSE caller
          /\ UNCHANGED <<warming, strayed>>
  /\ UNCHANGED <<connections, waitQueue, initialized, closed, inflight, deaths>>

ConnectFails(i) ==
  LET for == conn[i].for
      gone == [conn EXCEPT ![i] = NoConn]
  IN
  /\ i \in Connecting /\ refusals < MaxRefusals
  /\ refusals' = refusals + 1
  /\ IF for = "warmup"
     THEN /\ conn' = [k \in Ids |-> IF gone[k].for = "warmup"
                                    THEN [gone[k] EXCEPT !.for = "stray"] ELSE gone[k]]
          /\ caller' = [c \in Callers |-> IF caller[c].pc = "warming" THEN Away ELSE caller[c]]
          /\ warming' = FALSE
          /\ strayed' = (strayed \/ \E k \in Ids : conn'[k].for = "stray")
     ELSE /\ conn' = gone
          /\ caller' = IF for \in Callers THEN [caller EXCEPT ![for] = Away] ELSE caller
          /\ UNCHANGED <<warming, strayed>>
  /\ UNCHANGED <<connections, waitQueue, initialized, closed, inflight, deaths>>

(* The wait entry's timer.                                                 *)
AcquireTimeout(c) ==
  /\ caller[c].pc = "waiting"
  /\ waitQueue' = Without(waitQueue, c)
  /\ caller' = [caller EXCEPT ![c] = Away]
  /\ UNCHANGED <<connections, conn, initialized, warming, closed, inflight, strayed, deaths, refusals>>

----------------------------------------------------------------------------
(* A holder sends a command; the server finishes it.                       *)
Use(c) ==
  /\ caller[c].pc = "holding" /\ conn[caller[c].conn].status = "ready"
  /\ conn' = [conn EXCEPT ![caller[c].conn].status = "query"]
  /\ UNCHANGED <<connections, waitQueue, caller, initialized, warming, closed, inflight, strayed,
                 deaths, refusals>>

ReadyForQuery(i) ==
  /\ conn[i].status = "query"
  /\ conn' = [conn EXCEPT ![i].status = "ready"]
  /\ UNCHANGED <<connections, waitQueue, caller, initialized, warming, closed, inflight, strayed,
                 deaths, refusals>>

SocketDies(i) ==
  /\ i \in Open /\ deaths < MaxDeaths
  /\ deaths' = deaths + 1
  /\ conn' = [conn EXCEPT ![i].status = "closed"]
  /\ UNCHANGED <<connections, waitQueue, caller, initialized, warming, closed, inflight, strayed,
                 refusals>>

(* _maybeCreateReplacement, once conns are those left.                     *)
ReplacementAlways(conns, known) ==
  IF Room(conns)
  THEN [known EXCEPT ![NextId(known)] = Opening("replace")]
  ELSE known

Replacement(conns, known) ==
  IF closed = "no" /\ Room(conns)
  THEN [known EXCEPT ![NextId(known)] = Opening("replace")]
  ELSE known

(* release, also of a connection that still streams; one the pool no       *)
(* longer knows is ignored.                                                *)
Release(c) ==
  LET i == caller[c].conn
      away == [caller EXCEPT ![c] = Away]
      cs == Without(connections, i)
  IN
  /\ caller[c].pc = "holding"
  /\ \/ /\ ~Contains(connections, i)
        /\ conn' = IF Dead(i) THEN [conn EXCEPT ![i] = NoConn] ELSE conn
        /\ caller' = away /\ UNCHANGED <<connections, waitQueue>>
     \/ /\ Contains(connections, i) /\ Dead(i)
        /\ connections' = cs
        /\ conn' = Replacement(cs, [conn EXCEPT ![i] = NoConn])
        /\ caller' = away /\ waitQueue' = waitQueue
     \/ /\ Contains(connections, i) /\ conn[i].status = "query"
        /\ conn' = [conn EXCEPT ![i].inUse = FALSE, ![i].late = TRUE]
        /\ caller' = away /\ UNCHANGED <<connections, waitQueue>>
     \/ /\ Contains(connections, i) /\ conn[i].status = "ready"
        /\ Serve(i, conn[i], away)
        /\ connections' = connections
  /\ UNCHANGED <<initialized, warming, closed, inflight, strayed, deaths, refusals>>

(* _sweepIdle closes connections free for long, down to the minimum; kept  *)
(* are the places of those it leaves, in their order.                      *)
SweepIdle ==
  /\ closed = "no"
  /\ \E n \in minConnections..(Len(connections) - 1) :
     \E kept \in [1..n -> DOMAIN connections] :
       LET gone == {connections[k] : k \in DOMAIN connections \ {kept[h] : h \in 1..n}} IN
       /\ \A g, h \in 1..n : g < h => kept[g] < kept[h]
       /\ \A i \in gone : ~conn[i].inUse
       /\ connections' = [h \in 1..n |-> connections[kept[h]]]
       /\ conn' = [i \in Ids |-> IF i \in gone THEN NoConn ELSE conn[i]]
  /\ UNCHANGED <<waitQueue, caller, initialized, warming, closed, inflight, strayed, deaths, refusals>>

(* close(): no more waiters, every pooled connection closed; once that is  *)
(* done the pool is emptied.                                               *)
Close ==
  /\ closed = "no" /\ closed' = "closing"
  /\ inflight' = Connecting
  /\ conn' = [i \in Ids |-> IF Contains(connections, i)
                            THEN [conn[i] EXCEPT !.status = "closed"] ELSE conn[i]]
  /\ caller' = [c \in Callers |-> IF caller[c].pc = "waiting" THEN Away ELSE caller[c]]
  /\ waitQueue' = <<>>
  /\ UNCHANGED <<connections, initialized, warming, strayed, deaths, refusals>>

Closed ==
  /\ closed = "closing" /\ closed' = "yes"
  /\ connections' = <<>>
  /\ conn' = [i \in Ids |-> IF Contains(connections, i) /\ Dead(i)
                               /\ \A c \in Callers : caller[c].conn # i
                            THEN NoConn ELSE conn[i]]
  /\ UNCHANGED <<waitQueue, caller, initialized, warming, inflight, strayed, deaths, refusals>>

Settles(i) == Connected(i) \/ ConnectFails(i)

PoolNext ==
  \/ \E c \in Callers :
       Acquire(c) \/ WarmupAwaited(c) \/ AcquireTimeout(c) \/ Use(c) \/ Release(c)
  \/ \E i \in Ids : Connected(i) \/ ConnectFails(i) \/ ReadyForQuery(i) \/ SocketDies(i)
  \/ SweepIdle \/ Close \/ Closed

(* Connects succeed or fail, the timers of waiting callers run down and    *)
(* continuations run.  Holders need not give anything back.                *)
PoolSpec ==
  /\ PoolInit /\ [][PoolNext]_poolVars
  /\ \A i \in Ids : WF_poolVars(Settles(i))
  /\ \A c \in Callers : WF_poolVars(WarmupAwaited(c)) /\ WF_poolVars(AcquireTimeout(c))

----------------------------------------------------------------------------
(* The pool's tables hold values of their kinds, the wait queue keeps its  *)
(* bound and has exactly the callers that wait, each once.                 *)
PoolTypeOK ==
  /\ connections \in Seq(Ids) /\ IsInjective(connections)
  /\ conn \in [Ids -> [status : {"none", "connecting", "ready", "query", "closed"},
                       inUse : BOOLEAN, late : BOOLEAN,
                       for : Callers \cup {None, "replace", "warmup", "stray"}]]
  /\ caller \in [Callers -> [pc : {"idle", "warming", "connecting", "waiting", "holding"},
                             conn : Ids \cup {None}]]
  /\ Len(waitQueue) <= MAX_WAIT /\ IsInjective(waitQueue)
  /\ ToSet(waitQueue) = {c \in Callers : caller[c].pc = "waiting"}
  /\ closed \in {"no", "closing", "yes"}

Stray(i) == conn[i].for = "stray"

(* "concurrent acquires never exceed maxConnections" (ARCHITECTURE.md):    *)
(* the pooled connections and those being opened stay within the maximum,  *)
(* apart from what failed warm-ups had started.                            *)
PoolBounded ==
  closed = "no" =>
    Cardinality({i \in ToSet(connections) \cup Connecting : ~Stray(i)}) <= maxConnections

(* A connection serves one caller at a time, and one that a caller holds   *)
(* is marked in use, so that neither another acquire nor the sweep takes   *)
(* it.                                                                     *)
ExclusiveUse ==
  /\ \A c, d \in Callers : (caller[c].conn # None /\ caller[c].conn = caller[d].conn) => c = d
  /\ \A c \in Callers : caller[c].pc = "holding" => conn[caller[c].conn].inUse

(* Nobody waits beside a connection that is free and ready, except beside  *)
(* one released in mid-stream - as long as no failed warm-up has left      *)
(* connections behind, which can take the pool past its maximum.           *)
NoNeedlessWait ==
  (waitQueue # <<>> /\ ~strayed) =>
    \A i \in ToSet(connections) : Free(i) => conn[i].late

(* After close() the only connections left open are those that were being  *)
(* opened when it was called: a late release, a dying connection or a      *)
(* caller coming from the warm-up opens no new one.                        *)
CloseLeavesInflightOnly ==
  closed # "no" => Open \cup Connecting \subseteq inflight

(* Every acquire ends with a connection or with an error: no caller hangs, *)
(* whether the database refuses, connections die, or the pool is closed.   *)
EveryAcquireSettles ==
  \A c \in Callers :
    (caller[c].pc \in {"warming", "connecting", "waiting"}) ~>
      (caller[c].pc \in {"idle", "holding"})
=============================================================================
