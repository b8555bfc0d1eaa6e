------------------------------ MODULE PoolProofs ------------------------------
(***************************************************************************)
(* Proofs about the connection pool: for any number of callers and         *)
(* connections, any limits and any number of deaths and refusals, the      *)
(* pool keeps its maximum, lends a connection to one caller at a time,     *)
(* lets nobody wait beside a free connection and opens nothing once closed.*)
(***************************************************************************)
EXTENDS ConnectionPool, FiniteSetTheorems, SequenceTheorems, WellFoundedInduction, TLAPS

Holds(c, i) == caller[c].pc = "holding" /\ caller[c].conn = i

(* What conn[i] may be: no connection, one being opened for somebody, or   *)
(* one that was opened, which keeps the mark of its warm-up until that is  *)
(* over.  One that streams and is not in use was released in mid-stream.   *)
ConnOK(i) ==
  /\ conn[i].status = "none" => conn[i] = NoConn
  /\ conn[i].status = "connecting" => ~conn[i].inUse /\ conn[i].for # None
  /\ conn[i].status \in {"ready", "query", "closed"} => conn[i].for \in {None, "warmup", "stray"}
  /\ (conn[i].status = "query" /\ ~conn[i].inUse) => conn[i].late
  /\ i \in ToSet(connections) => conn[i].status \in {"ready", "query", "closed"}
  /\ (closed = "no" /\ conn[i].status \in {"ready", "query"}) => i \in ToSet(connections)

(* A caller has a connection when it holds one, which is open or died and  *)
(* is marked; a connection is opened for a caller that awaits it.          *)
CallerOK(c) ==
  /\ caller[c].conn # None <=> caller[c].pc = "holding"
  /\ caller[c].pc = "holding" =>
       LET i == caller[c].conn IN conn[i].inUse /\ conn[i].status \in {"ready", "query", "closed"}
  /\ \A i \in Ids : conn[i].for = c => caller[c].pc = "connecting"

Distinct ==
  /\ \A c, d \in Callers : (caller[c].conn # None /\ caller[c].conn = caller[d].conn) => c = d
  /\ \A i, k \in Ids : (conn[i].for \in Callers /\ conn[i].for = conn[k].for) => i = k

(* The warm-up: its marks exist while it runs, and until one has succeeded *)
(* there are no other connections and nobody is past it.                   *)
WarmupOK ==
  /\ (initialized \/ ~warming) => \A i \in Ids : conn[i].for # "warmup"
  /\ ~initialized =>
       /\ \A i \in Ids : conn[i].status # "none" => conn[i].for \in {"warmup", "stray"}
       /\ \A c \in Callers : caller[c].pc \in {"idle", "warming"}
  /\ ~strayed => \A i \in Ids : conn[i].for # "stray"

QueueOK == waitQueue # <<>> => closed = "no" /\ initialized

PoolInv ==
  /\ PoolTypeOK
  /\ waitQueue \in Seq(Callers) /\ {initialized, warming, strayed} \subseteq BOOLEAN
  /\ \A i \in Ids : ConnOK(i)
  /\ \A c \in Callers : CallerOK(c)
  /\ Distinct /\ WarmupOK /\ QueueOK
  /\ PoolBounded /\ NoNeedlessWait /\ CloseLeavesInflightOnly

----------------------------------------------------------------------------
(* Sequences without repetitions: the pool's list and its wait queue.      *)
Elements(s) == {s[k] : k \in 1..Len(s)}

LEMMA SetOfSeq ==
  ASSUME NEW S, NEW s \in Seq(S)
  PROVE  /\ ToSet(s) = Elements(s) /\ Elements(s) \subseteq S /\ DOMAIN s = 1..Len(s) /\ Len(s) \in Nat
         /\ \A e : Contains(s, e) <=> e \in Elements(s)
         /\ IsInjective(s) <=> \A k, h \in 1..Len(s) : s[k] = s[h] => k = h
  BY DEF ToSet, Elements, Contains, IsInjective

LEMMA EmptyList ==
  ASSUME NEW S
  PROVE  <<>> \in Seq(S) /\ Len(<<>>) = 0 /\ ToSet(<<>>) = {} /\ IsInjective(<<>>)
<1>1. <<>> \in Seq(S) /\ Len(<<>>) = 0
  BY EmptySeq
<1>2. DOMAIN <<>> = {}
  <2>1. DOMAIN <<>> = 1..Len(<<>>)
    BY <1>1, LenProperties
  <2> QED BY <1>1, <2>1
<1> QED BY <1>1, <1>2 DEF ToSet, IsInjective

LEMMA Removing ==
  ASSUME NEW S, NEW s \in Seq(S), IsInjective(s), NEW e, Contains(s, e)
  PROVE  /\ Without(s, e) \in Seq(S) /\ IsInjective(Without(s, e))
         /\ ToSet(Without(s, e)) = ToSet(s) \ {e}
         /\ Len(Without(s, e)) = Len(s) - 1
<1> DEFINE k == CHOOSE k \in 1..Len(s) : s[k] = e
           l == SubSeq(s, 1, k - 1)
           r == SubSeq(s, k + 1, Len(s))
           t == l \o r
<1>0. Len(s) \in Nat /\ \A h \in 1..Len(s) : s[h] \in S
  OBVIOUS
<1>1. k \in 1..Len(s) /\ s[k] = e
  BY DEF Contains
<1> HIDE DEF k
<1>2. l \in Seq(S) /\ Len(l) = k - 1 /\ \A h \in 1..(k - 1) : l[h] = s[h]
  <2>1. \A h \in 1..(k - 1) : s[h] \in S
    BY <1>0, <1>1
  <2>2. /\ l \in Seq(S) /\ Len(l) = IF 1 <= k - 1 THEN k - 1 - 1 + 1 ELSE 0
        /\ \A h \in 1..(k - 1 - 1 + 1) : l[h] = s[1 + h - 1]
    BY <2>1, <1>1, SubSeqProperties
  <2> HIDE DEF l
  <2> QED BY <2>2, <1>1
<1>3. r \in Seq(S) /\ Len(r) = Len(s) - k /\ \A h \in 1..(Len(s) - k) : r[h] = s[k + h]
  <2>1. \A h \in (k + 1)..Len(s) : s[h] \in S
    BY <1>0, <1>1
  <2>2. /\ r \in Seq(S) /\ Len(r) = IF k + 1 <= Len(s) THEN Len(s) - (k + 1) + 1 ELSE 0
        /\ \A h \in 1..(Len(s) - (k + 1) + 1) : r[h] = s[(k + 1) + h - 1]
    BY <2>1, <1>0, <1>1, SubSeqProperties
  <2> HIDE DEF r
  <2> QED BY <2>2, <1>0, <1>1
<1> HIDE DEF l, r
<1>4. /\ t \in Seq(S) /\ Len(t) = Len(s) - 1
      /\ \A h \in 1..(Len(s) - 1) : t[h] = IF h < k THEN s[h] ELSE s[h + 1]
  <2>1. /\ t \in Seq(S) /\ Len(t) = Len(l) + Len(r)
        /\ \A h \in 1..(Len(l) + Len(r)) : t[h] = IF h <= Len(l) THEN l[h] ELSE r[h - Len(l)]
    BY <1>2, <1>3, ConcatProperties
  <2> HIDE DEF t
  <2>2. Len(l) + Len(r) = Len(s) - 1
    BY <1>0, <1>1, <1>2, <1>3
  <2>4. \A h \in 1..(Len(s) - 1) : t[h] = IF h <= Len(l) THEN l[h] ELSE r[h - Len(l)]
    BY <2>1, <2>2
  <2>3. ASSUME NEW h \in 1..(Len(s) - 1) PROVE t[h] = IF h < k THEN s[h] ELSE s[h + 1]
    <3>1. CASE h < k
      <4>1. h \in 1..(k - 1) /\ h <= Len(l)
        BY <3>1, <1>0, <1>1, <1>2
      <4> QED BY <3>1, <4>1, <2>4, <1>2
    <3>2. CASE ~(h < k)
      <4>1. h - (k - 1) \in 1..(Len(s) - k) /\ k + (h - (k - 1)) = h + 1
        BY <3>2, <1>0, <1>1
      <4>2. r[h - (k - 1)] = s[h + 1]
        BY <4>1, <1>3
      <4>3. ~(h <= Len(l)) /\ Len(l) = k - 1
        BY <3>2, <1>0, <1>1, <1>2
      <4> QED BY <3>2, <4>2, <4>3, <2>4
    <3> QED BY <3>1, <3>2
  <2> QED BY <2>1, <2>2, <2>3
<1>5. Without(s, e) = t
  BY DEF Without, RemoveAt, k, t, l, r
<1> HIDE DEF t
<1>6. \A h, g \in 1..Len(s) : s[h] = s[g] => h = g
  BY SetOfSeq
<1>7. \A h, g \in 1..Len(t) : t[h] = t[g] => h = g
  BY <1>0, <1>1, <1>4, <1>6
<1>8. Elements(t) = Elements(s) \ {e}
  <2>1. ASSUME NEW h \in 1..Len(t) PROVE t[h] \in Elements(s) \ {e}
    BY <1>0, <1>1, <1>4, <1>6 DEF Elements
  <2>2. ASSUME NEW h \in 1..Len(s), s[h] # e PROVE s[h] \in Elements(t)
    <3>1. CASE h < k
      BY <3>1, <1>0, <1>1, <1>4 DEF Elements
    <3>2. CASE h > k
      <4>1. h - 1 \in 1..(Len(s) - 1) /\ ~(h - 1 < k) /\ (h - 1) + 1 = h
        BY <3>2, <1>0, <1>1
      <4>2. t[h - 1] = s[h]
        BY <4>1, <1>4
      <4> QED BY <4>1, <4>2, <1>4 DEF Elements
    <3> QED BY <3>1, <3>2, <2>2, <1>1
  <2> QED BY <2>1, <2>2 DEF Elements
<1> QED BY <1>4, <1>5, <1>7, <1>8, SetOfSeq

LEMMA Adding ==
  ASSUME NEW S, NEW s \in Seq(S), IsInjective(s), NEW e \in S, e \notin ToSet(s)
  PROVE  /\ Append(s, e) \in Seq(S) /\ IsInjective(Append(s, e))
         /\ ToSet(Append(s, e)) = ToSet(s) \cup {e}
         /\ Len(Append(s, e)) = Len(s) + 1
<1> DEFINE t == Append(s, e)
<1>1. /\ t \in Seq(S) /\ Len(t) = Len(s) + 1 /\ t[Len(s) + 1] = e
      /\ \A h \in 1..Len(s) : t[h] = s[h]
  BY AppendProperties
<1> HIDE DEF t
<1>2. Elements(t) = Elements(s) \cup {e}
  <2>1. \A h \in 1..Len(t) : t[h] \in Elements(s) \cup {e}
    BY <1>1, SetOfSeq DEF Elements
  <2>2. \A h \in 1..Len(s) : s[h] \in Elements(t)
    BY <1>1, SetOfSeq DEF Elements
  <2>3. e \in Elements(t)
    BY <1>1, SetOfSeq DEF Elements
  <2> QED BY <2>1, <2>2, <2>3 DEF Elements
<1>3. \A h, g \in 1..Len(s) : s[h] = s[g] => h = g
  BY SetOfSeq
<1>4. \A h \in 1..Len(s) : s[h] # e
  BY SetOfSeq DEF Elements
<1>5. \A h, g \in 1..Len(t) : t[h] = t[g] => h = g
  BY <1>1, <1>3, <1>4, SetOfSeq
<1> QED BY <1>1, <1>2, <1>5, SetOfSeq DEF t

LEMMA Shifting ==
  ASSUME NEW S, NEW s \in Seq(S), IsInjective(s), s # <<>>
  PROVE  /\ Head(s) \in ToSet(s) /\ Tail(s) \in Seq(S) /\ IsInjective(Tail(s))
         /\ ToSet(Tail(s)) = ToSet(s) \ {Head(s)}
         /\ Len(Tail(s)) = Len(s) - 1
<1> DEFINE t == Tail(s)
<1>1. /\ t \in Seq(S) /\ Len(t) = Len(s) - 1
      /\ \A h \in 1..Len(t) : t[h] = s[h + 1]
  BY HeadTailProperties
<1>2. Head(s) = s[1] /\ Len(s) \in Nat /\ Len(s) >= 1
  BY EmptySeq
<1> HIDE DEF t
<1>3. \A h, g \in 1..Len(s) : s[h] = s[g] => h = g
  BY SetOfSeq
<1>4. \A h, g \in 1..Len(t) : t[h] = t[g] => h = g
  BY <1>1, <1>2, <1>3
<1>5. Elements(t) = Elements(s) \ {s[1]}
  <2>1. \A h \in 1..Len(t) : t[h] \in Elements(s) \ {s[1]}
    BY <1>1, <1>2, <1>3 DEF Elements
  <2>2. ASSUME NEW h \in 1..Len(s), s[h] # s[1] PROVE s[h] \in Elements(t)
    <3>1. h - 1 \in 1..Len(t) /\ (h - 1) + 1 = h
      BY <2>2, <1>1, <1>2
    <3>2. t[h - 1] = s[h]
      BY <3>1, <1>1
    <3> QED BY <3>1, <3>2 DEF Elements
  <2> QED BY <2>1, <2>2 DEF Elements
<1>6. s[1] \in Elements(s)
  BY <1>2 DEF Elements
<1> QED BY <1>1, <1>2, <1>4, <1>5, <1>6, SetOfSeq DEF t

KeptOf(s, kept, n) == [h \in 1..n |-> s[kept[h]]]
GoneFrom(s, kept, n) == {s[k] : k \in DOMAIN s \ {kept[h] : h \in 1..n}}

LEMMA Keeping ==
  ASSUME NEW S, NEW s \in Seq(S), IsInjective(s), NEW n \in Nat,
         NEW kept \in [1..n -> DOMAIN s], \A g, h \in 1..n : g < h => kept[g] < kept[h]
  PROVE  /\ KeptOf(s, kept, n) \in Seq(S) /\ IsInjective(KeptOf(s, kept, n))
         /\ ToSet(KeptOf(s, kept, n)) = ToSet(s) \ GoneFrom(s, kept, n)
         /\ GoneFrom(s, kept, n) \subseteq ToSet(s)
<1> DEFINE t == [h \in 1..n |-> s[kept[h]]]
           gone == {s[k] : k \in DOMAIN s \ {kept[h] : h \in 1..n}}
<1>0. /\ DOMAIN s = 1..Len(s) /\ Len(s) \in Nat /\ \A k \in 1..Len(s) : s[k] \in S
      /\ \A h, g \in 1..Len(s) : s[h] = s[g] => h = g
  BY SetOfSeq
<1>1. t \in Seq(S) /\ Len(t) = n /\ \A h \in 1..n : t[h] = s[kept[h]]
  <2>1. \A h \in 1..n : s[kept[h]] \in S
    BY <1>0
  <2>2. t \in Seq(S)
    BY <2>1, IsASeq
  <2>3. Len(t) = n
    BY <2>2, LenProperties
  <2> QED BY <2>2, <2>3
<1> HIDE DEF t
<1>2. \A h, g \in 1..n : kept[h] = kept[g] => h = g
  <2> SUFFICES ASSUME NEW h \in 1..n, NEW g \in 1..n, kept[h] = kept[g] PROVE h = g
    OBVIOUS
  <2>1. kept[h] \in Nat /\ kept[g] \in Nat
    BY <1>0
  <2> QED BY <2>1
<1>3. \A h, g \in 1..Len(t) : t[h] = t[g] => h = g
  BY <1>0, <1>1, <1>2
<1>4. Elements(t) = Elements(s) \ gone /\ gone \subseteq Elements(s)
  <2>1. ASSUME NEW h \in 1..n PROVE t[h] \in Elements(s) \ gone
    BY <1>0, <1>1 DEF Elements
  <2>2. ASSUME NEW k \in 1..Len(s), s[k] \notin gone PROVE s[k] \in Elements(t)
    <3>1. PICK h \in 1..n : k = kept[h]
      BY <2>2, <1>0
    <3> QED BY <3>1, <1>1 DEF Elements
  <2>3. gone \subseteq Elements(s)
    BY <1>0 DEF Elements
  <2> HIDE DEF gone
  <2> QED BY <2>1, <2>2, <2>3, <1>1 DEF Elements
<1>5. t = KeptOf(s, kept, n) /\ gone = GoneFrom(s, kept, n)
  BY DEF t, KeptOf, GoneFrom
<1> HIDE DEF gone
<1>6. t \in Seq(S) /\ IsInjective(t) /\ ToSet(t) = ToSet(s) \ gone /\ gone \subseteq ToSet(s)
  BY <1>1, <1>3, <1>4, SetOfSeq
<1> QED BY <1>5, <1>6

LEMMA Counting ==
  ASSUME NEW S, NEW s \in Seq(S), IsInjective(s)
  PROVE  IsFiniteSet(ToSet(s)) /\ Cardinality(ToSet(s)) = Len(s)
<1>1. s \in Surjection(1..Len(s), ToSet(s)) /\ s \in Injection(1..Len(s), ToSet(s))
  BY SetOfSeq DEF Surjection, Injection, IsInjective, Elements
<1>2. IsFiniteSet(1..Len(s)) /\ Cardinality(1..Len(s)) = Len(s)
  <2>1. Len(s) \in Nat
    OBVIOUS
  <2>2. IsFiniteSet(1..Len(s)) /\ Cardinality(1..Len(s)) = IF 1 > Len(s) THEN 0 ELSE Len(s) - 1 + 1
    BY <2>1, FS_Interval
  <2> QED BY <2>1, <2>2
<1> QED BY <1>1, <1>2, FS_Surjection

----------------------------------------------------------------------------
(* What the invariant says of the tables, and how a step keeps the bound.  *)
ConnRec == [status : {"none", "connecting", "ready", "query", "closed"},
            inUse : BOOLEAN, late : BOOLEAN,
            for : Callers \cup {None, "replace", "warmup", "stray"}]
CallerRec == [pc : {"idle", "warming", "connecting", "waiting", "holding"},
              conn : Ids \cup {None}]
Pooled == ToSet(connections)
Waiting == {c \in Callers : caller[c].pc = "waiting"}
Counted == {i \in Pooled \cup Connecting : ~Stray(i)}

Tables ==
  /\ connections \in Seq(Ids) /\ IsInjective(connections)
  /\ conn \in [Ids -> ConnRec] /\ caller \in [Callers -> CallerRec]
  /\ waitQueue \in Seq(Callers) /\ IsInjective(waitQueue)
  /\ Len(waitQueue) <= MAX_WAIT /\ ToSet(waitQueue) = Waiting
  /\ closed \in {"no", "closing", "yes"}
  /\ {initialized, warming, strayed} \subseteq BOOLEAN

(* The invariant without the bound on the number of connections.           *)
Shape ==
  /\ Tables
  /\ \A i \in Ids : ConnOK(i)
  /\ \A c \in Callers : CallerOK(c)
  /\ Distinct /\ WarmupOK /\ QueueOK
  /\ NoNeedlessWait /\ CloseLeavesInflightOnly

LEMMA InvShape == (PoolInv <=> Shape /\ PoolBounded) /\ (PoolInv' <=> Shape' /\ PoolBounded')
  BY DEF PoolInv, Shape, Tables, PoolTypeOK, ConnRec, CallerRec, Waiting

LEMMA CountedFinite ==
  ASSUME Tables
  PROVE  Pooled \subseteq Ids /\ IsFiniteSet(Counted) /\ IsFiniteSet(Pending)
<1>1. Pooled \subseteq Ids /\ Connecting \subseteq Ids
  BY SetOfSeq DEF Tables, Pooled, Connecting
<1>2. Counted \subseteq Ids /\ Pending \subseteq Ids
  BY <1>1 DEF Counted, Pending
<1> QED BY <1>1, <1>2, FS_Subset, PoolAssumption

LEMMA BoundShrinks ==
  ASSUME Tables, PoolBounded, closed' = "no" => closed = "no", Counted' \subseteq Counted
  PROVE  PoolBounded'
<1> SUFFICES ASSUME closed' = "no" PROVE Cardinality(Counted') <= maxConnections
  BY DEF PoolBounded, Counted, Pooled
<1>1. IsFiniteSet(Counted) /\ Cardinality(Counted) <= maxConnections
  BY CountedFinite DEF PoolBounded, Counted, Pooled
<1>2. IsFiniteSet(Counted') /\ Cardinality(Counted') <= Cardinality(Counted)
  BY <1>1, FS_Subset
<1>3. Cardinality(Counted') \in Nat /\ Cardinality(Counted) \in Nat
  BY <1>1, <1>2, FS_CardinalityType
<1> QED BY <1>1, <1>2, <1>3, PoolAssumption

(* _doAcquire and _maybeCreateReplacement count before they open.          *)
LEMMA BoundGrows ==
  ASSUME Tables, NEW cs \in Seq(Ids), IsInjective(cs), Room(cs), NEW new,
         Counted' \subseteq (ToSet(cs) \cup Pending) \cup {new}
  PROVE  PoolBounded'
<1> DEFINE both == ToSet(cs) \cup Pending
<1>1. IsFiniteSet(ToSet(cs)) /\ Cardinality(ToSet(cs)) = Len(cs) /\ IsFiniteSet(Pending)
  BY Counting, CountedFinite
<1>2. /\ IsFiniteSet(both)
      /\ Cardinality(both) = Cardinality(ToSet(cs)) + Cardinality(Pending)
                               - Cardinality(ToSet(cs) \cap Pending)
  BY <1>1, FS_Union
<1>3. IsFiniteSet(ToSet(cs) \cap Pending)
  <2>1. ToSet(cs) \cap Pending \in SUBSET Pending
    OBVIOUS
  <2> QED BY <2>1, <1>1, FS_Subset
<1>4. /\ Cardinality(ToSet(cs) \cap Pending) \in Nat /\ Cardinality(Pending) \in Nat
      /\ Cardinality(both) \in Nat /\ Len(cs) \in Nat
  BY <1>1, <1>2, <1>3, FS_CardinalityType
<1> HIDE DEF both
<1>5. Cardinality(both) + 1 <= maxConnections
  BY <1>1, <1>2, <1>4, PoolAssumption DEF Room
<1>6. IsFiniteSet(both \cup {new}) /\ Cardinality(both \cup {new}) <= Cardinality(both) + 1
  <2>1. /\ IsFiniteSet(both \cup {new})
        /\ Cardinality(both \cup {new}) = IF new \in both THEN Cardinality(both) ELSE Cardinality(both) + 1
    BY <1>2, FS_AddElement
  <2> QED BY <2>1, <1>4
<1>7. IsFiniteSet(Counted') /\ Cardinality(Counted') <= Cardinality(both \cup {new})
  BY <1>6, FS_Subset DEF both
<1>8. Cardinality(Counted') \in Nat /\ Cardinality(both \cup {new}) \in Nat
  BY <1>6, <1>7, FS_CardinalityType
<1> QED BY <1>4, <1>5, <1>6, <1>7, <1>8, PoolAssumption DEF PoolBounded, Counted, Pooled

(* A step of the wire: a command, its end, a death.                        *)
LEMMA StatusKeeps ==
  ASSUME PoolInv, NEW i \in Ids, NEW st \in {"ready", "query", "closed"},
         conn[i].status \in {"ready", "query", "closed"},
         conn[i].status = "closed" => st = "closed",
         st = "ready" => conn[i].status = "query",
         st = "query" => conn[i].inUse,
         conn' = [conn EXCEPT ![i].status = st],
         UNCHANGED <<connections, waitQueue, caller, initialized, warming, closed, inflight, strayed>>
  PROVE  PoolInv'
<1>s. Shape /\ PoolBounded
  BY InvShape
<1>t. Tables
  BY <1>s DEF Shape
<1>1. /\ \A k \in Ids : k # i => conn'[k] = conn[k]
      /\ conn'[i].status = st /\ conn'[i].inUse = conn[i].inUse
      /\ conn'[i].for = conn[i].for /\ conn'[i].late = conn[i].late
      /\ conn' \in [Ids -> ConnRec]
  BY <1>t DEF Tables, ConnRec
<1>2. Tables'
  BY <1>t, <1>1 DEF Tables, Waiting
<1>3. \A k \in Ids : ConnOK(k)'
  BY <1>s, <1>1 DEF Shape, ConnOK
<1>4. \A c \in Callers : CallerOK(c)'
  BY <1>s, <1>t, <1>1 DEF Shape, CallerOK, Tables, CallerRec
<1>5. Distinct'
  BY <1>s, <1>t, <1>1 DEF Shape, Distinct
<1>6. WarmupOK'
  BY <1>s, <1>1 DEF Shape, WarmupOK
<1>7. QueueOK'
  BY <1>s DEF Shape, QueueOK
<1>8. NoNeedlessWait'
  BY <1>s, <1>t, <1>1, CountedFinite DEF Shape, NoNeedlessWait, Free, ConnOK, Pooled
<1>9. CloseLeavesInflightOnly'
  BY <1>s, <1>1 DEF Shape, CloseLeavesInflightOnly, Open, Connecting
<1>10. PoolBounded'
  <2>1. Counted' \subseteq Counted
    BY <1>t, <1>1, CountedFinite DEF Counted, Pooled, Connecting, Stray
  <2> QED BY <1>s, <1>t, <2>1, BoundShrinks
<1> QED BY <1>2, <1>3, <1>4, <1>5, <1>6, <1>7, <1>8, <1>9, <1>10, InvShape DEF Shape


(* What a step may make of the tables it leaves otherwise alone: a dead    *)
(* connection that nobody but c holds leaves the pool and is forgotten.    *)
Thinned(c, cs, known) ==
  /\ cs \in Seq(Ids) /\ IsInjective(cs) /\ ToSet(cs) \subseteq Pooled
  /\ known \in [Ids -> ConnRec]
  /\ \A k \in Pooled \ ToSet(cs) : conn[k].status = "closed"
  /\ \A k \in Ids : \/ known[k] = conn[k]
                    \/ /\ known[k] = NoConn /\ k \notin ToSet(cs) /\ conn[k].status = "closed"
                       /\ \A d \in Callers \ {c} : ~Holds(d, k)

LEMMA NoneDistinct == None \notin {"warmup", "stray", "replace"}
  BY PoolAssumption

LEMMA NoConnRec == NoConn \in ConnRec /\ NoConn.for = None /\ NoConn.status = "none" /\ ~NoConn.inUse
  BY DEF NoConn, ConnRec

(* A caller leaves the pool, or starts to wait.                            *)
LEMMA LeaveKeeps ==
  ASSUME PoolInv, NEW c \in Callers, caller[c].pc # "connecting", NEW p \in {"idle", "waiting"},
         caller' = [caller EXCEPT ![c] = [pc |-> p, conn |-> None]],
         NEW cs, NEW known, Thinned(c, cs, known), connections' = cs, conn' = known,
         waitQueue' \in Seq(Callers), IsInjective(waitQueue'), Len(waitQueue') <= MAX_WAIT,
         ToSet(waitQueue') = (Waiting \ {c}) \cup (IF p = "waiting" THEN {c} ELSE {}),
         waitQueue' # <<>> => waitQueue # <<>> \/ p = "waiting",
         p = "waiting" => /\ closed = "no" /\ initialized
                          /\ strayed \/ \A k \in ToSet(cs) : ~Free(k),
         UNCHANGED <<initialized, warming, closed, inflight, strayed>>
  PROVE  PoolInv'
<1>s. Shape /\ PoolBounded
  BY InvShape
<1>t. Tables
  BY <1>s DEF Shape
<1>n. Pooled \subseteq Ids
  BY <1>t, CountedFinite
<1>1. /\ \A d \in Callers : d # c => caller'[d] = caller[d]
      /\ caller'[c].pc = p /\ caller'[c].conn = None
      /\ caller' \in [Callers -> CallerRec]
  BY <1>t DEF Tables, CallerRec
<1>2. Tables'
  <2>1. Waiting' = (Waiting \ {c}) \cup (IF p = "waiting" THEN {c} ELSE {})
    BY <1>1 DEF Waiting
  <2> QED BY <1>t, <1>1, <2>1 DEF Tables, Thinned
<1>3. ASSUME NEW k \in Ids PROVE ConnOK(k)'
  <2>1. ConnOK(k)
    BY <1>s DEF Shape
  <2>2. CASE conn'[k] = conn[k]
    BY <2>1, <2>2 DEF ConnOK, Thinned, Pooled
  <2>3. CASE conn'[k] = NoConn /\ k \notin ToSet(cs)
    BY <2>3, NoConnRec DEF ConnOK
  <2> QED BY <2>2, <2>3 DEF Thinned
<1>4. ASSUME NEW d \in Callers PROVE CallerOK(d)'
  <2>1. CallerOK(d) /\ caller \in [Callers -> CallerRec]
    BY <1>s, <1>t DEF Shape, Tables
  <2>2. \A k \in Ids : conn'[k].for = d => conn[k].for = d
    BY NoConnRec, PoolAssumption DEF Thinned
  <2>3. CASE d = c
    BY <2>1, <2>2, <2>3, <1>1, <1>t DEF CallerOK
  <2>4. ASSUME d # c, caller[d].pc = "holding" PROVE conn'[caller[d].conn] = conn[caller[d].conn]
    <3>1. caller[d].conn \in Ids
      BY <2>1, <2>4 DEF CallerOK, CallerRec
    <3> QED BY <3>1, <2>4 DEF Thinned, Holds
  <2> QED BY <2>1, <2>2, <2>3, <2>4, <1>1 DEF CallerOK
<1>5. Distinct'
  <2>1. \A k \in Ids : conn'[k].for \in Callers => conn'[k] = conn[k]
    BY NoConnRec, PoolAssumption DEF Thinned
  <2>2. ASSUME NEW i \in Ids, NEW k \in Ids, conn'[i].for \in Callers, conn'[i].for = conn'[k].for
        PROVE  i = k
    <3>1. conn'[i] = conn[i] /\ conn'[k] = conn[k]
      BY <2>1, <2>2
    <3> QED BY <2>2, <3>1, <1>s DEF Shape, Distinct
  <2>3. ASSUME NEW d \in Callers, NEW e \in Callers,
               caller'[d].conn # None, caller'[d].conn = caller'[e].conn
        PROVE  d = e
    <3>1. caller'[d] = caller[d] /\ caller'[e] = caller[e]
      BY <2>3, <1>1
    <3> QED BY <2>3, <3>1, <1>s DEF Shape, Distinct
  <2> QED BY <2>2, <2>3 DEF Distinct
<1>6. WarmupOK'
  <2>1. \A k \in Ids : conn'[k] = conn[k] \/ (conn'[k].for = None /\ conn'[k].status = "none")
    BY NoConnRec DEF Thinned
  <2>2. None \notin {"warmup", "stray"}
    BY NoneDistinct
  <2> QED BY <2>1, <2>2, <1>s, <1>1 DEF Shape, WarmupOK
<1>7. QueueOK'
  BY <1>s DEF Shape, QueueOK
<1>8. NoNeedlessWait'
  <2>1. \A k \in Pooled' : k \in Pooled /\ k \in Ids /\ conn'[k] = conn[k]
    BY <1>n DEF Thinned, Pooled
  <2>2. CASE p = "waiting"
    BY <2>1, <2>2 DEF NoNeedlessWait, Free, Pooled
  <2>3. CASE p # "waiting"
    <3>1. waitQueue' # <<>> => waitQueue # <<>>
      BY <2>3
    <3> QED BY <2>1, <3>1, <1>s DEF Shape, NoNeedlessWait, Free, Pooled
  <2> QED BY <2>2, <2>3
<1>9. CloseLeavesInflightOnly'
  BY <1>s, NoConnRec DEF Shape, CloseLeavesInflightOnly, Open, Connecting, Thinned
<1>10. PoolBounded'
  <2>1. Counted' \subseteq Counted
    BY <1>n, NoConnRec DEF Counted, Pooled, Connecting, Stray, Thinned
  <2> QED BY <1>s, <1>t, <2>1, BoundShrinks
<1> QED BY <1>2, <1>3, <1>4, <1>5, <1>6, <1>7, <1>8, <1>9, <1>10, InvShape DEF Shape

(* A connection is opened, for c or in place of the one c gave back.       *)
LEMMA OpenKeeps ==
  ASSUME PoolInv, NEW c \in Callers, caller[c].pc \notin {"connecting", "waiting"},
         NEW f \in {c, "replace"}, closed = "no", initialized,
         caller' = [caller EXCEPT ![c] = [pc |-> IF f = c THEN "connecting" ELSE "idle", conn |-> None]],
         NEW cs, NEW known, Thinned(c, cs, known), connections' = cs, Room(cs),
         NEW new \in Ids, known[new].status = "none", conn' = [known EXCEPT ![new] = Opening(f)],
         UNCHANGED <<waitQueue, initialized, warming, closed, inflight, strayed>>
  PROVE  PoolInv'
<1>s. Shape /\ PoolBounded
  BY InvShape
<1>t. Tables
  BY <1>s DEF Shape
<1>n. Pooled \subseteq Ids
  BY <1>t, CountedFinite
<1>0. f = c => f # "replace"
  BY PoolAssumption
<1>1. /\ \A d \in Callers : d # c => caller'[d] = caller[d]
      /\ caller'[c].pc = (IF f = c THEN "connecting" ELSE "idle") /\ caller'[c].conn = None
      /\ caller' \in [Callers -> CallerRec]
  BY <1>t DEF Tables, CallerRec
<1>a. /\ \A k \in Ids : k # new => conn'[k] = known[k]
      /\ conn'[new].status = "connecting" /\ conn'[new].for = f /\ ~conn'[new].inUse
      /\ conn' \in [Ids -> ConnRec]
  BY DEF Opening, NoConn, ConnRec, Thinned
<1>b. new \notin ToSet(cs) /\ \A d \in Callers \ {c} : ~Holds(d, new)
  <2>1. CASE known[new] = conn[new]
    <3>1. conn[new].status = "none" /\ new \notin Pooled
      BY <2>1, <1>s DEF Shape, ConnOK, Pooled
    <3> QED BY <3>1, <1>s DEF Shape, CallerOK, Holds, Thinned
  <2>2. CASE known[new] # conn[new]
    BY <2>2 DEF Thinned
  <2> QED BY <2>1, <2>2
<1>2. Tables'
  <2>1. Waiting' = Waiting
    BY <1>1 DEF Waiting
  <2> QED BY <1>t, <1>1, <1>a, <2>1 DEF Tables, Thinned
<1>3. ASSUME NEW k \in Ids PROVE ConnOK(k)'
  <2>1. ConnOK(k)
    BY <1>s DEF Shape
  <2>2. CASE k = new
    <3>1. f # None
      BY PoolAssumption, NoneDistinct
    <3> QED BY <2>2, <3>1, <1>a, <1>b DEF ConnOK
  <2>3. CASE k # new /\ known[k] = conn[k]
    BY <2>1, <2>3, <1>a DEF ConnOK, Thinned, Pooled
  <2>4. CASE k # new /\ known[k] = NoConn /\ k \notin ToSet(cs)
    BY <2>4, <1>a, NoConnRec DEF ConnOK
  <2> QED BY <2>2, <2>3, <2>4 DEF Thinned
<1>4. ASSUME NEW d \in Callers PROVE CallerOK(d)'
  <2>1. CallerOK(d) /\ caller \in [Callers -> CallerRec]
    BY <1>s, <1>t DEF Shape, Tables
  <2>2. \A k \in Ids : conn'[k].for = d => conn[k].for = d \/ (d = c /\ f = c)
    BY <1>a, NoConnRec, PoolAssumption DEF Thinned
  <2>3. CASE d = c
    BY <2>1, <2>2, <2>3, <1>1, <1>t DEF CallerOK
  <2>4. ASSUME d # c, caller[d].pc = "holding" PROVE conn'[caller[d].conn] = conn[caller[d].conn]
    <3>1. caller[d].conn \in Ids /\ caller[d].conn # new
      BY <2>1, <2>4, <1>b DEF CallerOK, CallerRec, Holds
    <3> QED BY <3>1, <2>4, <1>a DEF Thinned, Holds
  <2> QED BY <2>1, <2>2, <2>3, <2>4, <1>1 DEF CallerOK
<1>5. Distinct'
  <2>1. \A k \in Ids \ {new} : conn'[k].for \in Callers => conn'[k] = conn[k]
    BY <1>a, NoConnRec, PoolAssumption DEF Thinned
  <2>2. \A k \in Ids : conn[k].for # c
    BY <1>s DEF Shape, CallerOK
  <2>3. "replace" \notin Callers
    BY PoolAssumption
  <2> QED BY <2>1, <2>2, <2>3, <1>a, <1>s, <1>1 DEF Shape, Distinct
<1>6. WarmupOK'
  <2>1. \A k \in Ids \ {new} :
          conn'[k] = conn[k] \/ (conn'[k].for = None /\ conn'[k].status = "none")
    BY <1>a, NoConnRec DEF Thinned
  <2>2. None \notin {"warmup", "stray"} /\ f \notin {"warmup", "stray"}
    BY NoneDistinct, PoolAssumption
  <2> QED BY <2>1, <2>2, <1>a, <1>s, <1>1 DEF Shape, WarmupOK
<1>7. QueueOK'
  BY <1>s DEF Shape, QueueOK
<1>8. NoNeedlessWait'
  <2>1. \A k \in Pooled' : k \in Pooled /\ k \in Ids /\ conn'[k] = conn[k]
    BY <1>n, <1>a, <1>b DEF Thinned, Pooled
  <2> QED BY <2>1, <1>s DEF Shape, NoNeedlessWait, Free, Pooled
<1>9. CloseLeavesInflightOnly'
  BY DEF CloseLeavesInflightOnly
<1>10. PoolBounded'
  <2>1. \A k \in Ids : conn[k].for # "warmup"
    BY <1>s DEF Shape, WarmupOK
  <2>2. ASSUME NEW k \in Counted', k # new, k \notin ToSet(cs) PROVE k \in Pending
    <3>1. k \in Ids /\ conn'[k].status = "connecting" /\ conn'[k].for # "stray"
      BY <2>2 DEF Counted, Pooled, Connecting, Stray
    <3>2. conn'[k] = conn[k]
      BY <2>2, <3>1, <1>a, NoConnRec DEF Thinned
    <3> QED BY <2>1, <3>1, <3>2 DEF Pending, Connecting
  <2>3. Counted' \subseteq (ToSet(cs) \cup Pending) \cup {new}
    BY <2>2
  <2> QED BY <1>t, <2>3, BoundGrows DEF Thinned
<1> QED BY <1>2, <1>3, <1>4, <1>5, <1>6, <1>7, <1>8, <1>9, <1>10, InvShape DEF Shape

----------------------------------------------------------------------------
(* _doAcquire.                                                             *)
LEMMA LeastOf ==
  ASSUME NEW A \in SUBSET Nat, A # {}
  PROVE  \E k \in A : \A h \in A : k <= h
<1>1. PICK k \in A : \A h \in A : ~(<<h, k>> \in OpToRel(<, Nat))
  BY NatLessThanWellFounded, WFMin, Zenon
<1>2. \A h \in A : ~(h < k)
  BY <1>1 DEF OpToRel
<1> QED BY <1>2

LEMMA FirstOfFinds ==
  ASSUME Tables
  PROVE  LET i == FirstOf(connections) IN
         /\ i = None => \A k \in Pooled : ~Dead(k) /\ ~Free(k)
         /\ i # None => i \in Pooled /\ i \in Ids /\ (Dead(i) \/ Free(i))
<1> DEFINE hits == {k \in DOMAIN connections : Dead(connections[k]) \/ Free(connections[k])}
<1>0. /\ DOMAIN connections = 1..Len(connections) /\ Pooled = Elements(connections)
      /\ Pooled \subseteq Ids
  BY SetOfSeq DEF Tables, Pooled
<1>1. CASE hits = {}
  <2>1. FirstOf(connections) = None
    BY <1>1 DEF FirstOf
  <2> QED BY <1>0, <1>1, <2>1 DEF Elements
<1>2. CASE hits # {}
  <2>1. hits \subseteq Nat
    BY <1>0
  <2>2. PICK k \in hits : FirstOf(connections) = connections[k]
    <3> DEFINE k == CHOOSE k \in hits : \A h \in hits : k <= h
    <3>1. \E k0 \in hits : \A h \in hits : k0 <= h
      BY <1>2, <2>1, LeastOf
    <3>2. k \in hits
      BY <3>1
    <3> QED BY <1>2, <3>2 DEF FirstOf
  <2>3. connections[k] \in Pooled /\ connections[k] \in Ids
    BY <1>0 DEF Elements
  <2>4. connections[k] # None
    BY <2>3, PoolAssumption
  <2> QED BY <2>2, <2>3, <2>4
<1> QED BY <1>1, <1>2

(* Without strays the connections that count are the pooled and the        *)
(* pending ones, so that a place is free once a dead one is removed.       *)
LEMMA RoomAfterRemoval ==
  ASSUME PoolInv, closed = "no", initialized, ~strayed, NEW i \in Pooled
  PROVE  Room(Without(connections, i))
<1>s. Shape /\ PoolBounded
  BY InvShape
<1>t. Tables
  BY <1>s DEF Shape
<1>1. Contains(connections, i) /\ Pooled \subseteq Ids /\ connections \in Seq(Ids) /\ IsInjective(connections)
  BY <1>t, SetOfSeq DEF Tables, Pooled
<1>2. Len(Without(connections, i)) = Len(connections) - 1
  BY <1>1, Removing
<1>3. /\ IsFiniteSet(Pooled) /\ Cardinality(Pooled) = Len(connections)
      /\ IsFiniteSet(Pending) /\ IsFiniteSet(Counted)
  BY <1>1, <1>t, Counting, CountedFinite DEF Pooled
<1>4. Pooled \cap Pending = {}
  BY <1>s, <1>1 DEF Shape, ConnOK, Pooled, Pending, Connecting
<1>5. Pooled \cup Pending \subseteq Counted
  <2>1. \A k \in Ids : conn[k].for # "stray"
    BY <1>s DEF Shape, WarmupOK
  <2> QED BY <2>1, <1>1 DEF Counted, Pending, Connecting, Stray
<1>6. /\ IsFiniteSet(Pooled \cup Pending)
      /\ Cardinality(Pooled \cup Pending) = Cardinality(Pooled) + Cardinality(Pending) - Cardinality({})
  BY <1>3, <1>4, FS_Union
<1>7. Cardinality(Pooled \cup Pending) <= Cardinality(Counted)
  BY <1>3, <1>5, FS_Subset
<1>8. Cardinality(Counted) <= maxConnections
  BY <1>s DEF PoolBounded, Counted, Pooled
<1>9. /\ Cardinality({}) = 0 /\ Cardinality(Counted) \in Nat /\ Cardinality(Pending) \in Nat
      /\ Len(connections) \in Nat
  BY <1>1, <1>3, FS_EmptySet, FS_CardinalityType
<1> QED BY <1>2, <1>3, <1>6, <1>7, <1>8, <1>9, PoolAssumption DEF Room

LEMMA NextIdSpare ==
  ASSUME NEW known, Spare(known) # {}
  PROVE  NextId(known) \in Ids /\ known[NextId(known)].status = "none"
<1>1. NextId(known) \in Spare(known)
  BY DEF NextId
<1> QED BY <1>1 DEF Spare

LEMMA OpenOrWaitKeeps ==
  ASSUME PoolInv, NEW c \in Callers, caller[c].pc \in {"idle", "warming"},
         closed = "no", initialized, NEW cs, NEW known, Thinned(c, cs, known),
         connections' = cs, OpenOrWait(c, cs, known),
         ~Room(cs) => strayed \/ \A k \in ToSet(cs) : ~Free(k),
         UNCHANGED <<initialized, warming, closed, inflight, strayed>>
  PROVE  PoolInv'
<1>t. Tables
  BY InvShape DEF Shape
<1>q. /\ waitQueue \in Seq(Callers) /\ IsInjective(waitQueue) /\ Len(waitQueue) <= MAX_WAIT
      /\ ToSet(waitQueue) = Waiting /\ c \notin Waiting /\ Len(waitQueue) \in Nat
  BY <1>t DEF Tables, Waiting
<1>1. CASE Room(cs)
  <2>1. /\ Spare(known) # {} /\ conn' = [known EXCEPT ![NextId(known)] = Opening(c)]
        /\ caller' = [caller EXCEPT ![c] = [pc |-> "connecting", conn |-> None]]
        /\ waitQueue' = waitQueue
    BY <1>1 DEF OpenOrWait
  <2> DEFINE f == c
  <2>2. caller' = [caller EXCEPT ![c] = [pc |-> IF c = c THEN "connecting" ELSE "idle", conn |-> None]]
    BY <2>1
  <2> QED BY <1>1, <2>1, <2>2, NextIdSpare, OpenKeeps
<1>2. CASE ~Room(cs) /\ Len(waitQueue) >= MAX_WAIT
  <2>1. /\ conn' = known /\ waitQueue' = waitQueue
        /\ caller' = [caller EXCEPT ![c] = [pc |-> "idle", conn |-> None]]
    BY <1>2 DEF OpenOrWait, Away
  <2> DEFINE p == "idle"
  <2>2. ToSet(waitQueue') = (Waiting \ {c}) \cup (IF p = "waiting" THEN {c} ELSE {})
    BY <1>q, <2>1
  <2> QED BY <1>q, <2>1, <2>2, LeaveKeeps
<1>3. CASE ~Room(cs) /\ ~(Len(waitQueue) >= MAX_WAIT)
  <2>1. /\ conn' = known /\ waitQueue' = Append(waitQueue, c)
        /\ caller' = [caller EXCEPT ![c] = [pc |-> "waiting", conn |-> None]]
    BY <1>3 DEF OpenOrWait
  <2>2. /\ waitQueue' \in Seq(Callers) /\ IsInjective(waitQueue')
        /\ ToSet(waitQueue') = Waiting \cup {c} /\ Len(waitQueue') = Len(waitQueue) + 1
    BY <1>q, <2>1, Adding
  <2>3. Len(waitQueue') <= MAX_WAIT
    BY <1>3, <1>q, <2>2, PoolAssumption
  <2> DEFINE p == "waiting"
  <2>4. ToSet(waitQueue') = (Waiting \ {c}) \cup (IF p = "waiting" THEN {c} ELSE {})
    BY <1>q, <2>2
  <2> QED BY <1>3, <2>1, <2>2, <2>3, <2>4, LeaveKeeps
<1> QED BY <1>1, <1>2, <1>3

----------------------------------------------------------------------------
(* A connection changes hands: an acquire takes it, a release gives it     *)
(* back or on, or it has just been opened.                                 *)
Joins(i) == i \in Connecting /\ conn[i].for # "warmup" /\ connections' = Append(connections, i)

Handed(i, r) ==
  /\ r \in ConnRec /\ conn' = [conn EXCEPT ![i] = r]
  /\ \/ connections' = connections /\ i \in Pooled /\ r.status = conn[i].status /\ r.for = conn[i].for
     \/ Joins(i) /\ r.status = "ready" /\ r.for = IF conn[i].for = "stray" THEN "stray" ELSE None
  /\ (r.status = "query" /\ ~r.inUse) => r.late
  /\ caller' \in [Callers -> CallerRec] /\ (initialized \/ caller' = caller)
  /\ \A d \in Callers :
       \/ caller'[d] = caller[d] /\ caller[d].conn # i /\ conn[i].for # d
       \/ caller'[d].pc = "idle" /\ caller'[d].conn = None /\ caller[d].conn = i
       \/ /\ caller'[d].pc = "holding" /\ caller'[d].conn = i /\ r.inUse
          /\ caller[d].pc \in {"idle", "warming", "waiting"} \/ conn[i].for = d
  /\ \A d, e \in Callers : caller'[d].conn = i /\ caller'[e].conn = i => d = e
  /\ waitQueue' \in Seq(Callers) /\ IsInjective(waitQueue') /\ Len(waitQueue') <= MAX_WAIT
  /\ ToSet(waitQueue') = Waiting' /\ (waitQueue' # <<>> => waitQueue # <<>>)
  /\ r.late \/ r.inUse \/ waitQueue' = <<>>
  /\ UNCHANGED <<initialized, warming, closed, inflight, strayed>>

LEMMA HandedKeeps ==
  ASSUME PoolInv, NEW i \in Ids, NEW r, Handed(i, r)
  PROVE  PoolInv'
<1>s. Shape /\ PoolBounded
  BY InvShape
<1>t. Tables
  BY <1>s DEF Shape
<1>n. Pooled \subseteq Ids
  BY <1>t, CountedFinite
<1>0. /\ connections' \in Seq(Ids) /\ IsInjective(connections')
      /\ Pooled' = Pooled \cup {i}
  <2>1. CASE connections' = connections /\ i \in Pooled
    BY <2>1, <1>t DEF Tables, Pooled
  <2>2. CASE Joins(i)
    <3>1. i \notin ToSet(connections)
      BY <2>2, <1>s DEF Joins, Connecting, Shape, ConnOK
    <3> QED BY <2>2, <3>1, <1>t, Adding DEF Joins, Tables, Pooled
  <2> QED BY <2>1, <2>2 DEF Handed
<1>1. /\ conn' \in [Ids -> ConnRec] /\ conn'[i] = r
      /\ \A k \in Ids : k # i => conn'[k] = conn[k]
  BY <1>t DEF Tables, Handed
<1>2. Tables'
  BY <1>t, <1>0, <1>1 DEF Tables, Handed
<1>a. /\ conn[i].status \in {"connecting", "ready", "query", "closed"}
      /\ r.status \in {"ready", "query", "closed"} /\ r.for \in {None, "warmup", "stray"}
      /\ r.for = "warmup" => conn[i].for = "warmup"
      /\ r.for = "stray" <=> conn[i].for = "stray"
  BY <1>s, <1>n, NoneDistinct DEF Handed, Joins, Connecting, Shape, ConnOK, Pooled
<1>3. ASSUME NEW k \in Ids PROVE ConnOK(k)'
  <2>1. ConnOK(k)
    BY <1>s DEF Shape
  <2>2. CASE k = i
    BY <2>2, <1>0, <1>1, <1>a DEF ConnOK, Handed, Pooled
  <2>3. CASE k # i
    BY <2>1, <2>3, <1>0, <1>1 DEF ConnOK, Handed, Pooled
  <2> QED BY <2>2, <2>3
<1>4. ASSUME NEW d \in Callers PROVE CallerOK(d)'
  <2>1. CallerOK(d) /\ caller \in [Callers -> CallerRec]
    BY <1>s, <1>t DEF Shape, Tables
  <2>2. \A k \in Ids : conn'[k].for = d => k # i /\ conn[k].for = d
    BY <1>1, <1>a, PoolAssumption
  <2>3. CASE caller'[d] = caller[d] /\ caller[d].conn # i
    BY <2>1, <2>2, <2>3, <1>1 DEF CallerOK, CallerRec
  <2>4. CASE caller'[d].pc = "idle" /\ caller'[d].conn = None /\ caller[d].conn = i
    BY <2>1, <2>2, <2>4, PoolAssumption DEF CallerOK
  <2>5. CASE /\ caller'[d].pc = "holding" /\ caller'[d].conn = i /\ r.inUse
             /\ caller[d].pc \in {"idle", "warming", "waiting"} \/ conn[i].for = d
    <3>1. \A k \in Ids : conn'[k].for # d
      BY <2>1, <2>2, <2>5, <1>s DEF CallerOK, Shape, Distinct
    <3> QED BY <3>1, <2>5, <1>1, <1>a, PoolAssumption DEF CallerOK
  <2> QED BY <2>3, <2>4, <2>5 DEF Handed
<1>5. Distinct'
  <2>1. ASSUME NEW k \in Ids, NEW h \in Ids, conn'[k].for \in Callers, conn'[k].for = conn'[h].for
        PROVE  k = h
    <3>1. k # i /\ h # i
      BY <2>1, <1>1, <1>a, PoolAssumption
    <3> QED BY <2>1, <3>1, <1>1, <1>s DEF Shape, Distinct
  <2>2. ASSUME NEW d \in Callers, NEW e \in Callers,
               caller'[d].conn # None, caller'[d].conn = caller'[e].conn
        PROVE  d = e
    <3>1. CASE caller'[d].conn = i
      BY <2>2, <3>1 DEF Handed
    <3>2. CASE caller'[d].conn # i
      <4>1. caller'[d] = caller[d] /\ caller'[e] = caller[e]
        BY <2>2, <3>2 DEF Handed
      <4> QED BY <2>2, <4>1, <1>s DEF Shape, Distinct
    <3> QED BY <3>1, <3>2
  <2> QED BY <2>1, <2>2 DEF Distinct
<1>6. WarmupOK'
  <2>1. \A k \in Ids : (conn'[k].for = "warmup" => conn[k].for = "warmup")
                    /\ (conn'[k].for = "stray" => conn[k].for = "stray")
    BY <1>1, <1>a
  <2>2. ~initialized => \A k \in Ids : conn'[k].status # "none" => conn'[k].for \in {"warmup", "stray"}
    <3>1. ~initialized => conn[i].for \in {"warmup", "stray"}
      BY <1>s, <1>a DEF Shape, WarmupOK
    <3>2. ~initialized => r.for \in {"warmup", "stray"}
      BY <3>1, <1>a DEF Handed, Joins
    <3> QED BY <3>2, <1>1, <1>s DEF Shape, WarmupOK
  <2> QED BY <2>1, <2>2, <1>s DEF Shape, WarmupOK, Handed
<1>7. QueueOK'
  BY <1>s DEF Shape, QueueOK, Handed
<1>8. NoNeedlessWait'
  <2> SUFFICES ASSUME waitQueue' # <<>>, ~strayed', NEW k \in Pooled', Free(k)'
               PROVE  conn'[k].late
    BY DEF NoNeedlessWait, Pooled
  <2>1. CASE k = i
    BY <2>1, <1>1 DEF Handed, Free
  <2>2. CASE k # i
    <3>1. k \in Pooled /\ k \in Ids /\ conn'[k] = conn[k]
      BY <2>2, <1>0, <1>1, <1>n
    <3> QED BY <3>1, <1>s DEF Shape, NoNeedlessWait, Handed, Free, Pooled
  <2> QED BY <2>1, <2>2
<1>9. CloseLeavesInflightOnly'
  <2> SUFFICES ASSUME closed # "no", NEW k \in Open' \cup Connecting' PROVE k \in inflight
    BY DEF CloseLeavesInflightOnly, Handed
  <2>1. Open \cup Connecting \subseteq inflight
    BY <1>s DEF Shape, CloseLeavesInflightOnly
  <2>2. CASE k # i
    BY <2>1, <2>2, <1>1 DEF Open, Connecting
  <2>3. CASE k = i
    <3>1. i \in Open \cup Connecting
      BY <2>3, <1>1 DEF Handed, Joins, Open, Connecting
    <3> QED BY <2>1, <2>3, <3>1
  <2> QED BY <2>2, <2>3
<1>10. PoolBounded'
  <2>1. ASSUME NEW k \in Counted' PROVE k \in Counted
    <3>1. CASE k = i
      <4>1. i \in Pooled \cup Connecting
        BY DEF Handed, Joins
      <4> QED BY <2>1, <3>1, <4>1, <1>1, <1>a DEF Counted, Stray
    <3>2. CASE k # i
      BY <2>1, <3>2, <1>0, <1>1, <1>n DEF Counted, Connecting, Stray
    <3> QED BY <3>1, <3>2
  <2>2. closed' = closed
    BY DEF Handed
  <2> QED BY <1>s, <1>t, <2>1, <2>2, BoundShrinks
<1> QED BY <1>2, <1>3, <1>4, <1>5, <1>6, <1>7, <1>8, <1>9, <1>10, InvShape DEF Shape

(* A connection that is not in use, or not open, is held by nobody.        *)
LEMMA NobodyHolds ==
  ASSUME Shape, NEW i \in Ids,
         ~conn[i].inUse \/ conn[i].status \notin {"ready", "query", "closed"}
  PROVE  \A d \in Callers : caller[d].conn # i
<1> SUFFICES ASSUME NEW d \in Callers, caller[d].conn = i PROVE FALSE
  OBVIOUS
<1>1. caller[d].conn # None
  BY PoolAssumption
<1> QED BY <1>1 DEF Shape, CallerOK

LEMMA UnchangedThinned ==
  ASSUME Tables, NEW c PROVE Thinned(c, connections, conn)
  BY DEF Tables, Thinned, Pooled

LEMMA RemovedThinned ==
  ASSUME Tables, NEW c, NEW i \in Pooled, conn[i].status = "closed", NEW known,
         \/ known = conn
         \/ known = [conn EXCEPT ![i] = NoConn] /\ \A d \in Callers \ {c} : caller[d].conn # i
  PROVE  Thinned(c, Without(connections, i), known)
<1>1. Contains(connections, i) /\ i \in Ids /\ connections \in Seq(Ids) /\ IsInjective(connections)
  BY SetOfSeq DEF Tables, Pooled
<1>2. LET cs == Without(connections, i) IN
      cs \in Seq(Ids) /\ IsInjective(cs) /\ ToSet(cs) = Pooled \ {i}
  BY <1>1, Removing DEF Pooled
<1>3. known \in [Ids -> ConnRec] /\ \A k \in Ids : k # i => known[k] = conn[k]
  BY NoConnRec DEF Tables
<1>4. \/ known[i] = conn[i]
      \/ known[i] = NoConn /\ \A d \in Callers \ {c} : ~Holds(d, i)
  BY <1>1 DEF Tables, Holds
<1> QED BY <1>1, <1>2, <1>3, <1>4 DEF Thinned

LEMMA AcquireKeeps ==
  ASSUME PoolInv, NEW c \in Callers, caller[c].pc \in {"idle", "warming"}, initialized, doAcquire(c),
         UNCHANGED <<initialized, warming, closed, inflight, strayed>>
  PROVE  PoolInv'
<1>s. Shape /\ PoolBounded
  BY InvShape
<1>t. Tables
  BY <1>s DEF Shape
<1> DEFINE i == FirstOf(connections)
<1>i. /\ i = None => \A k \in Pooled : ~Dead(k) /\ ~Free(k)
      /\ i # None => i \in Pooled /\ i \in Ids /\ (Dead(i) \/ Free(i))
  BY <1>t, FirstOfFinds
<1>1. CASE closed # "no"
  <2>1. /\ caller' = [caller EXCEPT ![c] = [pc |-> "idle", conn |-> None]]
        /\ UNCHANGED <<connections, conn, waitQueue>>
    BY <1>1 DEF doAcquire, Away
  <2> DEFINE p == "idle"
  <2>2. /\ waitQueue' \in Seq(Callers) /\ IsInjective(waitQueue') /\ Len(waitQueue') <= MAX_WAIT
        /\ ToSet(waitQueue') = (Waiting \ {c}) \cup (IF p = "waiting" THEN {c} ELSE {})
    BY <1>t, <2>1 DEF Tables, Waiting
  <2> QED BY <1>t, <2>1, <2>2, UnchangedThinned, LeaveKeeps
<1>2. CASE closed = "no" /\ i = None
  <2>1. OpenOrWait(c, connections, conn) /\ connections' = connections
    BY <1>2 DEF doAcquire
  <2>2. \A k \in ToSet(connections) : ~Free(k)
    BY <1>i, <1>2 DEF Pooled
  <2> QED BY <1>2, <1>t, <2>1, <2>2, UnchangedThinned, OpenOrWaitKeeps
<1>3. CASE closed = "no" /\ i # None /\ Dead(i)
  <2> DEFINE cs == Without(connections, i)
  <2>1. OpenOrWait(c, cs, Forget(i)) /\ connections' = cs
    BY <1>3 DEF doAcquire
  <2>2. \/ Forget(i) = conn
        \/ Forget(i) = [conn EXCEPT ![i] = NoConn] /\ \A d \in Callers \ {c} : caller[d].conn # i
    BY DEF Forget
  <2> HIDE DEF i
  <2>3. Thinned(c, cs, Forget(i))
    BY <1>t, <1>i, <1>3, <2>2, RemovedThinned DEF Dead
  <2>4. ~Room(cs) => strayed
    BY <1>i, <1>3, RoomAfterRemoval
  <2> HIDE DEF cs
  <2> QED BY <1>3, <2>1, <2>3, <2>4, OpenOrWaitKeeps
<1>4. CASE closed = "no" /\ i # None /\ ~Dead(i)
  <2>1. TakeFree(c, i)
    BY <1>4 DEF doAcquire
  <2> HIDE DEF i
  <2> DEFINE r == [conn[i] EXCEPT !.inUse = TRUE, !.late = FALSE]
  <2>2. i \in Pooled /\ i \in Ids /\ conn[i].status = "ready" /\ ~conn[i].inUse
    BY <1>i, <1>4 DEF Free
  <2>3. r \in ConnRec /\ conn' = [conn EXCEPT ![i] = r] /\ r.status = conn[i].status /\ r.for = conn[i].for /\ r.inUse
    BY <1>t, <2>1, <2>2 DEF TakeFree, Tables, ConnRec
  <2> HIDE DEF r
  <2>4. /\ caller' \in [Callers -> CallerRec] /\ caller'[c].pc = "holding" /\ caller'[c].conn = i
        /\ \A d \in Callers : d # c => caller'[d] = caller[d]
    BY <1>t, <2>1, <2>2 DEF TakeFree, Tables, CallerRec
  <2>5. \A d \in Callers : caller[d].conn # i /\ conn[i].for # d
    BY <1>s, <2>2, NobodyHolds, PoolAssumption DEF Shape, ConnOK
  <2>6. Waiting' = Waiting
    BY <2>4 DEF Waiting
  <2>7. UNCHANGED <<connections, waitQueue>>
    BY <2>1 DEF TakeFree
  <2>8. Handed(i, r)
    BY <1>t, <2>2, <2>3, <2>4, <2>5, <2>6, <2>7 DEF Handed, Tables
  <2> QED BY <2>2, <2>8, HandedKeeps
<1> QED BY <1>1, <1>2, <1>3, <1>4

(* release.                                                                *)
LEMMA ServeKeeps ==
  ASSUME PoolInv, NEW i \in Ids, NEW served \in ConnRec, NEW callers \in [Callers -> CallerRec],
         Serve(i, served, callers), served.status = "ready", initialized,
         \/ connections' = connections /\ i \in Pooled /\ conn[i].status = "ready" /\ served.for = conn[i].for
         \/ Joins(i) /\ served.for = None /\ conn[i].for = "replace",
         \A d \in Callers :
            \/ callers[d] = caller[d] /\ caller[d].conn # i
            \/ callers[d].pc = "idle" /\ callers[d].conn = None /\ caller[d].conn = i,
         UNCHANGED <<initialized, warming, closed, inflight, strayed>>
  PROVE  PoolInv'
<1>s. Shape /\ PoolBounded
  BY InvShape
<1>t. Tables
  BY <1>s DEF Shape
<1>f. \A d \in Callers : conn[i].for # d
  BY <1>s, PoolAssumption DEF Shape, ConnOK
<1>w. \A d \in Callers : callers[d].pc = "waiting" <=> d \in Waiting
  <2>1. \A d \in Callers : caller[d].conn = i => caller[d].pc = "holding"
    BY <1>s, PoolAssumption DEF Shape, CallerOK
  <2> QED BY <2>1 DEF Waiting
<1>c. \A d \in Callers : callers[d].conn # i
  BY PoolAssumption
<1>1. CASE waitQueue = <<>>
  <2> DEFINE r == [served EXCEPT !.inUse = FALSE]
  <2>1. conn' = [conn EXCEPT ![i] = r] /\ caller' = callers /\ waitQueue' = waitQueue
    BY <1>1 DEF Serve
  <2>2. r \in ConnRec /\ r.status = "ready" /\ r.for = served.for
    BY DEF ConnRec
  <2> HIDE DEF r
  <2>3. Waiting' = Waiting
    BY <1>w, <2>1 DEF Waiting
  <2>4. Handed(i, r)
    BY <1>t, <1>f, <1>c, <1>1, <2>1, <2>2, <2>3 DEF Handed, Tables
  <2> QED BY <2>4, HandedKeeps
<1>2. CASE waitQueue # <<>>
  <2> DEFINE r == [served EXCEPT !.inUse = TRUE]
             w == Head(waitQueue)
  <2>1. /\ conn' = [conn EXCEPT ![i] = r] /\ waitQueue' = Tail(waitQueue)
        /\ caller' = [callers EXCEPT ![w] = [pc |-> "holding", conn |-> i]]
    BY <1>2 DEF Serve
  <2>2. r \in ConnRec /\ r.status = "ready" /\ r.for = served.for /\ r.inUse
    BY DEF ConnRec
  <2>3. /\ w \in Waiting /\ Tail(waitQueue) \in Seq(Callers) /\ IsInjective(Tail(waitQueue))
        /\ ToSet(Tail(waitQueue)) = Waiting \ {w} /\ Len(Tail(waitQueue)) = Len(waitQueue) - 1
        /\ Len(waitQueue) \in Nat
    BY <1>t, <1>2, Shifting DEF Tables
  <2> HIDE DEF r, w
  <2>4. /\ w \in Callers /\ caller[w].pc = "waiting" /\ caller' \in [Callers -> CallerRec]
        /\ caller'[w].pc = "holding" /\ caller'[w].conn = i
        /\ \A d \in Callers : d # w => caller'[d] = callers[d]
    BY <2>1, <2>3 DEF Waiting, CallerRec
  <2>5. Waiting' = Waiting \ {w}
    BY <1>w, <2>4 DEF Waiting
  <2>6. Len(waitQueue') <= MAX_WAIT
    BY <1>t, <2>1, <2>3, PoolAssumption DEF Tables
  <2>7. Handed(i, r)
    BY <1>f, <1>c, <1>2, <2>1, <2>2, <2>3, <2>4, <2>5, <2>6 DEF Handed
  <2> QED BY <2>7, HandedKeeps
<1> QED BY <1>1, <1>2

LEMMA ReleaseKeeps ==
  ASSUME PoolInv, NEW c \in Callers, Release(c)
  PROVE  PoolInv'
<1> DEFINE i == caller[c].conn
           away == [caller EXCEPT ![c] = Away]
           cs == Without(connections, i)
<1>s. Shape /\ PoolBounded
  BY InvShape
<1>t. Tables
  BY <1>s DEF Shape
<1>u. UNCHANGED <<initialized, warming, closed, inflight, strayed>>
  BY DEF Release
<1>i. /\ caller[c].pc = "holding" /\ i \in Ids /\ conn[i].inUse
      /\ conn[i].status \in {"ready", "query", "closed"} /\ initialized
  BY <1>s, <1>t DEF Release, Shape, CallerOK, Tables, CallerRec, WarmupOK
<1>p. Contains(connections, i) <=> i \in Pooled
  BY <1>t, SetOfSeq DEF Tables, Pooled
<1>h. \A d \in Callers \ {c} : caller[d].conn # i
  BY <1>s, <1>i, PoolAssumption DEF Shape, Distinct
<1>a. /\ away = [caller EXCEPT ![c] = [pc |-> "idle", conn |-> None]]
      /\ away \in [Callers -> CallerRec] /\ away[c].pc = "idle" /\ away[c].conn = None
      /\ \A d \in Callers : d # c => away[d] = caller[d]
  BY <1>t DEF Away, Tables, CallerRec
<1>q. /\ waitQueue \in Seq(Callers) /\ IsInjective(waitQueue) /\ Len(waitQueue) <= MAX_WAIT
      /\ ToSet(waitQueue) = (Waiting \ {c}) \cup (IF "idle" = "waiting" THEN {c} ELSE {})
  BY <1>t, <1>i DEF Tables, Waiting
<1> HIDE DEF i, away
<1>1. CASE ~Contains(connections, i) /\ caller' = away /\ UNCHANGED <<connections, waitQueue>>
           /\ conn' = IF Dead(i) THEN [conn EXCEPT ![i] = NoConn] ELSE conn
  <2>1. Thinned(c, connections, conn')
    <3>1. CASE ~Dead(i)
      BY <3>1, <1>1, <1>t, UnchangedThinned
    <3>2. CASE Dead(i)
      <4>1. /\ conn' \in [Ids -> ConnRec] /\ conn'[i] = NoConn /\ i \notin ToSet(connections)
            /\ \A k \in Ids : k # i => conn'[k] = conn[k]
        BY <3>2, <1>1, <1>t, <1>i, <1>p, NoConnRec DEF Tables, Pooled
      <4> QED BY <3>2, <4>1, <1>t, <1>h DEF Thinned, Tables, Pooled, Holds, Dead
    <3> QED BY <3>1, <3>2
  <2> QED BY <1>1, <1>a, <1>i, <1>q, <1>u, <2>1, LeaveKeeps
<1>2. CASE /\ Contains(connections, i) /\ Dead(i) /\ connections' = cs
           /\ conn' = Replacement(cs, [conn EXCEPT ![i] = NoConn])
           /\ caller' = away /\ waitQueue' = waitQueue
  <2> DEFINE known == [conn EXCEPT ![i] = NoConn]
  <2>1. Thinned(c, cs, known)
    BY <1>2, <1>t, <1>p, <1>h, RemovedThinned DEF Dead
  <2>2. Spare(known) # {}
    BY <1>i, <1>t, NoConnRec DEF Spare, Tables
  <2> HIDE DEF known, cs
  <2>3. conn' = IF closed = "no" /\ Room(cs) THEN [known EXCEPT ![NextId(known)] = Opening("replace")] ELSE known
    BY <1>2 DEF Replacement, known
  <2>4. CASE closed = "no" /\ Room(cs)
    <3>1. c # "replace"
      BY PoolAssumption
    <3>2. caller' = [caller EXCEPT ![c] = [pc |-> IF "replace" = c THEN "connecting" ELSE "idle", conn |-> None]]
      BY <1>2, <1>a, <3>1
    <3> QED BY <1>2, <1>i, <1>u, <2>1, <2>2, <2>3, <2>4, <3>2, NextIdSpare, OpenKeeps
  <2>5. CASE ~(closed = "no" /\ Room(cs))
    BY <1>2, <1>a, <1>i, <1>q, <1>u, <2>1, <2>3, <2>5, LeaveKeeps
  <2> QED BY <2>4, <2>5
<1>3. CASE /\ Contains(connections, i) /\ conn[i].status = "query"
           /\ conn' = [conn EXCEPT ![i].inUse = FALSE, ![i].late = TRUE]
           /\ caller' = away /\ UNCHANGED <<connections, waitQueue>>
  <2> DEFINE r == [conn[i] EXCEPT !.inUse = FALSE, !.late = TRUE]
  <2>1. r \in ConnRec /\ conn' = [conn EXCEPT ![i] = r] /\ r.status = conn[i].status /\ r.for = conn[i].for /\ r.late
    BY <1>t, <1>i, <1>3 DEF Tables, ConnRec
  <2> HIDE DEF r
  <2>2. \A d \in Callers : conn[i].for # d
    BY <1>s, <1>i, PoolAssumption DEF Shape, ConnOK
  <2>3. Waiting' = Waiting
    BY <1>3, <1>a, <1>i DEF Waiting
  <2>4. \A d, e \in Callers : caller'[d].conn = i /\ caller'[e].conn = i => d = e
    BY <1>3, <1>a, <1>h, <1>i, PoolAssumption
  <2>5. \A d \in Callers :
          \/ caller'[d] = caller[d] /\ caller[d].conn # i /\ conn[i].for # d
          \/ caller'[d].pc = "idle" /\ caller'[d].conn = None /\ caller[d].conn = i
    BY <1>3, <1>a, <1>h, <2>2 DEF i
  <2>6. Handed(i, r)
    BY <1>t, <1>a, <1>i, <1>p, <1>u, <1>3, <2>1, <2>3, <2>4, <2>5 DEF Handed, Tables
  <2> QED BY <1>i, <2>6, HandedKeeps
<1>4. CASE /\ Contains(connections, i) /\ conn[i].status = "ready"
           /\ Serve(i, conn[i], away) /\ connections' = connections
  <2>1. conn[i] \in ConnRec
    BY <1>t, <1>i DEF Tables
  <2>2. \A d \in Callers :
          \/ away[d] = caller[d] /\ caller[d].conn # i
          \/ away[d].pc = "idle" /\ away[d].conn = None /\ caller[d].conn = i
    BY <1>a, <1>h DEF i
  <2>3. /\ Serve(i, conn[i], away) /\ conn[i].status = "ready" /\ initialized /\ i \in Ids
        /\ away \in [Callers -> CallerRec]
    BY <1>a, <1>i, <1>4
  <2>4. \/ connections' = connections /\ i \in Pooled /\ conn[i].status = "ready" /\ conn[i].for = conn[i].for
        \/ Joins(i) /\ conn[i].for = None /\ conn[i].for = "replace"
    BY <1>p, <1>4
  <2> QED BY <1>u, <2>1, <2>2, <2>3, <2>4, ServeKeeps
<1> QED BY <1>1, <1>2, <1>3, <1>4 DEF Release, i, away

LEMMA TimeoutKeeps ==
  ASSUME PoolInv, NEW c \in Callers, AcquireTimeout(c)
  PROVE  PoolInv'
<1>t. Tables
  BY InvShape DEF Shape
<1>1. /\ caller' = [caller EXCEPT ![c] = [pc |-> "idle", conn |-> None]] /\ caller[c].pc = "waiting"
      /\ waitQueue' = Without(waitQueue, c)
      /\ UNCHANGED <<connections, conn, initialized, warming, closed, inflight, strayed>>
  BY DEF AcquireTimeout, Away
<1>2. c \in Waiting /\ Contains(waitQueue, c)
  <2>1. c \in Waiting
    BY <1>1 DEF Waiting
  <2> QED BY <2>1, <1>t, SetOfSeq DEF Tables
<1>3. /\ waitQueue' \in Seq(Callers) /\ IsInjective(waitQueue')
      /\ ToSet(waitQueue') = Waiting \ {c} /\ Len(waitQueue') = Len(waitQueue) - 1
  BY <1>t, <1>1, <1>2, Removing DEF Tables
<1>4. Len(waitQueue') <= MAX_WAIT /\ waitQueue # <<>>
  <2>1. Len(waitQueue) \in Nat /\ Len(waitQueue) <= MAX_WAIT /\ waitQueue \in Seq(Callers)
    BY <1>t DEF Tables
  <2>2. waitQueue # <<>>
    BY <1>2 DEF Contains
  <2> QED BY <1>3, <2>1, <2>2, PoolAssumption
<1>5. ToSet(waitQueue') = (Waiting \ {c}) \cup (IF "idle" = "waiting" THEN {c} ELSE {})
  BY <1>3
<1> QED BY <1>t, <1>1, <1>3, <1>4, <1>5, UnchangedThinned, LeaveKeeps

----------------------------------------------------------------------------
(* A connect settles.                                                      *)
LEMMA ConnectedKeeps ==
  ASSUME PoolInv, NEW i \in Ids, Connected(i)
  PROVE  PoolInv'
<1> DEFINE f == conn[i].for
           fresh == [conn[i] EXCEPT !.status = "ready", !.late = (f = "stray")]
<1>s. Shape /\ PoolBounded
  BY InvShape
<1>t. Tables
  BY <1>s DEF Shape
<1>u. /\ i \in Connecting /\ connections' = Append(connections, i)
      /\ UNCHANGED <<warming, closed, inflight, strayed>>
  BY DEF Connected
<1>i. /\ conn[i].status = "connecting" /\ ~conn[i].inUse /\ f \in Callers \cup {"replace", "warmup", "stray"}
      /\ conn[i] \in ConnRec /\ i \notin ToSet(connections)
  BY <1>s, <1>t, <1>u DEF Connecting, Shape, ConnOK, Tables, ConnRec
<1>h. \A d \in Callers : caller[d].conn # i
  BY <1>s, <1>i, NobodyHolds
<1>f. fresh \in ConnRec /\ fresh.status = "ready" /\ ~fresh.inUse /\ fresh.for = f /\ fresh.late = (f = "stray")
  BY <1>i DEF ConnRec
<1>g. f \notin {"warmup", "stray"} => initialized
  BY <1>s, <1>i DEF Shape, WarmupOK
<1>1. CASE f \in Callers
  <2>0. f \notin {"replace", "warmup", "stray", None}
    BY <1>1, PoolAssumption
  <2>1. /\ conn' = [conn EXCEPT ![i] = [fresh EXCEPT !.inUse = TRUE, !.for = None]]
        /\ caller' = [caller EXCEPT ![f] = [pc |-> "holding", conn |-> i]]
        /\ UNCHANGED <<waitQueue, initialized>>
    BY <1>1, <2>0 DEF Connected
  <2> DEFINE r == [fresh EXCEPT !.inUse = TRUE, !.for = None]
  <2>2. r \in ConnRec /\ r.status = "ready" /\ r.for = None /\ r.inUse
    BY <1>f DEF ConnRec
  <2> HIDE DEF r, fresh
  <2>3. /\ caller' \in [Callers -> CallerRec] /\ caller'[f].pc = "holding" /\ caller'[f].conn = i
        /\ \A d \in Callers : d # f => caller'[d] = caller[d]
    BY <1>t, <1>1, <2>1 DEF Tables, CallerRec
  <2>4. Waiting' = Waiting
    <3>1. caller[f].pc = "connecting"
      BY <1>s, <1>1 DEF Shape, CallerOK
    <3> QED BY <2>3, <3>1, <1>1 DEF Waiting
  <2>5. Joins(i) /\ r.for = IF f = "stray" THEN "stray" ELSE None
    BY <1>u, <2>0, <2>2 DEF Joins
  <2>6. \A d \in Callers :
          \/ caller'[d] = caller[d] /\ caller[d].conn # i /\ f # d
          \/ caller'[d].pc = "holding" /\ caller'[d].conn = i /\ r.inUse /\ f = d
    BY <1>h, <2>2, <2>3
  <2>7. \A d, e \in Callers : caller'[d].conn = i /\ caller'[e].conn = i => d = e
    BY <1>h, <2>3
  <2>8. Handed(i, r)
    BY <1>t, <1>u, <1>g, <2>0, <2>1, <2>2, <2>3, <2>4, <2>5, <2>6, <2>7 DEF Handed, Tables, r
  <2> QED BY <2>8, HandedKeeps
<1>2. CASE f = "replace"
  <2>0. f \notin Callers
    BY <1>2, PoolAssumption
  <2> DEFINE served == [fresh EXCEPT !.for = None]
  <2>1. Serve(i, served, caller) /\ initialized' = initialized
    BY <1>2, <2>0 DEF Connected
  <2>2. served \in ConnRec /\ served.status = "ready" /\ served.for = None
    BY <1>f DEF ConnRec
  <2> HIDE DEF served
  <2>3. Joins(i)
    BY <1>u, <1>2 DEF Joins
  <2>4. caller \in [Callers -> CallerRec] /\ initialized
    BY <1>t, <1>g, <1>2 DEF Tables
  <2> QED BY <1>h, <1>u, <1>2, <2>1, <2>2, <2>3, <2>4, ServeKeeps
<1>3. CASE f = "stray"
  <2>0. f \notin Callers
    BY <1>3, PoolAssumption
  <2>1. conn' = [conn EXCEPT ![i] = fresh] /\ UNCHANGED <<caller, waitQueue, initialized>>
    BY <1>3, <2>0 DEF Connected
  <2> HIDE DEF fresh
  <2>2. Joins(i) /\ Waiting' = Waiting
    BY <1>u, <1>3, <2>1 DEF Joins, Waiting
  <2>3. \A d \in Callers : caller[d].conn # i /\ conn[i].for # d
    BY <1>h, <2>0
  <2>4. Handed(i, fresh)
    BY <1>t, <1>u, <1>f, <1>3, <2>1, <2>2, <2>3 DEF Handed, Tables
  <2> QED BY <2>4, HandedKeeps
<1>4. CASE f = "warmup"
  <2>0. f \notin Callers /\ None \notin {"warmup", "stray", "replace"}
    BY <1>4, PoolAssumption, NoneDistinct
  <2>1. /\ UNCHANGED <<caller, waitQueue>> /\ initialized' \in BOOLEAN
        /\ conn' \in [Ids -> ConnRec]
        /\ conn'[i].status = "ready" /\ ~conn'[i].inUse
        /\ \A k \in Ids : k # i => /\ conn'[k].status = conn[k].status /\ conn'[k].inUse = conn[k].inUse
                                   /\ conn'[k].late = conn[k].late
        /\ \/ /\ initialized' = initialized /\ conn'[i].for = "warmup"
              /\ \A k \in Ids : conn'[k].for = conn[k].for
           \/ /\ initialized' /\ \A k \in Ids : conn[k].for = "warmup" => conn'[k].for = None
              /\ \A k \in Ids : conn[k].for # "warmup" => conn'[k].for = conn[k].for
              /\ \A k \in Ids \ {i} : conn[k].for = "warmup" => conn[k].status # "connecting"
    <3>1. CASE \A k \in Connecting \ {i} : conn[k].for # "warmup"
      <4>1. /\ conn' = [k \in Ids |-> IF k = i THEN [fresh EXCEPT !.for = None]
                          ELSE IF conn[k].for = "warmup" THEN [conn[k] EXCEPT !.for = None]
                          ELSE conn[k]]
            /\ initialized' = TRUE /\ UNCHANGED <<caller, waitQueue>>
        BY <1>4, <2>0, <3>1 DEF Connected
      <4> QED BY <1>t, <1>4, <1>f, <2>0, <3>1, <4>1 DEF Tables, ConnRec, Connecting
    <3>2. CASE ~\A k \in Connecting \ {i} : conn[k].for # "warmup"
      <4>1. conn' = [conn EXCEPT ![i] = fresh] /\ UNCHANGED <<caller, waitQueue, initialized>>
        BY <1>4, <2>0, <3>2 DEF Connected
      <4> QED BY <1>t, <1>4, <1>f, <4>1 DEF Tables
    <3> QED BY <3>1, <3>2
  <2> HIDE DEF fresh
  <2>2. /\ connections' \in Seq(Ids) /\ IsInjective(connections') /\ Pooled' = Pooled \cup {i}
        /\ Pooled \subseteq Ids
    BY <1>t, <1>u, <1>i, Adding, CountedFinite DEF Tables, Pooled
  <2>3. ~initialized /\ waitQueue = <<>>
    BY <1>s, <1>4 DEF Shape, WarmupOK, QueueOK
  <2>4. Tables'
    BY <1>t, <1>u, <2>1, <2>2 DEF Tables, Waiting
  <2>5. ASSUME NEW k \in Ids PROVE ConnOK(k)'
    <3>1. ConnOK(k)
      BY <1>s DEF Shape
    <3>2. CASE k = i
      BY <3>2, <1>u, <1>4, <2>0, <2>1, <2>2 DEF ConnOK, Pooled
    <3>3. CASE k # i
      <4>1. k \in ToSet(connections)' <=> k \in ToSet(connections)
        BY <3>3, <2>2 DEF Pooled
      <4>2. conn[k].status = "none" => conn'[k] = conn[k]
        <5> SUFFICES ASSUME conn[k].status = "none" PROVE conn'[k] = conn[k]
          OBVIOUS
        <5>1. conn[k].for = None
          BY <3>1, NoConnRec DEF ConnOK
        <5>2. conn'[k].for = conn[k].for
          BY <5>1, <2>0, <2>1
        <5> QED BY <3>3, <5>2, <2>1, <1>t DEF Tables, ConnRec
      <4>3. conn[k].status = "connecting" => conn'[k].for = conn[k].for
        BY <3>3, <2>1
      <4>4. conn'[k].for = conn[k].for \/ conn'[k].for = None
        BY <2>1
      <4> QED BY <3>1, <3>3, <4>1, <4>2, <4>3, <4>4, <1>u, <2>1 DEF ConnOK
    <3> QED BY <3>2, <3>3
  <2>6. \A d \in Callers : CallerOK(d)'
    <3>1. \A k \in Ids : \A d \in Callers : conn'[k].for = d => conn[k].for = d
      BY <2>1, PoolAssumption
    <3> QED BY <3>1, <1>s, <1>t, <1>h, <2>1 DEF Shape, CallerOK, Tables, CallerRec
  <2>7. Distinct'
    <3>1. \A k \in Ids : conn'[k].for \in Callers => conn'[k].for = conn[k].for
      BY <2>1, PoolAssumption
    <3> QED BY <3>1, <1>s, <2>1 DEF Shape, Distinct
  <2>8. WarmupOK'
    <3>1. warming
      BY <1>s, <1>4 DEF Shape, WarmupOK
    <3>2. CASE initialized' = initialized /\ \A k \in Ids : conn'[k].for = conn[k].for
      BY <3>1, <3>2, <1>s, <1>u, <1>4, <2>1, <2>3 DEF Shape, WarmupOK
    <3>3. CASE initialized' /\ ~(initialized' = initialized)
      BY <3>3, <1>s, <1>u, <2>0, <2>1, <2>3 DEF Shape, WarmupOK
    <3> QED BY <3>2, <3>3, <2>1, <2>3
  <2>9. QueueOK' /\ NoNeedlessWait'
    BY <2>1, <2>3 DEF QueueOK, NoNeedlessWait
  <2>10. CloseLeavesInflightOnly'
    BY <1>s, <1>u, <1>i, <2>1 DEF Shape, CloseLeavesInflightOnly, Open, Connecting
  <2>11. PoolBounded'
    <3>1. Counted' \subseteq Counted
      <4> SUFFICES ASSUME NEW k \in Counted' PROVE k \in Counted
        OBVIOUS
      <4>1. k \in Ids /\ k \in Pooled \cup Connecting
        BY <1>u, <2>1, <2>2 DEF Counted, Connecting
      <4> QED BY <4>1, <1>4, <2>0, <2>1 DEF Counted, Stray
    <3> QED BY <1>s, <1>t, <1>u, <3>1, BoundShrinks
  <2> QED BY <2>4, <2>5, <2>6, <2>7, <2>8, <2>9, <2>10, <2>11, InvShape DEF Shape
<1> QED BY <1>1, <1>2, <1>3, <1>4, <1>i

LEMMA ConnectFailsKeeps ==
  ASSUME PoolInv, NEW i \in Ids, ConnectFails(i)
  PROVE  PoolInv'
<1> DEFINE f == conn[i].for
           gone == [conn EXCEPT ![i] = NoConn]
<1>s. Shape /\ PoolBounded
  BY InvShape
<1>t. Tables
  BY <1>s DEF Shape
<1>n. None \notin {"warmup", "stray", "replace"} /\ None \notin Callers
  BY PoolAssumption
<1>u. i \in Connecting /\ UNCHANGED <<connections, waitQueue, initialized, closed, inflight>>
  BY DEF ConnectFails
<1>i. /\ conn[i].status = "connecting" /\ i \notin ToSet(connections)
      /\ \A d \in Callers : caller[d].conn # i
  BY <1>s, <1>u, NobodyHolds DEF Connecting, Shape, ConnOK
<1>1. /\ conn' \in [Ids -> ConnRec] /\ conn'[i] = NoConn
      /\ \A k \in Ids : k # i => /\ conn'[k].status = conn[k].status /\ conn'[k].inUse = conn[k].inUse
                                 /\ conn'[k].late = conn[k].late
      /\ \A k \in Ids : k # i => conn'[k].for = IF f = "warmup" /\ conn[k].for = "warmup" THEN "stray" ELSE conn[k].for
      /\ warming' \in BOOLEAN /\ strayed' \in BOOLEAN
      /\ (warming' /\ ~(f = "warmup")) \/ ~warming' \/ warming' = warming
      /\ f = "warmup" => ~warming'
      /\ f # "warmup" => warming' = warming
      /\ (strayed \/ \E k \in Ids : f = "warmup" /\ conn'[k].for = "stray") => strayed'
  <2>1. /\ gone \in [Ids -> ConnRec] /\ gone[i] = NoConn /\ \A k \in Ids : k # i => gone[k] = conn[k]
    BY <1>t, NoConnRec DEF Tables
  <2> HIDE DEF gone
  <2>2. CASE f = "warmup"
    <3>1. /\ conn' = [k \in Ids |-> IF gone[k].for = "warmup" THEN [gone[k] EXCEPT !.for = "stray"] ELSE gone[k]]
          /\ warming' = FALSE /\ strayed' = (strayed \/ \E k \in Ids : conn'[k].for = "stray")
      BY <2>2 DEF ConnectFails, gone
    <3>2. conn' \in [Ids -> ConnRec] /\ conn'[i] = NoConn
      BY <2>1, <3>1, <1>n, NoConnRec DEF ConnRec
    <3>3. ASSUME NEW k \in Ids, k # i
          PROVE  /\ conn'[k].status = conn[k].status /\ conn'[k].inUse = conn[k].inUse
                 /\ conn'[k].late = conn[k].late
                 /\ conn'[k].for = IF conn[k].for = "warmup" THEN "stray" ELSE conn[k].for
      BY <2>1, <3>1, <3>3 DEF ConnRec
    <3> QED BY <2>2, <3>1, <3>2, <3>3, <1>t, ZenonT(30) DEF Tables
  <2>3. CASE f # "warmup"
    <3>1. conn' = gone /\ UNCHANGED <<warming, strayed>>
      BY <2>3 DEF ConnectFails, gone
    <3> QED BY <2>1, <2>3, <3>1, <1>t DEF Tables
  <2> QED BY <2>2, <2>3
<1>2. \A d \in Callers :
        \/ caller'[d] = caller[d] /\ f # d /\ (f = "warmup" => caller[d].pc # "warming")
        \/ caller'[d] = Away /\ (caller[d].pc = "warming" \/ f = d)
  BY <1>t, PoolAssumption DEF ConnectFails, Tables
<1>3. caller' \in [Callers -> CallerRec]
  <2>1. Away \in CallerRec
    BY DEF Away, CallerRec
  <2> QED BY <1>t, <2>1 DEF ConnectFails, Tables
<1>a. Away.pc = "idle" /\ Away.conn = None
  BY DEF Away
<1>b. \A d \in Callers : f = d => caller[d].pc = "connecting"
  BY <1>s DEF Shape, CallerOK
<1>4. Tables'
  <2>1. Waiting' = Waiting
    BY <1>2, <1>a, <1>b DEF Waiting
  <2> QED BY <1>t, <1>u, <1>1, <1>3, <2>1 DEF Tables
<1>5. ASSUME NEW k \in Ids PROVE ConnOK(k)'
  <2>1. ConnOK(k)
    BY <1>s DEF Shape
  <2>2. CASE k = i
    BY <2>2, <1>i, <1>u, <1>1, NoConnRec DEF ConnOK
  <2>3. CASE k # i
    <3>1. conn[k].status = "none" => conn'[k] = conn[k]
      <4> SUFFICES ASSUME conn[k].status = "none" PROVE conn'[k] = conn[k]
        OBVIOUS
      <4>1. conn[k].for = None
        BY <2>1, NoConnRec DEF ConnOK
      <4>2. conn'[k].for = conn[k].for
        BY <2>3, <4>1, <1>n, <1>1
      <4>3. /\ conn[k] \in ConnRec /\ conn'[k] \in ConnRec
            /\ conn'[k].status = conn[k].status /\ conn'[k].inUse = conn[k].inUse
            /\ conn'[k].late = conn[k].late
        BY <2>3, <1>1, <1>t DEF Tables
      <4> QED BY <4>2, <4>3 DEF ConnRec
    <3> QED BY <2>1, <2>3, <3>1, <1>n, <1>u, <1>1 DEF ConnOK
  <2> QED BY <2>2, <2>3
<1>6. ASSUME NEW d \in Callers PROVE CallerOK(d)'
  <2>1. CallerOK(d) /\ caller \in [Callers -> CallerRec]
    BY <1>s, <1>t DEF Shape, Tables
  <2>2. \A k \in Ids : conn'[k].for = d => k # i /\ conn[k].for = d
    BY <1>1, <1>n, NoConnRec, PoolAssumption
  <2>3. CASE caller'[d] = caller[d]
    <3>1. caller[d].pc = "holding" => caller[d].conn \in Ids /\ caller[d].conn # i
      BY <2>1, <1>i DEF CallerOK, CallerRec
    <3> QED BY <2>1, <2>2, <2>3, <3>1, <1>1 DEF CallerOK
  <2>4. CASE caller'[d] = Away /\ (caller[d].pc = "warming" \/ f = d)
    <3>1. \A k \in Ids : conn'[k].for # d
      BY <2>1, <2>2, <2>4, <1>s DEF CallerOK, Shape, Distinct
    <3> QED BY <3>1, <2>4, <1>a DEF CallerOK
  <2> QED BY <2>3, <2>4, <1>2
<1>7. Distinct'
  <2>1. ASSUME NEW k \in Ids, NEW h \in Ids, conn'[k].for \in Callers, conn'[k].for = conn'[h].for
        PROVE  k = h
    <3>1. k # i /\ h # i /\ conn'[k].for = conn[k].for /\ conn'[h].for = conn[h].for
      BY <2>1, <1>1, <1>n, NoConnRec, PoolAssumption
    <3> QED BY <2>1, <3>1, <1>s DEF Shape, Distinct
  <2>2. \A d \in Callers : caller'[d].conn # None => caller'[d] = caller[d]
    BY <1>2, <1>a
  <2>3. ASSUME NEW d \in Callers, NEW e \in Callers,
               caller'[d].conn # None, caller'[d].conn = caller'[e].conn
        PROVE  d = e
    BY <2>2, <2>3, <1>s DEF Shape, Distinct
  <2> QED BY <2>1, <2>3 DEF Distinct
<1>8. WarmupOK'
  <2>1. (initialized' \/ ~warming') => \A k \in Ids : conn'[k].for # "warmup"
    BY <1>s, <1>n, <1>u, <1>1, NoConnRec DEF Shape, WarmupOK
  <2>2. ~strayed' => \A k \in Ids : conn'[k].for # "stray"
    BY <1>s, <1>n, <1>1, NoConnRec DEF Shape, WarmupOK
  <2>3. ~initialized' => \A k \in Ids : conn'[k].status # "none" => conn'[k].for \in {"warmup", "stray"}
    BY <1>s, <1>u, <1>1, NoConnRec DEF Shape, WarmupOK
  <2>4. ~initialized' => \A d \in Callers : caller'[d].pc \in {"idle", "warming"}
    BY <1>s, <1>u, <1>2, <1>a DEF Shape, WarmupOK
  <2> QED BY <2>1, <2>2, <2>3, <2>4 DEF WarmupOK
<1>9. QueueOK'
  BY <1>s, <1>u DEF Shape, QueueOK
<1>10. NoNeedlessWait'
  <2>1. \A k \in Pooled : k \in Ids /\ k # i
    BY <1>t, <1>i, CountedFinite DEF Pooled
  <2>2. ~strayed' => ~strayed
    BY <1>1
  <2> QED BY <1>s, <1>u, <1>1, <2>1, <2>2 DEF Shape, NoNeedlessWait, Free, Pooled
<1>11. CloseLeavesInflightOnly'
  BY <1>s, <1>u, <1>1, NoConnRec DEF Shape, CloseLeavesInflightOnly, Open, Connecting
<1>12. PoolBounded'
  <2>1. Counted' \subseteq Counted
    <3> SUFFICES ASSUME NEW k \in Counted' PROVE k \in Counted
      OBVIOUS
    <3>1. k \in Ids /\ k # i /\ k \in Pooled \cup Connecting
      BY <1>t, <1>u, <1>i, <1>1, NoConnRec, CountedFinite DEF Counted, Connecting, Pooled
    <3> QED BY <3>1, <1>1 DEF Counted, Stray
  <2> QED BY <1>s, <1>t, <1>u, <2>1, BoundShrinks
<1> QED BY <1>4, <1>5, <1>6, <1>7, <1>8, <1>9, <1>10, <1>11, <1>12, InvShape DEF Shape

(* The warm-up starts with nothing open but strays.                        *)
LEMMA WarmupKeeps ==
  ASSUME PoolInv, NEW c \in Callers, caller[c].pc = "idle", closed = "no", ~initialized, StartWarmup,
         caller' = [caller EXCEPT ![c] = [pc |-> "warming", conn |-> None]],
         UNCHANGED <<connections, waitQueue, closed, inflight, strayed>>
  PROVE  PoolInv'
<1>s. Shape /\ PoolBounded
  BY InvShape
<1>t. Tables
  BY <1>s DEF Shape
<1>n. None \notin {"warmup", "stray", "replace"} /\ "warmup" \notin Callers /\ Pooled \subseteq Ids
  BY <1>t, PoolAssumption, CountedFinite
<1>c. /\ caller' \in [Callers -> CallerRec] /\ caller'[c].pc = "warming" /\ caller'[c].conn = None
      /\ \A d \in Callers : d # c => caller'[d] = caller[d]
  BY <1>t DEF Tables, CallerRec
<1>w. Waiting' = Waiting
  BY <1>c DEF Waiting
<1>q. waitQueue = <<>>
  BY <1>s DEF Shape, QueueOK
<1>1. PICK new \in SUBSET Ids :
        /\ \A k \in new : conn[k].status = "none" /\ conn'[k] = Opening("warmup")
        /\ \A k \in Ids \ new : conn'[k] = conn[k]
        /\ conn' \in [Ids -> ConnRec] /\ warming'
        /\ new # {} => ~warming
        /\ (~warming /\ IsFiniteSet(new) /\ Cardinality(new) <= maxConnections) \/ new = {}
        /\ initialized' \in BOOLEAN /\ (initialized' => new = {} /\ ~warming)
  <2>1. CASE warming
    <3>1. UNCHANGED <<conn, warming, initialized>>
      BY <2>1 DEF StartWarmup
    <3> WITNESS {} \in SUBSET Ids
    <3> QED BY <2>1, <3>1, <1>t DEF Tables
  <2>2. CASE ~warming
    <3> DEFINE fits == {S \in SUBSET Unused : Cardinality(S) = minConnections}
               new == CHOOSE S \in fits : TRUE
    <3>1. /\ fits # {} /\ warming' = TRUE /\ initialized' = (minConnections = 0)
          /\ conn' = [k \in Ids |-> IF k \in new THEN Opening("warmup") ELSE conn[k]]
      BY <2>2 DEF StartWarmup
    <3>2. new \in fits
      BY <3>1
    <3>3. new \subseteq Unused /\ Cardinality(new) = minConnections /\ new \subseteq Ids
      BY <3>2 DEF Unused
    <3> HIDE DEF new, fits
    <3>4. IsFiniteSet(new)
      BY <3>3, FS_Subset, PoolAssumption
    <3>5. Cardinality(new) <= maxConnections
      BY <3>3, PoolAssumption
    <3>6. minConnections = 0 => new = {}
      BY <3>3, <3>4, FS_EmptySet
    <3>7. Opening("warmup") \in ConnRec
      BY DEF Opening, NoConn, ConnRec
    <3>8. conn' \in [Ids -> ConnRec]
      BY <3>1, <3>7, <1>t DEF Tables
    <3> QED BY <2>2, <3>1, <3>3, <3>4, <3>5, <3>6, <3>8 DEF Unused
  <2> QED BY <2>1, <2>2, <1>t DEF Tables
<1>o. LET o == Opening("warmup") IN
      o.status = "connecting" /\ o.for = "warmup" /\ ~o.inUse
  BY DEF Opening, NoConn
<1>2. Tables'
  BY <1>t, <1>c, <1>w, <1>1 DEF Tables
<1>3. ASSUME NEW k \in Ids PROVE ConnOK(k)'
  <2>1. ConnOK(k)
    BY <1>s DEF Shape
  <2>2. CASE k \in new
    BY <2>1, <2>2, <1>n, <1>o, <1>1 DEF ConnOK
  <2>3. CASE k \notin new
    BY <2>1, <2>3, <1>1 DEF ConnOK
  <2> QED BY <2>2, <2>3
<1>4. ASSUME NEW d \in Callers PROVE CallerOK(d)'
  <2>1. CallerOK(d) /\ caller \in [Callers -> CallerRec]
    BY <1>s, <1>t DEF Shape, Tables
  <2>2. \A k \in Ids : conn'[k].for = d => conn[k].for = d
    BY <1>1, <1>n, <1>o
  <2>3. caller'[d].pc # "holding" /\ caller'[d].conn = None /\ (caller[d].pc # "connecting")
    BY <2>1, <1>c, <1>s DEF CallerOK, Shape, WarmupOK
  <2> QED BY <2>1, <2>2, <2>3 DEF CallerOK
<1>5. Distinct'
  <2>1. \A d \in Callers : caller'[d].conn = None
    BY <1>c, <1>s DEF Shape, WarmupOK, CallerOK
  <2>2. \A k \in Ids : conn'[k].for \in Callers => conn'[k] = conn[k]
    BY <1>1, <1>n, <1>o
  <2> QED BY <2>1, <2>2, <1>s DEF Shape, Distinct
<1>6. WarmupOK'
  <2>1. initialized' => \A k \in Ids : conn'[k].for # "warmup"
    BY <1>s, <1>1 DEF Shape, WarmupOK
  <2>2. \A k \in Ids : conn'[k].status # "none" => conn'[k].for \in {"warmup", "stray"}
    BY <1>s, <1>o, <1>1 DEF Shape, WarmupOK
  <2>3. \A d \in Callers : caller'[d].pc \in {"idle", "warming"}
    BY <1>s, <1>c DEF Shape, WarmupOK
  <2>4. ~strayed => \A k \in Ids : conn'[k].for # "stray"
    BY <1>s, <1>o, <1>1 DEF Shape, WarmupOK
  <2> QED BY <1>1, <2>1, <2>2, <2>3, <2>4 DEF WarmupOK
<1>7. QueueOK' /\ NoNeedlessWait' /\ CloseLeavesInflightOnly'
  BY <1>q DEF QueueOK, NoNeedlessWait, CloseLeavesInflightOnly
<1>8. PoolBounded'
  <2>1. CASE new = {}
    <3>1. Counted' \subseteq Counted
      BY <2>1, <1>n, <1>1 DEF Counted, Pooled, Connecting, Stray
    <3> QED BY <3>1, <1>s, <1>t, BoundShrinks
  <2>2. CASE ~warming /\ IsFiniteSet(new) /\ Cardinality(new) <= maxConnections
    <3>1. Counted' \subseteq new
      <4> SUFFICES ASSUME NEW k \in Counted', k \notin new PROVE FALSE
        OBVIOUS
      <4>1. k \in Ids /\ conn'[k] = conn[k] /\ k \in Pooled \cup Connecting /\ conn[k].for # "stray"
        BY <1>n, <1>1 DEF Counted, Pooled, Connecting, Stray
      <4>2. conn[k].status # "none"
        BY <4>1, <1>s DEF Shape, ConnOK, Pooled, Connecting
      <4> QED BY <4>1, <4>2, <2>2, <1>s DEF Shape, WarmupOK
    <3>2. IsFiniteSet(Counted') /\ Cardinality(Counted') <= Cardinality(new)
      BY <2>2, <3>1, FS_Subset
    <3>3. Cardinality(Counted') \in Nat /\ Cardinality(new) \in Nat
      BY <2>2, <3>2, FS_CardinalityType
    <3>4. Cardinality(Counted') <= maxConnections
      BY <2>2, <3>2, <3>3, PoolAssumption
    <3> QED BY <3>4 DEF PoolBounded, Counted, Pooled
  <2> QED BY <2>1, <2>2, <1>1
<1> QED BY <1>2, <1>3, <1>4, <1>5, <1>6, <1>7, <1>8, InvShape DEF Shape

----------------------------------------------------------------------------
(* The sweep and close() forget connections nobody holds, or mark those of *)
(* the pool as closed.                                                     *)
Cleared(k) ==
  \/ conn'[k] = conn[k]
  \/ conn'[k] = NoConn /\ k \notin Pooled' /\ conn[k].status # "connecting" /\ \A d \in Callers : ~Holds(d, k)

LEMMA ClearKeeps ==
  ASSUME PoolInv, connections' \in Seq(Ids), IsInjective(connections'), Pooled' \subseteq Pooled,
         conn' \in [Ids -> ConnRec], \A k \in Ids : Cleared(k),
         closed' \in {"no", "closing", "yes"}, closed' = "no" <=> closed = "no",
         closed = "no" => \A k \in Pooled \ Pooled' : conn'[k] = NoConn,
         UNCHANGED <<waitQueue, caller, initialized, warming, inflight, strayed>>
  PROVE  PoolInv'
<1>s. Shape /\ PoolBounded
  BY InvShape
<1>t. Tables
  BY <1>s DEF Shape
<1>n. None \notin {"warmup", "stray", "replace"} /\ None \notin Callers /\ Pooled \subseteq Ids
  BY <1>t, PoolAssumption, CountedFinite
<1>1. Tables'
  BY <1>t DEF Tables, Waiting
<1>2. ASSUME NEW k \in Ids PROVE ConnOK(k)'
  <2>1. ConnOK(k)
    BY <1>s DEF Shape
  <2>2. CASE conn'[k] = NoConn /\ k \notin Pooled'
    BY <2>2, NoConnRec DEF ConnOK, Pooled
  <2>3. CASE conn'[k] = conn[k]
    <3>1. k \in Pooled' => k \in Pooled
      OBVIOUS
    <3>2. (closed' = "no" /\ conn'[k].status \in {"ready", "query"}) => k \in Pooled'
      BY <2>1, <2>3, NoConnRec DEF ConnOK, Pooled
    <3> QED BY <2>1, <2>3, <3>1, <3>2 DEF ConnOK, Pooled
  <2> QED BY <2>2, <2>3 DEF Cleared
<1>3. ASSUME NEW d \in Callers PROVE CallerOK(d)'
  <2>1. CallerOK(d) /\ caller \in [Callers -> CallerRec]
    BY <1>s, <1>t DEF Shape, Tables
  <2>2. \A k \in Ids : conn'[k].for = d => conn[k].for = d
    BY <1>n, NoConnRec DEF Cleared
  <2>3. caller[d].pc = "holding" => conn'[caller[d].conn] = conn[caller[d].conn]
    <3>1. caller[d].pc = "holding" => caller[d].conn \in Ids
      BY <2>1 DEF CallerOK, CallerRec
    <3> QED BY <3>1 DEF Cleared, Holds
  <2> QED BY <2>1, <2>2, <2>3 DEF CallerOK
<1>4. Distinct'
  <2>1. \A k \in Ids : conn'[k].for \in Callers => conn'[k] = conn[k]
    BY <1>n, NoConnRec DEF Cleared
  <2> QED BY <2>1, <1>s DEF Shape, Distinct
<1>5. WarmupOK'
  <2>1. \A k \in Ids : conn'[k] = conn[k] \/ (conn'[k].for = None /\ conn'[k].status = "none")
    BY NoConnRec DEF Cleared
  <2> QED BY <2>1, <1>n, <1>s DEF Shape, WarmupOK
<1>6. QueueOK'
  BY <1>s DEF Shape, QueueOK
<1>7. NoNeedlessWait'
  <2>1. \A k \in Pooled' : k \in Pooled /\ k \in Ids /\ conn'[k] = conn[k]
    BY <1>n DEF Cleared
  <2> QED BY <2>1, <1>s DEF Shape, NoNeedlessWait, Free, Pooled
<1>8. CloseLeavesInflightOnly'
  BY <1>s, NoConnRec DEF Shape, CloseLeavesInflightOnly, Open, Connecting, Cleared
<1>9. PoolBounded'
  <2>1. Counted' \subseteq Counted
    <3> SUFFICES ASSUME NEW k \in Counted' PROVE k \in Counted
      OBVIOUS
    <3>1. k \in Ids /\ k \in Pooled \cup Connecting /\ conn'[k] = conn[k]
      BY <1>n, NoConnRec DEF Counted, Connecting, Cleared
    <3> QED BY <3>1 DEF Counted, Stray
  <2> QED BY <1>s, <1>t, <2>1, BoundShrinks
<1> QED BY <1>1, <1>2, <1>3, <1>4, <1>5, <1>6, <1>7, <1>8, <1>9, InvShape DEF Shape

LEMMA SweepKeeps ==
  ASSUME PoolInv, SweepIdle
  PROVE  PoolInv'
<1>s. Shape /\ Tables
  BY InvShape DEF Shape
<1>0. PICK n \in minConnections..(Len(connections) - 1) :
        \E kept \in [1..n -> DOMAIN connections] :
        LET gone == {connections[k] : k \in DOMAIN connections \ {kept[h] : h \in 1..n}} IN
        /\ \A g, h \in 1..n : g < h => kept[g] < kept[h]
        /\ \A i \in gone : ~conn[i].inUse
        /\ connections' = [h \in 1..n |-> connections[kept[h]]]
        /\ conn' = [i \in Ids |-> IF i \in gone THEN NoConn ELSE conn[i]]
  BY DEF SweepIdle
<1>1. PICK kept \in [1..n -> DOMAIN connections] :
        LET gone == {connections[k] : k \in DOMAIN connections \ {kept[h] : h \in 1..n}} IN
        /\ \A g, h \in 1..n : g < h => kept[g] < kept[h]
        /\ \A i \in gone : ~conn[i].inUse
        /\ connections' = [h \in 1..n |-> connections[kept[h]]]
        /\ conn' = [i \in Ids |-> IF i \in gone THEN NoConn ELSE conn[i]]
  BY <1>0
<1> DEFINE gone == {connections[k] : k \in DOMAIN connections \ {kept[h] : h \in 1..n}}
<1>2. n \in Nat /\ connections \in Seq(Ids) /\ IsInjective(connections)
  BY <1>s, PoolAssumption DEF Tables
<1>3. /\ connections' \in Seq(Ids) /\ IsInjective(connections')
      /\ ToSet(connections') = ToSet(connections) \ gone /\ gone \subseteq ToSet(connections)
  <2>1. \A g, h \in 1..n : g < h => kept[g] < kept[h]
    BY <1>1
  <2>2. connections' = KeptOf(connections, kept, n) /\ gone = GoneFrom(connections, kept, n)
    BY <1>1 DEF KeptOf, GoneFrom
  <2> HIDE DEF gone
  <2> QED BY <1>2, <2>1, <2>2, Keeping
<1>4. /\ \A i \in gone : ~conn[i].inUse
      /\ conn' = [i \in Ids |-> IF i \in gone THEN NoConn ELSE conn[i]]
  BY <1>1
<1> HIDE DEF gone
<1>5. gone \subseteq Ids /\ Pooled' = Pooled \ gone
  BY <1>s, <1>3, CountedFinite DEF Pooled
<1>6. conn' \in [Ids -> ConnRec]
  BY <1>s, <1>4, NoConnRec DEF Tables
<1>7. ASSUME NEW k \in Ids PROVE Cleared(k)
  <2>1. CASE k \in gone
    <3>1. conn[k].status # "connecting"
      BY <1>s, <1>3, <2>1 DEF Shape, ConnOK
    <3>2. \A d \in Callers : ~Holds(d, k)
      BY <1>s, <1>4, <2>1, NobodyHolds DEF Holds
    <3> QED BY <2>1, <3>1, <3>2, <1>4, <1>5 DEF Cleared
  <2>2. CASE k \notin gone
    BY <2>2, <1>4 DEF Cleared
  <2> QED BY <2>1, <2>2
<1>8. \A k \in Pooled \ Pooled' : conn'[k] = NoConn
  BY <1>4, <1>5
<1>9. closed \in {"no", "closing", "yes"}
  BY <1>s DEF Tables
<1>10. UNCHANGED <<waitQueue, caller, initialized, warming, closed, inflight, strayed>>
  BY DEF SweepIdle
<1> QED BY <1>3, <1>5, <1>6, <1>7, <1>8, <1>9, <1>10, ClearKeeps

LEMMA ClosedKeeps ==
  ASSUME PoolInv, Closed
  PROVE  PoolInv'
<1>s. Shape /\ Tables
  BY InvShape DEF Shape
<1>1. /\ closed = "closing" /\ closed' = "yes" /\ connections' = <<>>
      /\ UNCHANGED <<waitQueue, caller, initialized, warming, inflight, strayed>>
  BY DEF Closed
<1>2. \A k \in Ids : \/ conn'[k] = conn[k]
                     \/ conn'[k] = NoConn /\ Dead(k) /\ \A c \in Callers : caller[c].conn # k
  BY DEF Closed
<1>3. conn' \in [Ids -> ConnRec]
  BY <1>s, NoConnRec DEF Closed, Tables
<1>4. connections' \in Seq(Ids) /\ IsInjective(connections') /\ Pooled' = {}
  BY <1>1, EmptyList DEF Pooled
<1>5. \A k \in Ids : Cleared(k)
  BY <1>2, <1>4 DEF Cleared, Dead, Holds
<1> QED BY <1>1, <1>3, <1>4, <1>5, ClearKeeps

LEMMA CloseKeeps ==
  ASSUME PoolInv, Close
  PROVE  PoolInv'
<1>s. Shape /\ PoolBounded
  BY InvShape
<1>t. Tables
  BY <1>s DEF Shape
<1>1. /\ closed = "no" /\ closed' = "closing" /\ inflight' = Connecting /\ waitQueue' = <<>>
      /\ UNCHANGED <<connections, initialized, warming, strayed>>
  BY DEF Close
<1>2. /\ conn' \in [Ids -> ConnRec]
      /\ \A k \in Ids : /\ conn'[k].inUse = conn[k].inUse /\ conn'[k].for = conn[k].for
                        /\ conn'[k].status = IF k \in Pooled THEN "closed" ELSE conn[k].status
                        /\ k \notin Pooled => conn'[k] = conn[k]
  <2>1. \A k \in Ids : Contains(connections, k) <=> k \in Pooled
    BY <1>t, SetOfSeq DEF Tables, Pooled
  <2>2. conn' = [k \in Ids |-> IF k \in Pooled THEN [conn[k] EXCEPT !.status = "closed"] ELSE conn[k]]
    BY <2>1 DEF Close
  <2> QED BY <2>2, <1>t DEF Tables, ConnRec
<1>3. /\ \A c \in Callers : \/ caller'[c] = caller[c] /\ caller[c].pc # "waiting"
                            \/ caller'[c] = Away /\ caller[c].pc = "waiting"
      /\ caller' \in [Callers -> CallerRec]
  <2>1. Away \in CallerRec
    BY DEF Away, CallerRec
  <2> QED BY <1>t, <2>1 DEF Close, Tables
<1>a. Away.pc = "idle" /\ Away.conn = None
  BY DEF Away
<1>4. Tables'
  <2>1. <<>> \in Seq(Callers) /\ Len(<<>>) = 0 /\ ToSet(<<>>) = {} /\ IsInjective(<<>>)
    BY EmptyList
  <2>3. Waiting' = {}
    BY <1>3, <1>a DEF Waiting
  <2> QED BY <1>t, <1>1, <1>2, <1>3, <2>1, <2>3, PoolAssumption DEF Tables
<1>5. \A k \in Ids : ConnOK(k)'
  BY <1>s, <1>1, <1>2 DEF Shape, ConnOK, Pooled
<1>6. ASSUME NEW d \in Callers PROVE CallerOK(d)'
  <2>1. CallerOK(d) /\ caller \in [Callers -> CallerRec]
    BY <1>s, <1>t DEF Shape, Tables
  <2>2. CASE caller'[d] = caller[d]
    BY <2>1, <2>2, <1>2 DEF CallerOK, CallerRec
  <2>3. CASE caller'[d] = Away /\ caller[d].pc = "waiting"
    BY <2>1, <2>3, <1>2, <1>a DEF CallerOK
  <2> QED BY <2>2, <2>3, <1>3
<1>7. Distinct'
  <2>1. \A d \in Callers : caller'[d].conn # None => caller'[d] = caller[d]
    BY <1>3, <1>a
  <2>2. \A d, e \in Callers : (caller'[d].conn # None /\ caller'[d].conn = caller'[e].conn) => d = e
    BY <2>1, <1>s DEF Shape, Distinct
  <2>3. \A k, h \in Ids : (conn'[k].for \in Callers /\ conn'[k].for = conn'[h].for) => k = h
    BY <1>2, <1>s DEF Shape, Distinct
  <2> QED BY <2>2, <2>3 DEF Distinct
<1>8. WarmupOK'
  <2>1. \A k \in Ids : conn'[k].for = conn[k].for /\ (conn'[k].status # "none" => conn[k].status # "none")
    BY <1>2, <1>s DEF Shape, ConnOK, Pooled
  <2>2. \A d \in Callers : caller[d].pc \in {"idle", "warming"} => caller'[d].pc \in {"idle", "warming"}
    BY <1>3, <1>a
  <2> QED BY <2>1, <2>2, <1>1, <1>s DEF Shape, WarmupOK
<1>9. QueueOK' /\ NoNeedlessWait' /\ PoolBounded'
  BY <1>1 DEF QueueOK, NoNeedlessWait, PoolBounded
<1>10. CloseLeavesInflightOnly'
  BY <1>s, <1>1, <1>2 DEF Shape, ConnOK, CloseLeavesInflightOnly, Open, Connecting, Pooled
<1> QED BY <1>4, <1>5, <1>6, <1>7, <1>8, <1>9, <1>10, InvShape DEF Shape

----------------------------------------------------------------------------
LEMMA InitPoolInv == PoolInit => PoolInv
<1> SUFFICES ASSUME PoolInit PROVE PoolInv
  OBVIOUS
<1>1. /\ \A k \in Ids : conn[k] = NoConn
      /\ \A c \in Callers : caller[c] = Away
      /\ connections = <<>> /\ waitQueue = <<>> /\ closed = "no"
  BY DEF PoolInit
<1>a. Away.pc = "idle" /\ Away.conn = None /\ Away \in CallerRec
  BY DEF Away, CallerRec
<1>n. None \notin {"warmup", "stray", "replace"} /\ None \notin Callers
  BY PoolAssumption
<1>2. <<>> \in Seq(Ids) /\ <<>> \in Seq(Callers) /\ Len(<<>>) = 0
  BY EmptyList
<1>3. ToSet(<<>>) = {} /\ IsInjective(<<>>)
  BY EmptyList
<1>4. Tables
  <2>1. Waiting = {}
    BY <1>1, <1>a DEF Waiting
  <2>2. conn \in [Ids -> ConnRec] /\ caller \in [Callers -> CallerRec]
    BY <1>a, NoConnRec DEF PoolInit
  <2>3. {initialized, warming, strayed} \subseteq BOOLEAN
    BY DEF PoolInit
  <2>4. Len(waitQueue) <= MAX_WAIT
    BY <1>1, <1>2, PoolAssumption
  <2> QED BY <1>1, <1>2, <1>3, <2>1, <2>2, <2>3, <2>4 DEF Tables
<1>5. (\A k \in Ids : ConnOK(k)) /\ \A c \in Callers : CallerOK(c)
  BY <1>1, <1>a, <1>n, <1>3, NoConnRec DEF ConnOK, CallerOK
<1>6. Distinct /\ WarmupOK /\ QueueOK /\ NoNeedlessWait /\ CloseLeavesInflightOnly
  BY <1>1, <1>a, <1>n, NoConnRec DEF Distinct, WarmupOK, QueueOK, NoNeedlessWait, CloseLeavesInflightOnly
<1>7. PoolBounded
  <2>1. Counted = {}
    BY <1>1, <1>3, NoConnRec DEF Counted, Pooled, Connecting
  <2>2. Cardinality(Counted) = 0
    BY <2>1, FS_EmptySet
  <2> QED BY <2>2, PoolAssumption DEF PoolBounded, Counted, Pooled
<1> QED BY <1>4, <1>5, <1>6, <1>7, InvShape DEF Shape

LEMMA NextPoolInv == PoolInv /\ [PoolNext]_poolVars => PoolInv'
<1> SUFFICES ASSUME PoolInv, [PoolNext]_poolVars PROVE PoolInv'
  OBVIOUS
<1>s. Shape
  BY InvShape
<1>1. ASSUME NEW c \in Callers, Acquire(c) PROVE PoolInv'
  <2>1. CASE initialized
    BY <1>1, <2>1, AcquireKeeps DEF Acquire
  <2>2. CASE ~initialized
    BY <1>1, <2>2, WarmupKeeps DEF Acquire
  <2> QED BY <2>1, <2>2
<1>2. ASSUME NEW c \in Callers, WarmupAwaited(c) PROVE PoolInv'
  BY <1>2, AcquireKeeps DEF WarmupAwaited
<1>3. ASSUME NEW c \in Callers, Use(c) PROVE PoolInv'
  <2> DEFINE i == caller[c].conn
  <2>1. i \in Ids /\ conn[i].inUse /\ conn[i].status = "ready"
    BY <1>3, <1>s DEF Use, Shape, CallerOK, Tables, CallerRec
  <2>2. conn' = [conn EXCEPT ![i].status = "query"]
    BY <1>3 DEF Use
  <2>3. UNCHANGED <<connections, waitQueue, caller, initialized, warming, closed, inflight, strayed>>
    BY <1>3 DEF Use
  <2> HIDE DEF i
  <2> QED BY <2>1, <2>2, <2>3, StatusKeeps
<1>4. ASSUME NEW i \in Ids, ReadyForQuery(i) PROVE PoolInv'
  BY <1>4, StatusKeeps DEF ReadyForQuery
<1>5. ASSUME NEW i \in Ids, SocketDies(i) PROVE PoolInv'
  BY <1>5, StatusKeeps DEF SocketDies, Open
<1>6. CASE UNCHANGED poolVars
  BY <1>6 DEF poolVars, PoolInv, PoolTypeOK, ConnOK, CallerOK, Distinct, WarmupOK, QueueOK,
              PoolBounded, NoNeedlessWait, CloseLeavesInflightOnly, Connecting, Open, Stray, Free
<1> QED BY <1>1, <1>2, <1>3, <1>4, <1>5, <1>6, TimeoutKeeps, ReleaseKeeps, ConnectedKeeps,
           ConnectFailsKeeps, SweepKeeps, CloseKeeps, ClosedKeeps DEF PoolNext

LEMMA PoolInvariance == PoolSpec => []PoolInv
  BY InitPoolInv, NextPoolInv, PTL DEF PoolSpec

(* The tables keep their kinds, and the wait queue its bound: it holds the *)
(* waiting callers and nobody else, each once.                             *)
THEOREM PoolTypeCorrect == PoolSpec => []PoolTypeOK
<1>1. PoolInv => PoolTypeOK
  BY DEF PoolInv
<1> QED BY <1>1, PoolInvariance, PTL

(* Acquires, replacements and warm-ups together never take the pool past   *)
(* maxConnections, strays of failed warm-ups aside: _doAcquire counts the  *)
(* connects in progress before it opens another one.                       *)
THEOREM PoolKeepsMaximum == PoolSpec => []PoolBounded
<1>1. PoolInv => PoolBounded
  BY DEF PoolInv
<1> QED BY <1>1, PoolInvariance, PTL

(* However acquires, releases, deaths, sweeps and close() interleave, no   *)
(* connection is lent to two callers, and a lent one is marked in use.     *)
THEOREM LentToOne == PoolSpec => []ExclusiveUse
<1>1. PoolInv => ExclusiveUse
  BY DEF PoolInv, Distinct, CallerOK, ExclusiveUse
<1> QED BY <1>1, PoolInvariance, PTL

(* release, a finished replacement and _doAcquire leave nobody waiting     *)
(* beside a connection that is free, mid-stream releases aside.            *)
THEOREM FreeIsServed == PoolSpec => []NoNeedlessWait
<1>1. PoolInv => NoNeedlessWait
  BY DEF PoolInv
<1> QED BY <1>1, PoolInvariance, PTL

(* Once close() has been called nothing new is opened.                     *)
THEOREM ClosedOpensNothing == PoolSpec => []CloseLeavesInflightOnly
<1>1. PoolInv => CloseLeavesInflightOnly
  BY DEF PoolInv
<1> QED BY <1>1, PoolInvariance, PTL
=============================================================================
