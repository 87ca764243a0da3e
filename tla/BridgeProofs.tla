----------------------------- MODULE BridgeProofs -----------------------------
(* Theorems about Bridge: a forwarder's pumps go through session() one at a  *)
(* time, so forwarders block at most one worker thread each; and the state   *)
(* mutex, the session cache and the counts of a forwarder stay sound         *)
(* whatever callers and pumps do between two of their turns at the mutex.    *)
EXTENDS Bridge, FiniteSetTheorems, SequenceTheorems, TLAPS

-----------------------------------------------------------------------------
(* The dial lock of a forwarder.                                             *)

Flying == {"lookup", "dial", "cache"}

(* The inductive invariant: whoever is past the dial lock holds it.          *)
PumpTypes ==
  /\ pPc \in [Pumps -> {"none", "lock", "lookup", "dial", "cache", "open", "count",
                        "ended"}]
  /\ dialing \in [Forwarders -> Pumps \cup {None}]

LockHeld ==
  \A f \in Forwarders : \A p \in PumpsOf(f) : pPc[p] \in Flying => dialing[f] = p

LockInv == PumpTypes /\ LockHeld

lockVars == <<pPc, dialing>>

(* A pump is one of its forwarder's, and is never None.                      *)
LEMMA PumpFacts ==
  ASSUME NEW f \in Forwarders, NEW p \in PumpsOf(f)
  PROVE  /\ p \in Pumps /\ p # None
         /\ \A g \in Forwarders : p \in PumpsOf(g) => g = f
  BY DEF Pumps, PumpsOf, None

(* Nobody holds a dial lock at the start.                                    *)
LEMMA LockInit == Init => LockInv
  BY DEF Init, LockInv, PumpTypes, LockHeld, Flying, Pumps, PumpsOf

(* A step of the pump p of f that moves p and touches no lock but f's.       *)
LEMMA PumpMoves ==
  ASSUME LockInv, NEW f \in Forwarders, NEW p \in PumpsOf(f),
         NEW to \in {"lock", "lookup", "dial", "cache", "open", "count", "ended"},
         NEW d \in {p, None, dialing[f]},
         pPc' = [pPc EXCEPT ![p] = to],
         dialing' = [dialing EXCEPT ![f] = d],
         to \in Flying => d = p,
         d # dialing[f] => dialing[f] \in {p, None}
  PROVE  LockInv'
<1>1. p \in Pumps /\ p # None
  BY PumpFacts
<1>2. PumpTypes'
  BY <1>1 DEF LockInv, PumpTypes
<1>3. ASSUME NEW g \in Forwarders, NEW q \in PumpsOf(g), pPc'[q] \in Flying
      PROVE  dialing'[g] = q
  <2>1. q \in Pumps /\ q # None
    BY PumpFacts
  <2>2. CASE q = p
    <3>1. g = f
      BY <2>2, PumpFacts
    <3>2. pPc'[p] = to
      BY <1>1 DEF LockInv, PumpTypes
    <3> QED
      BY <1>3, <2>2, <3>1, <3>2 DEF LockInv, PumpTypes
  <2>3. CASE q # p
    <3>1. pPc'[q] = pPc[q]
      BY <1>1, <2>1, <2>3 DEF LockInv, PumpTypes
    <3>2. dialing[g] = q
      BY <1>3, <3>1 DEF LockInv, LockHeld
    <3>3. g = f => d = dialing[f]
      BY <2>1, <2>3, <3>2
    <3> QED
      BY <3>2, <3>3 DEF LockInv, PumpTypes
  <2> QED
    BY <2>2, <2>3
<1> QED
  BY <1>2, <1>3 DEF LockInv, LockHeld

(* Only who is next in the queue takes the lock, and only its holder gives   *)
(* it back.                                                                  *)
LEMMA LockStep == LockInv /\ [Next]_vars => LockInv'
<1> SUFFICES ASSUME LockInv, [Next]_vars PROVE LockInv'
  OBVIOUS
<1>u. UNCHANGED lockVars => LockInv'
  BY DEF lockVars, LockInv, PumpTypes, LockHeld
<1>1. ASSUME NEW a \in Callers, Call(a) \/ CallerStep(a) PROVE LockInv'
  <2>1. UNCHANGED lockVars
    BY <1>1 DEF lockVars, Call, CallerStep, pumpVars, StartCall, StopCall,
      ConnectCall, CloseStreams, ForwardStop, ForwardCall, StartBound, StartFails,
      StopDrain, StopClosed, ConnectLookup, ConnectReuse, ConnectDial,
      ConnectFails, ConnectCache, ConnectInsert, ForwardEndpoint, ForwardSpawn,
      ForwardFails, ForwardRegister
  <2> QED
    BY <1>u, <2>1
<1>2. ASSUME NEW f \in Forwarders, LoopStops(f) PROVE LockInv'
  BY <1>u, <1>2 DEF lockVars, LoopStops
<1>3. ASSUME NEW f \in Forwarders, NEW p \in PumpsOf(f), Accept(f, p) PROVE LockInv'
  <2>1. dialing' = [dialing EXCEPT ![f] = dialing[f]]
    BY <1>3 DEF Accept, LockInv, PumpTypes
  <2> QED
    BY <1>3, <2>1, PumpMoves DEF Accept, Flying
<1>4. ASSUME NEW f \in Forwarders, NEW p \in PumpsOf(f), Pump(f, p) PROVE LockInv'
  <2>p. p \in Pumps /\ dialing = [dialing EXCEPT ![f] = dialing[f]]
    BY PumpFacts DEF LockInv, PumpTypes
  <2>h. pPc[p] \in Flying => dialing[f] = p
    BY DEF LockInv, LockHeld
  <2>1. CASE PumpLock(f, p)
    BY <2>1, PumpMoves DEF PumpLock, PumpAt
  <2>2. CASE PumpLookup(f, p)
    BY <2>2, <2>p, <2>h, PumpMoves DEF PumpLookup, PumpAt, FreeDialLock, Flying
  <2>3. CASE PumpDial(f, p)
    BY <2>3, <2>p, <2>h, PumpMoves DEF PumpDial, PumpAt, Flying
  <2>4. CASE PumpDialFails(f, p) \/ PumpCache(f, p)
    BY <2>4, <2>h, PumpMoves DEF PumpDialFails, PumpCache, PumpAt, FreeDialLock,
      Flying
  <2>5. CASE PumpEnds(f, p) \/ PumpCounts(f, p)
    BY <2>5, <2>p, PumpMoves DEF PumpEnds, PumpCounts, PumpAt, Flying
  <2>6. CASE PumpAborted(f, p)
    <3>1. /\ pPc' = [pPc EXCEPT ![p] = "ended"]
          /\ dialing' = [dialing EXCEPT ![f] = IF dialing[f] = p THEN None
                                               ELSE dialing[f]]
      BY <2>6 DEF PumpAborted, PumpAt
    <3> QED
      BY <3>1, PumpMoves DEF Flying
  <2> QED
    BY <1>4, <2>1, <2>2, <2>3, <2>4, <2>5, <2>6 DEF Pump
<1>5. CASE (\E c \in live : SessionDies(c)) \/ UNCHANGED vars
  BY <1>u, <1>5 DEF lockVars, SessionDies, vars, pumpVars
<1> QED
  BY <1>1, <1>2, <1>3, <1>4, <1>5 DEF Next

(* So the lock excludes in every behaviour.                                  *)
LEMMA LockAlways == Spec => []LockInv
  BY LockInit, LockStep, PTL DEF Spec

(* "connections accepted together share one dial": of the pumps of one       *)
(* forwarder one at most is between the cache lookup and the caching of the  *)
(* session, for any number of forwarders and pumps.                          *)
THEOREM SingleFlightAlways == Spec => []SingleFlight
<1>1. LockInv => SingleFlight
  BY DEF LockInv, LockHeld, SingleFlight, Flying
<1> QED
  BY <1>1, LockAlways, PTL

(* The forwarder of a blocked pump is a different one for each, so forwarders*)
(* block one worker thread each at the most.                                 *)
LEMMA BlockedCount ==
  LockInv => Cardinality(Blocked) \in Nat /\ BlockedBounded
<1> SUFFICES ASSUME LockInv PROVE Cardinality(Blocked) \in Nat /\ BlockedBounded
  OBVIOUS
<1> DEFINE owner == [p \in Blocked |-> p[1]]
<1>1. ASSUME NEW p \in Blocked
      PROVE  p[1] \in Forwarders /\ p \in PumpsOf(p[1]) /\ dialing[p[1]] = p
  <2>1. p \in Pumps /\ pPc[p] \in Flying
    BY DEF Blocked, Flying
  <2>2. p[1] \in Forwarders /\ p \in PumpsOf(p[1])
    BY <2>1 DEF Pumps, PumpsOf
  <2> QED
    BY <2>1, <2>2 DEF LockInv, LockHeld
<1>2. owner \in Injection(Blocked, Forwarders)
  BY <1>1 DEF Injection, IsInjective
<1>3. IsFiniteSet(Forwarders)
  BY BridgeAssumption
<1>4. IsFiniteSet(Blocked) /\ Cardinality(Blocked) <= Cardinality(Forwarders)
  BY <1>2, <1>3, FS_Injection
<1>5. Cardinality(Blocked) \in Nat
  BY <1>4, FS_CardinalityType
<1> QED
  BY <1>4, <1>5 DEF BlockedBounded

(* Forwarders never block more worker threads than there are forwarders.     *)
THEOREM BlockedBoundedAlways == Spec => []BlockedBounded
  BY BlockedCount, LockAlways, PTL

(* With fewer forwarders than worker threads one is always free, so that     *)
(* stop() can close the endpoint while it holds the mutex; two forwarders    *)
(* and the two worker threads of state() do not satisfy this.                *)
THEOREM WorkerAlwaysFree ==
  ASSUME Cardinality(Forwarders) < Workers
  PROVE  Spec => []WorkerFree
<1>1. LockInv => WorkerFree
  <2>1. Cardinality(Forwarders) \in Nat /\ Workers \in Nat
    BY BridgeAssumption, FS_CardinalityType
  <2> QED
    BY <2>1, BlockedCount DEF BlockedBounded, WorkerFree
<1> QED
  BY <1>1, LockAlways, PTL

-----------------------------------------------------------------------------
(* The session cache.                                                        *)

(* A sequence of sessions, one per key, each with a connection that was      *)
(* dialled for its key; d is the sequence of dialled connections.            *)
GoodCache(ss, d) ==
  /\ ss \in Seq([key : Keys, conn : 1..Len(d)])
  /\ \A i, j \in 1..Len(ss) : ss[i].key = ss[j].key => i = j
  /\ \A i \in 1..Len(ss) : d[ss[i].conn].key = ss[i].key

(* Removing position n of a sequence moves up what follows it.               *)
LEMMA RemoveAtFacts ==
  ASSUME NEW S, NEW s \in Seq(S), NEW n \in 1..Len(s)
  PROVE  /\ RemoveAt(s, n) \in Seq(S)
         /\ Len(RemoveAt(s, n)) = Len(s) - 1
         /\ \A j \in 1..(Len(s) - 1) :
              RemoveAt(s, n)[j] = s[IF j < n THEN j ELSE j + 1]
<1> DEFINE u == SubSeq(s, 1, n - 1)
           v == SubSeq(s, n + 1, Len(s))
<1>1. Len(s) \in Nat /\ n \in Int /\ \A i \in 1..Len(s) : s[i] \in S
  BY LenProperties, ElementOfSeq
<1>2. /\ u \in Seq(S) /\ Len(u) = n - 1
      /\ \A i \in 1..(n - 1) : u[i] = s[i]
  <2>1. \A i \in 1..(n - 1) : s[i] \in S
    BY <1>1
  <2>2. 1 \in Int /\ n - 1 \in Int
    BY <1>1
  <2>3. /\ u \in Seq(S) /\ Len(u) = IF 1 <= n - 1 THEN n - 1 - 1 + 1 ELSE 0
        /\ \A i \in 1..(n - 1 - 1 + 1) : u[i] = s[1 + i - 1]
    BY <2>1, <2>2, SubSeqProperties
  <2> HIDE DEF u
  <2> QED
    BY <1>1, <2>3
<1>3. /\ v \in Seq(S) /\ Len(v) = Len(s) - n
      /\ \A i \in 1..(Len(s) - n) : v[i] = s[n + i]
  <2>1. \A i \in (n + 1)..Len(s) : s[i] \in S
    BY <1>1
  <2>2. n + 1 \in Int /\ Len(s) \in Int
    BY <1>1
  <2>3. /\ v \in Seq(S)
        /\ Len(v) = IF n + 1 <= Len(s) THEN Len(s) - (n + 1) + 1 ELSE 0
        /\ \A i \in 1..(Len(s) - (n + 1) + 1) : v[i] = s[n + 1 + i - 1]
    BY <2>1, <2>2, SubSeqProperties
  <2> HIDE DEF v
  <2> QED
    BY <1>1, <2>3
<1>4. RemoveAt(s, n) = u \o v
  BY DEF RemoveAt
<1> HIDE DEF u, v
<1>5. /\ u \o v \in Seq(S)
      /\ Len(u \o v) = Len(u) + Len(v)
      /\ \A i \in 1..(Len(u) + Len(v)) :
           (u \o v)[i] = IF i <= Len(u) THEN u[i] ELSE v[i - Len(u)]
  BY <1>2, <1>3, ConcatProperties
<1> DEFINE w == u \o v
<1> HIDE DEF w
<1>6. ASSUME NEW j \in 1..(Len(s) - 1)
      PROVE  w[j] = s[IF j < n THEN j ELSE j + 1]
  <2>1. CASE j < n
    BY <1>1, <1>2, <1>3, <1>5, <2>1 DEF w
  <2>2. CASE ~(j < n)
    <3>1. w[j] = v[j - (n - 1)]
      BY <1>1, <1>2, <1>3, <1>5, <2>2 DEF w
    <3>2. j - (n - 1) \in 1..(Len(s) - n) /\ n + (j - (n - 1)) = j + 1
      BY <1>1, <2>2
    <3> QED
      BY <1>3, <2>2, <3>1, <3>2
  <2> QED
    BY <2>1, <2>2
<1>7. Len(w) = Len(s) - 1
  BY <1>1, <1>2, <1>3, <1>5 DEF w
<1> QED
  BY <1>4, <1>5, <1>6, <1>7 DEF w

(* Removing a key keeps a cache good and leaves no session of that key; it   *)
(* makes room when there was one.                                            *)
LEMMA WithoutGood ==
  ASSUME GoodCache(sessions, dialled), NEW k
  PROVE  /\ GoodCache(Without(k), dialled)
         /\ \A i \in 1..Len(Without(k)) : Without(k)[i].key # k
         /\ Len(Without(k)) <= Len(sessions)
         /\ OfKey(k) # {} => Len(Without(k)) = Len(sessions) - 1
<1> DEFINE At == {i \in DOMAIN sessions : sessions[i].key = k}
           T == [key : Keys, conn : 1..Len(dialled)]
<1>1. sessions \in Seq(T) /\ Len(sessions) \in Nat /\ DOMAIN sessions = 1..Len(sessions)
  BY LenProperties DEF GoodCache
<1>g. /\ \A i, j \in 1..Len(sessions) : sessions[i].key = sessions[j].key => i = j
      /\ \A i \in 1..Len(sessions) : dialled[sessions[i].conn].key = sessions[i].key
  BY DEF GoodCache
<1>2. CASE At = {}
  <2>1. Without(k) = sessions
    BY <1>2 DEF Without
  <2>2. OfKey(k) = {}
    BY <1>2 DEF OfKey, ToSet
  <2>3. \A i \in 1..Len(sessions) : sessions[i].key # k
    BY <1>1, <1>2
  <2> QED
    BY <1>1, <2>1, <2>2, <2>3
<1>3. CASE At # {}
  <2> DEFINE n == CHOOSE i \in At : TRUE
             t == Without(k)
             From(j) == IF j < n THEN j ELSE j + 1
  <2>1. n \in 1..Len(sessions) /\ sessions[n].key = k
    BY <1>1, <1>3
  <2>2. t = RemoveAt(sessions, n)
    BY <1>3 DEF Without
  <2> HIDE DEF n, t
  <2>3. /\ t \in Seq(T) /\ Len(t) = Len(sessions) - 1
        /\ \A j \in 1..Len(t) : t[j] = sessions[From(j)]
    BY <1>1, <2>1, <2>2, RemoveAtFacts
  <2>4. ASSUME NEW j \in 1..Len(t)
        PROVE  From(j) \in 1..Len(sessions) /\ From(j) # n
    BY <1>1, <2>1, <2>3
  <2>5. ASSUME NEW i \in 1..Len(t), NEW j \in 1..Len(t), From(i) = From(j)
        PROVE  i = j
    <3>1. i \in Int /\ j \in Int /\ n \in Int
      BY <1>1, <2>1, <2>3
    <3> QED
      BY <2>5, <3>1
  <2> HIDE DEF From, T
  <2>6. \A i \in 1..Len(t) : t[i].key # k /\ dialled[t[i].conn].key = t[i].key
    <3> TAKE i \in 1..Len(t)
    <3>1. From(i) \in 1..Len(sessions) /\ From(i) # n /\ t[i] = sessions[From(i)]
      BY <2>3, <2>4
    <3> QED
      BY <1>g, <2>1, <3>1
  <2>7. \A i, j \in 1..Len(t) : t[i].key = t[j].key => i = j
    <3> TAKE i, j \in 1..Len(t)
    <3> HAVE t[i].key = t[j].key
    <3>1. /\ From(i) \in 1..Len(sessions) /\ t[i] = sessions[From(i)]
          /\ From(j) \in 1..Len(sessions) /\ t[j] = sessions[From(j)]
      BY <2>3, <2>4
    <3>2. From(i) = From(j)
      BY <1>g, <3>1
    <3> QED
      BY <2>5, <3>2
  <2>8. GoodCache(t, dialled)
    BY <2>3, <2>6, <2>7 DEF GoodCache, T
  <2>9. Len(t) <= Len(sessions)
    BY <1>1, <2>3
  <2> QED
    BY <2>3, <2>6, <2>8, <2>9 DEF t
<1> QED
  BY <1>2, <1>3

(* A session is added under a key that has none.                             *)
LEMMA AppendGood ==
  ASSUME NEW d, NEW ss, GoodCache(ss, d), NEW k \in Keys, NEW c \in 1..Len(d),
         d[c].key = k, \A i \in 1..Len(ss) : ss[i].key # k
  PROVE  /\ GoodCache(Append(ss, [key |-> k, conn |-> c]), d)
         /\ Len(Append(ss, [key |-> k, conn |-> c])) = Len(ss) + 1
<1> DEFINE s == [key |-> k, conn |-> c]
           t == Append(ss, s)
           T == [key : Keys, conn : 1..Len(d)]
<1>1. ss \in Seq(T) /\ s \in T /\ Len(ss) \in Nat /\ s.key = k /\ s.conn = c
  BY LenProperties DEF GoodCache
<1>g. /\ \A i, j \in 1..Len(ss) : ss[i].key = ss[j].key => i = j
      /\ \A i \in 1..Len(ss) : d[ss[i].conn].key = ss[i].key
  BY DEF GoodCache
<1> HIDE DEF s, T
<1>2. /\ t \in Seq(T) /\ Len(t) = Len(ss) + 1 /\ t[Len(ss) + 1] = s
      /\ \A i \in 1..Len(ss) : t[i] = ss[i]
  BY <1>1, AppendProperties
<1> HIDE DEF t
<1>3. \A i \in 1..Len(t) : i \in 1..Len(ss) \/ i = Len(ss) + 1
  BY <1>1, <1>2
<1>4. \A i \in 1..Len(t) : d[t[i].conn].key = t[i].key
  BY <1>g, <1>1, <1>2, <1>3
<1>5. \A i, j \in 1..Len(t) : t[i].key = t[j].key => i = j
  <2> TAKE i, j \in 1..Len(t)
  <2> HAVE t[i].key = t[j].key
  <2>1. CASE i \in 1..Len(ss) /\ j \in 1..Len(ss)
    BY <1>g, <1>2, <2>1
  <2>2. CASE i \in 1..Len(ss) /\ j = Len(ss) + 1
    BY <1>1, <1>2, <2>2
  <2>3. CASE j \in 1..Len(ss) /\ i = Len(ss) + 1
    BY <1>1, <1>2, <2>3
  <2> QED
    BY <1>3, <2>1, <2>2, <2>3
<1>6. GoodCache(t, d)
  BY <1>2, <1>4, <1>5 DEF GoodCache, T
<1> QED
  BY <1>2, <1>6 DEF t, s

(* The eviction loop keeps the newest sessions and respects the limit.       *)
LEMMA EvictGood ==
  ASSUME NEW d, NEW ss, GoodCache(ss, d)
  PROVE  GoodCache(Evict(ss), d) /\ Len(Evict(ss)) <= MAX_CACHED_SESSIONS
<1> DEFINE n == Len(ss)
           first == n - MAX_CACHED_SESSIONS + 1
           t == SubSeq(ss, first, n)
           T == [key : Keys, conn : 1..Len(d)]
<1>1. /\ ss \in Seq(T) /\ n \in Nat /\ MAX_CACHED_SESSIONS \in Nat \ {0}
      /\ \A i \in 1..n : ss[i] \in T
  BY LenProperties, ElementOfSeq, BridgeAssumption DEF GoodCache
<1>g. /\ \A i, j \in 1..n : ss[i].key = ss[j].key => i = j
      /\ \A i \in 1..n : d[ss[i].conn].key = ss[i].key
  BY DEF GoodCache
<1> HIDE DEF T
<1>2. CASE n <= MAX_CACHED_SESSIONS
  BY <1>2 DEF Evict
<1>3. CASE ~(n <= MAX_CACHED_SESSIONS)
  <2>1. /\ first \in Int /\ n \in Int /\ first <= n /\ first >= 1
        /\ n - first + 1 = MAX_CACHED_SESSIONS
    BY <1>1, <1>3
  <2>2. \A i \in first..n : ss[i] \in T
    BY <1>1, <2>1
  <2> HIDE DEF first, n
  <2>3. /\ t \in Seq(T) /\ Len(t) = MAX_CACHED_SESSIONS
        /\ \A i \in 1..Len(t) : t[i] = ss[first + i - 1]
    BY <2>1, <2>2, SubSeqProperties
  <2> HIDE DEF t
  <2>4. \A i \in 1..Len(t) : first + i - 1 \in 1..n
    BY <1>1, <2>1, <2>3
  <2>5. \A i, j \in 1..Len(t) : t[i].key = t[j].key => i = j
    <3> TAKE i, j \in 1..Len(t)
    <3> HAVE t[i].key = t[j].key
    <3>1. first + i - 1 = first + j - 1
      BY <1>g, <2>3, <2>4
    <3> QED
      BY <2>1, <2>3, <3>1
  <2>6. \A i \in 1..Len(t) : d[t[i].conn].key = t[i].key
    BY <1>g, <2>3, <2>4
  <2>7. GoodCache(t, d)
    BY <2>3, <2>5, <2>6 DEF GoodCache, T
  <2>8. Evict(ss) = t
    BY <1>3 DEF Evict, t, first, n
  <2> QED
    BY <1>1, <2>3, <2>7, <2>8
<1> QED
  BY <1>2, <1>3

(* A cache stays good when another connection is dialled.                    *)
LEMMA DialGood ==
  ASSUME NEW d, NEW e, NEW ss, GoodCache(ss, d), Len(d) \in Nat, Len(e) \in Nat,
         Len(d) <= Len(e), \A c \in 1..Len(d) : e[c] = d[c]
  PROVE  GoodCache(ss, e)
<1> DEFINE T == [key : Keys, conn : 1..Len(d)]
           U == [key : Keys, conn : 1..Len(e)]
<1>1. T \subseteq U
  OBVIOUS
<1>2. ss \in Seq(T) /\ \A i \in 1..Len(ss) : ss[i] \in T
  BY ElementOfSeq DEF GoodCache
<1>3. \A i \in 1..Len(ss) : ss[i].conn \in 1..Len(d)
  BY <1>2
<1> HIDE DEF T, U
<1>4. ss \in Seq(U)
  BY <1>1, <1>2, SeqMonotonic
<1> QED
  BY <1>3, <1>4 DEF GoodCache, U

-----------------------------------------------------------------------------
(* The inductive invariant.                                                  *)

DialSet    == [key : Keys, gen : 1..started]
LocalSet   == [key : Keys \cup {None}, gen : 0..started, conn : 0..Len(dialled),
               fw : Forwarders \cup {None}]

StateTypes ==
  /\ held \in BOOLEAN
  /\ started \in 0..MaxStarts /\ endpoint \in 0..started /\ open \subseteq 1..started

QuicTypes ==
  /\ dialled \in Seq(DialSet) /\ Len(dialled) <= MaxDials
  /\ live \subseteq 1..Len(dialled) /\ streams \subseteq 1..Len(dialled)

Pcs == {"idle", "binding", "stop", "closing", "lookup", "reuse", "dial", "cache",
        "insert", "forward", "spawn", "register"}

CallTypes ==
  /\ cPc \in [Callers -> Pcs]
  /\ local \in [Callers -> LocalSet]

MapTypes ==
  /\ forwarders \subseteq Forwarders /\ signalled \subseteq Forwarders
  /\ loop \in [Forwarders -> {"none", "running", "ended"}]
  /\ route \in [Forwarders -> DialSet \cup {None}]

TaskTypes ==
  /\ active \in [Forwarders -> Int]
  /\ pConn \in [Pumps -> 0..Len(dialled)]
  /\ aborted \subseteq Pumps

CacheState ==
  GoodCache(sessions, dialled) /\ Len(sessions) <= MAX_CACHED_SESSIONS

(* The state mutex: who binds or closes an endpoint holds it, alone.         *)
Holding == {"binding", "closing"}
Mutex ==
  \A a \in Callers :
    /\ cPc[a] \in Holding => held /\ \A b \in Callers : cPc[b] \in Holding => a = b
    /\ cPc[a] = "binding" => started < MaxStarts

(* What a call has in its locals at each of its positions.                   *)
WithKey  == {"lookup", "reuse", "dial", "cache", "insert", "forward", "spawn",
             "register"}
WithGen  == {"closing", "reuse", "dial", "cache", "insert", "spawn", "register"}
WithConn == {"reuse", "cache", "insert"}
WithFw   == {"forward", "spawn", "register"}

CallerGood(a) ==
  /\ cPc[a] \in WithKey => local[a].key \in Keys
  /\ cPc[a] \in WithGen => local[a].gen # 0
  /\ cPc[a] \in WithConn => /\ local[a].conn # 0
                            /\ dialled[local[a].conn].key = local[a].key
  /\ cPc[a] \in WithFw => local[a].fw \in Forwarders
  /\ cPc[a] \in {"forward", "spawn"} => loop[local[a].fw] = "none"

(* No two calls start the same forwarder.                                    *)
OwnForwarder ==
  \A a, b \in Callers :
    cPc[a] \in WithFw /\ cPc[b] \in WithFw /\ local[a].fw = local[b].fw => a = b

CallerLocals == (\A a \in Callers : CallerGood(a)) /\ OwnForwarder

(* A pump runs only after its forwarder's loop has started, is aborted only  *)
(* when that has ended, and has a connection that was dialled for the        *)
(* forwarder's key.                                                          *)
PumpGood(f, p) ==
  /\ pPc[p] # "none" => loop[f] # "none"
  /\ p \in aborted => loop[f] = "ended"
  /\ pPc[p] \in {"cache", "open"} => /\ pConn[p] # 0
                                    /\ dialled[pConn[p]].key = route[f].key

Routed ==
  \A f \in Forwarders :
    /\ loop[f] # "none" => route[f] \in DialSet
    /\ \A p \in PumpsOf(f) : PumpGood(f, p)

BridgeInv ==
  /\ LockInv /\ StateTypes /\ QuicTypes /\ CallTypes /\ MapTypes /\ TaskTypes
  /\ CacheState /\ Mutex /\ CallerLocals /\ Routed /\ ActiveCounted

(* What was bound or dialled stays so: names only get more.                  *)
Grown ==
  /\ started' \in Nat /\ started \in Nat /\ started <= started'
  /\ Len(dialled) \in Nat /\ Len(dialled') \in Nat /\ Len(dialled) <= Len(dialled')
  /\ \A c \in 1..Len(dialled) : dialled'[c] = dialled[c]

(* A dial adds one connection and keeps the others.                          *)
LEMMA DialGrows ==
  ASSUME QuicTypes, NEW k, NEW g, NEW c, Dial(k, g, c)
  PROVE  /\ Len(dialled) \in Nat /\ Len(dialled') = Len(dialled) + 1
         /\ c = Len(dialled) + 1 /\ dialled'[c] = [key |-> k, gen |-> g]
         /\ \A n \in 1..Len(dialled) : dialled'[n] = dialled[n]
<1> DEFINE e == [key |-> k, gen |-> g]
<1>1. dialled \in Seq(DialSet \cup {e}) /\ e \in DialSet \cup {e}
  BY SeqMonotonic DEF QuicTypes
<1>2. Len(dialled) \in Nat
  BY <1>1, LenProperties
<1>3. /\ dialled' = Append(dialled, e) /\ c = Len(dialled) + 1
  BY DEF Dial
<1> HIDE DEF e
<1>4. /\ Len(dialled') = Len(dialled) + 1 /\ dialled'[Len(dialled) + 1] = e
      /\ \A n \in 1..Len(dialled) : dialled'[n] = dialled[n]
  BY <1>1, <1>3, AppendProperties
<1> QED
  BY <1>2, <1>3, <1>4 DEF e

(* Nothing that was bound or dialled is forgotten.                           *)
LEMMA GrownStep ==
  ASSUME BridgeInv, [Next]_vars PROVE Grown
<1>i. StateTypes /\ QuicTypes
  BY DEF BridgeInv
<1>l. started \in Nat /\ Len(dialled) \in Nat
  BY <1>i, BridgeAssumption, LenProperties DEF StateTypes, QuicTypes
<1>u. UNCHANGED <<started, dialled>> => Grown
  BY <1>l DEF Grown
<1>1. ASSUME NEW a \in Callers, Call(a) \/ StartFails(a) \/ StopDrain(a) \/
            StopClosed(a) \/ ConnectLookup(a) \/ ConnectReuse(a) \/
            ConnectFails(a) \/ ConnectCache(a) \/ ConnectInsert(a) \/
            ForwardEndpoint(a) \/ ForwardSpawn(a) \/ ForwardFails(a) \/
            ForwardRegister(a)
      PROVE  Grown
  <2>1. UNCHANGED <<started, dialled>>
    BY <1>1 DEF Call, StartCall, StopCall, ConnectCall, CloseStreams,
      ForwardStop, ForwardCall, StartFails, StopDrain, StopClosed,
      ConnectLookup, ConnectReuse, ConnectFails, ConnectCache, ConnectInsert,
      ForwardEndpoint, ForwardSpawn, ForwardFails, ForwardRegister, CallerAt,
      CallerTo, stateVars, quicVars, callerVars, mapVars, pumpVars
  <2> QED
    BY <1>u, <2>1
<1>2. ASSUME NEW f \in Forwarders, NEW p \in PumpsOf(f), Accept(f, p) \/
            PumpLock(f, p) \/ PumpLookup(f, p) \/ PumpDialFails(f, p) \/
            PumpCache(f, p) \/ PumpEnds(f, p) \/ PumpCounts(f, p) \/
            PumpAborted(f, p)
      PROVE  Grown
  <2>1. UNCHANGED <<started, dialled>>
    BY <1>2 DEF Accept, PumpLock, PumpLookup, PumpDialFails, PumpCache,
      PumpEnds, PumpCounts, PumpAborted, PumpAt, FreeDialLock, TaskUnchanged,
      stateVars, quicVars, callerVars, mapVars, pumpVars
  <2> QED
    BY <1>u, <2>1
<1>3. ASSUME NEW f \in Forwarders, LoopStops(f) PROVE Grown
  <2>1. UNCHANGED <<started, dialled>>
    BY <1>3 DEF LoopStops, TaskUnchanged, stateVars, quicVars, callerVars,
      mapVars, pumpVars
  <2> QED
    BY <1>u, <2>1
<1>4. CASE (\E c \in live : SessionDies(c)) \/ UNCHANGED vars
  <2>1. UNCHANGED <<started, dialled>>
    BY <1>4 DEF SessionDies, vars, stateVars, quicVars, callerVars, mapVars,
      pumpVars
  <2> QED
    BY <1>u, <2>1
<1>5. ASSUME NEW a \in Callers, StartBound(a) PROVE Grown
  <2>1. started' = started + 1 /\ dialled' = dialled
    BY <1>5 DEF StartBound, CallerAt, CallerTo, stateVars, quicVars,
      callerVars, mapVars, pumpVars
  <2> QED
    BY <1>l, <2>1 DEF Grown
<1>6. ASSUME NEW a \in Callers, ConnectDial(a) PROVE Grown
  <2>1. started' = started
    BY <1>6 DEF ConnectDial, stateVars
  <2>2. PICK c \in 1..MaxDials : Dial(local[a].key, local[a].gen, c)
    BY <1>6 DEF ConnectDial
  <2>3. /\ Len(dialled') = Len(dialled) + 1
        /\ \A n \in 1..Len(dialled) : dialled'[n] = dialled[n]
    BY <1>i, <2>2, DialGrows
  <2> QED
    BY <1>l, <2>1, <2>3 DEF Grown
<1>7. ASSUME NEW f \in Forwarders, NEW p \in PumpsOf(f), PumpDial(f, p)
      PROVE  Grown
  <2>1. started' = started
    BY <1>7 DEF PumpDial, PumpAt, TaskUnchanged, stateVars
  <2>2. PICK c \in 1..MaxDials : Dial(route[f].key, route[f].gen, c)
    BY <1>7 DEF PumpDial
  <2>3. /\ Len(dialled') = Len(dialled) + 1
        /\ \A n \in 1..Len(dialled) : dialled'[n] = dialled[n]
    BY <1>i, <2>2, DialGrows
  <2> QED
    BY <1>l, <2>1, <2>3 DEF Grown
<1> QED
  BY <1>1, <1>2, <1>3, <1>4, <1>5, <1>6, <1>7 DEF Next, Call, CallerStep, Pump

(* One endpoint at a time is bound, so the bound on endpoints is kept.       *)
LEMMA StateTypesStep ==
  ASSUME BridgeInv, [Next]_vars, Grown PROVE StateTypes'
<1>i. StateTypes /\ Mutex
  BY DEF BridgeInv
<1> USE BridgeAssumption
<1>u. UNCHANGED <<held, started, endpoint, open>> => StateTypes'
  BY <1>i DEF StateTypes
<1>1. ASSUME NEW a \in Callers, ConnectLookup(a) \/ ConnectReuse(a) \/
            ConnectDial(a) \/ ConnectFails(a) \/ ConnectCache(a) \/
            ConnectInsert(a) \/ ForwardEndpoint(a) \/ ForwardSpawn(a) \/
            ForwardFails(a) \/ ForwardRegister(a) \/ StopCall(a)
      PROVE  StateTypes'
  <2>1. UNCHANGED <<held, started, endpoint, open>>
    BY <1>1 DEF ConnectLookup, ConnectReuse, ConnectDial, ConnectFails,
      ConnectCache, ConnectInsert, ForwardEndpoint, ForwardSpawn,
      ForwardFails, ForwardRegister, StopCall, CallerAt, CallerTo, stateVars,
      quicVars, callerVars, mapVars, pumpVars
  <2> QED
    BY <1>u, <2>1
<1>2. ASSUME NEW a \in Callers, NEW k \in Keys, ConnectCall(a, k)
      PROVE  StateTypes'
  <2>1. UNCHANGED <<held, started, endpoint, open>>
    BY <1>2 DEF ConnectCall, CallerAt, CallerTo, stateVars, quicVars,
      callerVars, mapVars, pumpVars
  <2> QED
    BY <1>u, <2>1
<1>3. ASSUME NEW a \in Callers, NEW c \in streams, CloseStreams(a, c)
      PROVE  StateTypes'
  <2>1. UNCHANGED <<held, started, endpoint, open>>
    BY <1>3 DEF CloseStreams, CallerAt, CallerTo, stateVars, quicVars,
      callerVars, mapVars, pumpVars
  <2> QED
    BY <1>u, <2>1
<1>4. ASSUME NEW a \in Callers, NEW f \in Forwarders, ForwardStop(a, f)
      PROVE  StateTypes'
  <2>1. UNCHANGED <<held, started, endpoint, open>>
    BY <1>4 DEF ForwardStop, CallerAt, CallerTo, stateVars, quicVars,
      callerVars, mapVars, pumpVars
  <2> QED
    BY <1>u, <2>1
<1>5. ASSUME NEW a \in Callers, NEW f \in Forwarders, NEW k \in Keys,
            ForwardCall(a, f, k)
      PROVE  StateTypes'
  <2>1. UNCHANGED <<held, started, endpoint, open>>
    BY <1>5 DEF ForwardCall, CallerAt, CallerTo, stateVars, quicVars,
      callerVars, mapVars, pumpVars
  <2> QED
    BY <1>u, <2>1
<1>6. ASSUME NEW f \in Forwarders, NEW p \in PumpsOf(f), Accept(f, p) \/
            PumpLock(f, p) \/ PumpLookup(f, p) \/ PumpDial(f, p) \/
            PumpDialFails(f, p) \/ PumpCache(f, p) \/ PumpEnds(f, p) \/
            PumpCounts(f, p) \/ PumpAborted(f, p)
      PROVE  StateTypes'
  <2>1. UNCHANGED <<held, started, endpoint, open>>
    BY <1>6 DEF Accept, PumpLock, PumpLookup, PumpDial, PumpDialFails,
      PumpCache, PumpEnds, PumpCounts, PumpAborted, PumpAt, FreeDialLock,
      TaskUnchanged, stateVars, quicVars, callerVars, mapVars, pumpVars
  <2> QED
    BY <1>u, <2>1
<1>7. ASSUME NEW f \in Forwarders, LoopStops(f) PROVE StateTypes'
  <2>1. UNCHANGED <<held, started, endpoint, open>>
    BY <1>7 DEF LoopStops, TaskUnchanged, stateVars, quicVars, callerVars,
      mapVars, pumpVars
  <2> QED
    BY <1>u, <2>1
<1>8. CASE (\E c \in live : SessionDies(c)) \/ UNCHANGED vars
  <2>1. UNCHANGED <<held, started, endpoint, open>>
    BY <1>8 DEF SessionDies, vars, stateVars, quicVars, callerVars, mapVars,
      pumpVars
  <2> QED
    BY <1>u, <2>1
<1>9. ASSUME NEW a \in Callers, StartCall(a) PROVE StateTypes'
  <2>1. UNCHANGED <<started, endpoint, open>> /\ held' = (endpoint = 0)
    BY <1>9 DEF StartCall, CallerAt, CallerTo, stateVars, quicVars,
      callerVars, mapVars, pumpVars
  <2> QED
    BY <1>i, <2>1 DEF StateTypes
<1>10. ASSUME NEW a \in Callers, StartBound(a) PROVE StateTypes'
  <2>1. /\ started < MaxStarts /\ started' = started + 1 /\ held' = FALSE
        /\ endpoint' = started' /\ open' = open \cup {started'}
    BY <1>i, <1>10 DEF StartBound, CallerAt, CallerTo, Mutex
  <2>2. started' \in 0..MaxStarts /\ endpoint' \in 0..started'
    BY <1>i, <2>1 DEF StateTypes
  <2>3. open' \subseteq 1..started'
    BY <1>i, <2>1 DEF StateTypes
  <2> QED
    BY <2>1, <2>2, <2>3 DEF StateTypes
<1>11. ASSUME NEW a \in Callers, StartFails(a) PROVE StateTypes'
  <2>1. UNCHANGED <<started, endpoint, open>> /\ held' = FALSE
    BY <1>11 DEF StartFails, CallerAt, CallerTo, stateVars, quicVars,
      callerVars, mapVars, pumpVars
  <2> QED
    BY <1>i, <2>1 DEF StateTypes
<1>12. ASSUME NEW a \in Callers, StopDrain(a) PROVE StateTypes'
  <2>1. UNCHANGED <<started, open>> /\ held' = (endpoint # 0) /\ endpoint' = 0
    BY <1>12 DEF StopDrain, CallerAt, CallerTo, stateVars, quicVars,
      callerVars, mapVars, pumpVars
  <2> QED
    BY <1>i, <2>1 DEF StateTypes
<1>13. ASSUME NEW a \in Callers, StopClosed(a) PROVE StateTypes'
  <2>1. /\ UNCHANGED <<started, endpoint>> /\ held' = FALSE
        /\ open' = open \ {local[a].gen}
    BY <1>13 DEF StopClosed, CallerAt, CallerTo, stateVars, quicVars,
      callerVars, mapVars, pumpVars
  <2> QED
    BY <1>i, <2>1 DEF StateTypes
<1> QED
  BY <1>1, <1>2, <1>3, <1>4, <1>5, <1>6, <1>7, <1>8, <1>9, <1>10, <1>11,
    <1>12, <1>13 DEF Next, Call, CallerStep, Pump

(* A dial with a known key and a bound endpoint keeps the types.             *)
LEMMA DialTyped ==
  ASSUME StateTypes, QuicTypes, Grown, NEW k \in Keys, NEW g \in 1..started, NEW c,
         Dial(k, g, c), streams' = streams
  PROVE  QuicTypes'
<1> DEFINE e == [key |-> k, gen |-> g]
<1>1. DialSet \subseteq DialSet' /\ e \in DialSet'
  BY DEF Grown, DialSet
<1>2. dialled \in Seq(DialSet')
  BY <1>1, SeqMonotonic DEF QuicTypes
<1>3. /\ dialled' = Append(dialled, e) /\ Len(dialled) < MaxDials
      /\ c = Len(dialled) + 1 /\ live' = live \cup {c}
  BY DEF Dial
<1> HIDE DEF e
<1>4. dialled' \in Seq(DialSet')
  BY <1>1, <1>2, <1>3, AppendProperties
<1>5. Len(dialled) \in Nat /\ Len(dialled') = Len(dialled) + 1
  BY <1>1, <1>2, <1>3, AppendProperties, LenProperties
<1>l. live \subseteq 1..Len(dialled)
  BY DEF QuicTypes
<1>6. Len(dialled') <= MaxDials
  BY <1>3, <1>5, BridgeAssumption
<1>8. live' \subseteq 1..Len(dialled')
  <2>1. 1..Len(dialled) \subseteq 1..Len(dialled') /\ c \in 1..Len(dialled')
    BY <1>3, <1>5
  <2> QED
    BY <1>3, <1>l, <2>1
<1>7. streams' \subseteq 1..Len(dialled')
  BY <1>5 DEF QuicTypes
<1> QED
  BY <1>4, <1>6, <1>7, <1>8 DEF QuicTypes

(* Connections are dialled for known keys, on endpoints that were bound.      *)
LEMMA QuicTypesStep ==
  ASSUME BridgeInv, [Next]_vars, Grown PROVE QuicTypes'
<1>i. StateTypes /\ QuicTypes /\ CallTypes /\ MapTypes /\ CallerLocals /\ Routed
  BY DEF BridgeInv
<1>g. dialled' = dialled => dialled' \in Seq(DialSet')
  <2>1. DialSet \subseteq DialSet'
    BY DEF Grown, DialSet
  <2> QED
    BY <1>i, <2>1, SeqMonotonic DEF QuicTypes
<1>u. UNCHANGED <<dialled, live, streams>> => QuicTypes'
  BY <1>i, <1>g DEF QuicTypes
<1>1. ASSUME NEW a \in Callers, StartBound(a) \/ StartFails(a) \/
            ConnectLookup(a) \/ ConnectReuse(a) \/ ConnectFails(a) \/
            ConnectCache(a) \/ ForwardEndpoint(a) \/ ForwardSpawn(a) \/
            ForwardFails(a) \/ ForwardRegister(a) \/ StartCall(a) \/
            StopCall(a)
      PROVE  QuicTypes'
  <2>1. UNCHANGED <<dialled, live, streams>>
    BY <1>1 DEF StartBound, StartFails, ConnectLookup, ConnectReuse,
      ConnectFails, ConnectCache, ForwardEndpoint, ForwardSpawn, ForwardFails,
      ForwardRegister, StartCall, StopCall, CallerAt, CallerTo, stateVars,
      quicVars, callerVars, mapVars, pumpVars
  <2> QED
    BY <1>u, <2>1
<1>2. ASSUME NEW a \in Callers, NEW k \in Keys, ConnectCall(a, k)
      PROVE  QuicTypes'
  <2>1. UNCHANGED <<dialled, live, streams>>
    BY <1>2 DEF ConnectCall, CallerAt, CallerTo, stateVars, quicVars,
      callerVars, mapVars, pumpVars
  <2> QED
    BY <1>u, <2>1
<1>3. ASSUME NEW a \in Callers, NEW f \in Forwarders, ForwardStop(a, f)
      PROVE  QuicTypes'
  <2>1. UNCHANGED <<dialled, live, streams>>
    BY <1>3 DEF ForwardStop, CallerAt, CallerTo, stateVars, quicVars,
      callerVars, mapVars, pumpVars
  <2> QED
    BY <1>u, <2>1
<1>4. ASSUME NEW a \in Callers, NEW f \in Forwarders, NEW k \in Keys,
            ForwardCall(a, f, k)
      PROVE  QuicTypes'
  <2>1. UNCHANGED <<dialled, live, streams>>
    BY <1>4 DEF ForwardCall, CallerAt, CallerTo, stateVars, quicVars,
      callerVars, mapVars, pumpVars
  <2> QED
    BY <1>u, <2>1
<1>5. ASSUME NEW f \in Forwarders, NEW p \in PumpsOf(f), Accept(f, p) \/
            PumpLock(f, p) \/ PumpLookup(f, p) \/ PumpDialFails(f, p) \/
            PumpCache(f, p) \/ PumpEnds(f, p) \/ PumpCounts(f, p) \/
            PumpAborted(f, p)
      PROVE  QuicTypes'
  <2>1. UNCHANGED <<dialled, live, streams>>
    BY <1>5 DEF Accept, PumpLock, PumpLookup, PumpDialFails, PumpCache,
      PumpEnds, PumpCounts, PumpAborted, PumpAt, FreeDialLock, TaskUnchanged,
      stateVars, quicVars, callerVars, mapVars, pumpVars
  <2> QED
    BY <1>u, <2>1
<1>6. ASSUME NEW f \in Forwarders, LoopStops(f) PROVE QuicTypes'
  <2>1. UNCHANGED <<dialled, live, streams>>
    BY <1>6 DEF LoopStops, TaskUnchanged, stateVars, quicVars, callerVars,
      mapVars, pumpVars
  <2> QED
    BY <1>u, <2>1
<1>7. CASE UNCHANGED vars
  <2>1. UNCHANGED <<dialled, live, streams>>
    BY <1>7 DEF vars, stateVars, quicVars, callerVars, mapVars, pumpVars
  <2> QED
    BY <1>u, <2>1
<1>8. ASSUME NEW a \in Callers, StopDrain(a) PROVE QuicTypes'
  <2>1. UNCHANGED <<dialled, live>> /\ streams' = {}
    BY <1>8 DEF StopDrain, CallerAt, CallerTo, stateVars, quicVars,
      callerVars, mapVars, pumpVars
  <2> QED
    BY <1>i, <1>g, <2>1 DEF QuicTypes
<1>9. ASSUME NEW a \in Callers, StopClosed(a) PROVE QuicTypes'
  <2>1. UNCHANGED <<dialled, streams>> /\ live' \subseteq live
    BY <1>9 DEF StopClosed, CallerAt, CallerTo, stateVars, quicVars,
      callerVars, mapVars, pumpVars
  <2> QED
    BY <1>i, <1>g, <2>1 DEF QuicTypes
<1>10. ASSUME NEW c \in live, SessionDies(c) PROVE QuicTypes'
  <2>1. UNCHANGED <<dialled, streams>> /\ live' \subseteq live
    BY <1>10 DEF SessionDies, stateVars, quicVars, callerVars, mapVars,
      pumpVars
  <2> QED
    BY <1>i, <1>g, <2>1 DEF QuicTypes
<1>11. ASSUME NEW a \in Callers, NEW c \in streams, CloseStreams(a, c)
      PROVE  QuicTypes'
  <2>1. UNCHANGED <<dialled, live>> /\ streams' \subseteq streams
    BY <1>11 DEF CloseStreams, CallerAt, CallerTo, stateVars, quicVars,
      callerVars, mapVars, pumpVars
  <2> QED
    BY <1>i, <1>g, <2>1 DEF QuicTypes
<1>12. ASSUME NEW a \in Callers, ConnectInsert(a) PROVE QuicTypes'
  <2>1. UNCHANGED <<dialled, live>> /\ streams' = streams \cup {local[a].conn}
    BY <1>12 DEF ConnectInsert, CallerAt, CallerTo, stateVars, quicVars,
      callerVars, mapVars, pumpVars
  <2>2. local[a].conn \in 0..Len(dialled) /\ local[a].conn # 0
    BY <1>i, <1>12 DEF CallTypes, LocalSet, CallerLocals, CallerGood,
      WithConn, ConnectInsert, CallerAt, CallerTo
  <2>3. local[a].conn \in 1..Len(dialled)
    BY <2>2 DEF Grown
  <2> QED
    BY <1>i, <1>g, <2>1, <2>3 DEF QuicTypes
<1>13. ASSUME NEW a \in Callers, ConnectDial(a) PROVE QuicTypes'
  <2>1. streams' = streams
    BY <1>13 DEF ConnectDial, CallerAt, CallerTo, stateVars, quicVars,
      callerVars, mapVars, pumpVars
  <2>2. PICK c \in 1..MaxDials : Dial(local[a].key, local[a].gen, c)
    BY <1>13 DEF ConnectDial
  <2>3. local[a].key \in Keys /\ local[a].gen \in 1..started
    BY <1>i, <1>13 DEF CallTypes, LocalSet, StateTypes, CallerLocals,
      CallerGood, WithKey, WithGen, ConnectDial, CallerTo
  <2> QED
    BY <1>i, <2>1, <2>2, <2>3, DialTyped
<1>14. ASSUME NEW f \in Forwarders, NEW p \in PumpsOf(f), PumpDial(f, p)
      PROVE  QuicTypes'
  <2>1. streams' = streams
    BY <1>14 DEF PumpDial, PumpAt, TaskUnchanged, stateVars, quicVars,
      callerVars, mapVars, pumpVars
  <2>2. PICK c \in 1..MaxDials : Dial(route[f].key, route[f].gen, c)
    BY <1>14 DEF PumpDial
  <2>3. route[f].key \in Keys /\ route[f].gen \in 1..started
    BY <1>i, <1>14 DEF DialSet, Routed, PumpGood, PumpDial, PumpAt
  <2> QED
    BY <1>i, <2>1, <2>2, <2>3, DialTyped
<1> QED
  BY <1>1, <1>2, <1>3, <1>4, <1>5, <1>6, <1>7, <1>8, <1>9, <1>10, <1>11,
    <1>12, <1>13, <1>14 DEF Next, Call, CallerStep, Pump

(* A call that moves on keeps the types of its position and its locals.      *)
LEMMA CallTyped ==
  ASSUME CallTypes, NEW a \in Callers, NEW from, NEW to \in Pcs, NEW l \in LocalSet,
         Grown, CallerTo(a, from, to, l)
  PROVE  CallTypes'
<1>1. LocalSet \subseteq LocalSet'
  BY DEF LocalSet, Grown
<1>2. NoCall \in LocalSet
  BY DEF LocalSet, NoCall, Grown
<1>3. cPc' \in [Callers -> Pcs]
  BY DEF CallTypes, CallerTo
<1>4. \A b \in Callers : local[b] \in LocalSet'
  BY <1>1 DEF CallTypes
<1>5. /\ DOMAIN local = Callers
      /\ local' = [local EXCEPT ![a] = IF to = "idle" THEN NoCall ELSE l]
  BY DEF CallTypes, CallerTo
<1> HIDE DEF LocalSet
<1>6. local' \in [Callers -> LocalSet']
  BY <1>1, <1>2, <1>4, <1>5 DEF CallTypes
<1> QED
  BY <1>3, <1>6 DEF CallTypes

(* Every call keeps the types of positions and locals.                       *)
LEMMA CallTypesStep ==
  ASSUME BridgeInv, [Next]_vars, Grown PROVE CallTypes'
<1>i. StateTypes /\ QuicTypes /\ CallTypes
  BY DEF BridgeInv
<1>l. /\ NoCall \in LocalSet /\ endpoint \in 0..started
      /\ \A a \in Callers : local[a] \in LocalSet
  BY <1>i DEF StateTypes, CallTypes, LocalSet, NoCall, Grown
<1>u. UNCHANGED callerVars => CallTypes'
  <2>1. LocalSet \subseteq LocalSet'
    BY DEF LocalSet, Grown
  <2> QED
    BY <1>i, <2>1 DEF CallTypes, callerVars
<1>1. ASSUME NEW a \in Callers, NEW c \in streams, CloseStreams(a, c)
      PROVE  CallTypes'
  <2>1. UNCHANGED callerVars
    BY <1>1 DEF CloseStreams, CallerAt, CallerTo, stateVars, quicVars,
      callerVars, mapVars, pumpVars
  <2> QED
    BY <1>u, <2>1
<1>2. ASSUME NEW a \in Callers, NEW f \in Forwarders, ForwardStop(a, f)
      PROVE  CallTypes'
  <2>1. UNCHANGED callerVars
    BY <1>2 DEF ForwardStop, CallerAt, CallerTo, stateVars, quicVars,
      callerVars, mapVars, pumpVars
  <2> QED
    BY <1>u, <2>1
<1>3. ASSUME NEW f \in Forwarders, NEW p \in PumpsOf(f), Accept(f, p) \/
            PumpLock(f, p) \/ PumpLookup(f, p) \/ PumpDial(f, p) \/
            PumpDialFails(f, p) \/ PumpCache(f, p) \/ PumpEnds(f, p) \/
            PumpCounts(f, p) \/ PumpAborted(f, p)
      PROVE  CallTypes'
  <2>1. UNCHANGED callerVars
    BY <1>3 DEF Accept, PumpLock, PumpLookup, PumpDial, PumpDialFails,
      PumpCache, PumpEnds, PumpCounts, PumpAborted, PumpAt, FreeDialLock,
      TaskUnchanged, stateVars, quicVars, callerVars, mapVars, pumpVars
  <2> QED
    BY <1>u, <2>1
<1>4. ASSUME NEW f \in Forwarders, LoopStops(f) PROVE CallTypes'
  <2>1. UNCHANGED callerVars
    BY <1>4 DEF LoopStops, TaskUnchanged, stateVars, quicVars, callerVars,
      mapVars, pumpVars
  <2> QED
    BY <1>u, <2>1
<1>5. CASE (\E c \in live : SessionDies(c)) \/ UNCHANGED vars
  <2>1. UNCHANGED callerVars
    BY <1>5 DEF SessionDies, vars, stateVars, quicVars, callerVars, mapVars,
      pumpVars
  <2> QED
    BY <1>u, <2>1
<1>6. ASSUME NEW a \in Callers, StartCall(a) \/ StartBound(a) \/ StartFails(a)
            \/ StopCall(a) \/ StopClosed(a) \/ ConnectReuse(a) \/
            ConnectFails(a) \/ ConnectCache(a) \/ ConnectInsert(a) \/
            ForwardSpawn(a) \/ ForwardFails(a) \/ ForwardRegister(a)
      PROVE  CallTypes'
  <2>1. PICK from \in Pcs, to \in Pcs : CallerAt(a, from, to)
    BY <1>6 DEF StartCall, StartBound, StartFails, StopCall, StopClosed,
      ConnectReuse, ConnectFails, ConnectCache, ConnectInsert, ForwardSpawn,
      ForwardFails, ForwardRegister, Pcs
  <2> QED
    BY <1>i, <1>l, <2>1, CallTyped DEF CallerAt
<1>7. ASSUME NEW a \in Callers, StopDrain(a) PROVE CallTypes'
  <2>1. [NoCall EXCEPT !.gen = endpoint] \in LocalSet
    BY <1>l DEF LocalSet, NoCall
  <2>2. CallerTo(a, "stop", IF endpoint = 0 THEN "idle" ELSE "closing",
                 [NoCall EXCEPT !.gen = endpoint])
    BY <1>7 DEF StopDrain
  <2> QED
    BY <1>i, <2>1, <2>2, CallTyped DEF Pcs
<1>8. ASSUME NEW a \in Callers, NEW k \in Keys, ConnectCall(a, k)
      PROVE  CallTypes'
  <2>1. [NoCall EXCEPT !.key = k] \in LocalSet
    BY <1>l DEF LocalSet, NoCall
  <2>2. CallerTo(a, "idle", "lookup", [NoCall EXCEPT !.key = k])
    BY <1>8 DEF ConnectCall
  <2> QED
    BY <1>i, <2>1, <2>2, CallTyped DEF Pcs
<1>9. ASSUME NEW a \in Callers, NEW f \in Forwarders, NEW k \in Keys,
            ForwardCall(a, f, k)
      PROVE  CallTypes'
  <2>1. [NoCall EXCEPT !.key = k, !.fw = f] \in LocalSet
    BY <1>l DEF LocalSet, NoCall
  <2>2. CallerTo(a, "idle", "forward", [NoCall EXCEPT !.key = k, !.fw = f])
    BY <1>9 DEF ForwardCall
  <2> QED
    BY <1>i, <2>1, <2>2, CallTyped DEF Pcs
<1>10. ASSUME NEW a \in Callers, ForwardEndpoint(a) PROVE CallTypes'
  <2>1. [local[a] EXCEPT !.gen = endpoint] \in LocalSet
    BY <1>l DEF LocalSet
  <2>2. CallerTo(a, "forward", IF endpoint = 0 THEN "idle" ELSE "spawn",
                 [local[a] EXCEPT !.gen = endpoint])
    BY <1>10 DEF ForwardEndpoint
  <2> QED
    BY <1>i, <2>1, <2>2, CallTyped DEF Pcs
<1>11. ASSUME NEW a \in Callers, ConnectLookup(a) PROVE CallTypes'
  <2>1. PICK pc \in Pcs, c \in live \cup {0} :
          CallerTo(a, "lookup", pc, [local[a] EXCEPT !.gen = endpoint, !.conn = c])
    BY <1>11 DEF ConnectLookup, Pcs
  <2>2. c \in 0..Len(dialled)
    BY <1>i, <2>1 DEF QuicTypes, Grown
  <2>3. [local[a] EXCEPT !.gen = endpoint, !.conn = c] \in LocalSet
    BY <1>l, <2>2 DEF LocalSet
  <2> QED
    BY <1>i, <2>1, <2>3, CallTyped
<1>12. ASSUME NEW a \in Callers, ConnectDial(a) PROVE CallTypes'
  <2>1. PICK c \in 1..MaxDials :
          /\ Dial(local[a].key, local[a].gen, c)
          /\ CallerTo(a, "dial", "cache", [local[a] EXCEPT !.conn = c])
    BY <1>12 DEF ConnectDial
  <2>d. Len(dialled') = Len(dialled) + 1
    BY <1>i, <2>1, DialGrows
  <2>2. c \in 0..Len(dialled')
    BY <2>1, <2>d DEF Dial, Grown
  <2>3. /\ cPc' = [cPc EXCEPT ![a] = "cache"]
        /\ local' = [local EXCEPT ![a] = [local[a] EXCEPT !.conn = c]]
    BY <2>1 DEF CallerTo
  <2>4. LocalSet \subseteq LocalSet' /\ [local[a] EXCEPT !.conn = c] \in LocalSet'
    BY <1>l, <2>2 DEF LocalSet, Grown
  <2>5. cPc' \in [Callers -> Pcs]
    BY <1>i, <2>3 DEF CallTypes, Pcs
  <2> HIDE DEF LocalSet
  <2>6. local' \in [Callers -> LocalSet']
    BY <1>i, <2>3, <2>4 DEF CallTypes
  <2> QED
    BY <2>5, <2>6 DEF CallTypes
<1> QED
  BY <1>1, <1>2, <1>3, <1>4, <1>5, <1>6, <1>7, <1>8, <1>9, <1>10, <1>11, <1>12
    DEF Next, Call, CallerStep, Pump

(* start() and stop() take the mutex before they wait and leave it after.    *)
LEMMA MutexStep ==
  ASSUME BridgeInv, [Next]_vars, Grown PROVE Mutex'
<1>i. StateTypes /\ CallTypes /\ Mutex
  BY DEF BridgeInv
<1>u. UNCHANGED <<held, cPc, started>> => Mutex'
  BY <1>i DEF Mutex
<1>1. ASSUME NEW a \in Callers, NEW c \in streams, CloseStreams(a, c)
      PROVE  Mutex'
  <2>1. UNCHANGED <<held, cPc, started>>
    BY <1>1 DEF CloseStreams, CallerAt, CallerTo, stateVars, quicVars,
      callerVars, mapVars, pumpVars
  <2> QED
    BY <1>u, <2>1
<1>2. ASSUME NEW a \in Callers, NEW f \in Forwarders, ForwardStop(a, f)
      PROVE  Mutex'
  <2>1. UNCHANGED <<held, cPc, started>>
    BY <1>2 DEF ForwardStop, CallerAt, CallerTo, stateVars, quicVars,
      callerVars, mapVars, pumpVars
  <2> QED
    BY <1>u, <2>1
<1>3. ASSUME NEW f \in Forwarders, NEW p \in PumpsOf(f), Accept(f, p) \/
            PumpLock(f, p) \/ PumpLookup(f, p) \/ PumpDial(f, p) \/
            PumpDialFails(f, p) \/ PumpCache(f, p) \/ PumpEnds(f, p) \/
            PumpCounts(f, p) \/ PumpAborted(f, p)
      PROVE  Mutex'
  <2>1. UNCHANGED <<held, cPc, started>>
    BY <1>3 DEF Accept, PumpLock, PumpLookup, PumpDial, PumpDialFails,
      PumpCache, PumpEnds, PumpCounts, PumpAborted, PumpAt, FreeDialLock,
      TaskUnchanged, stateVars, quicVars, callerVars, mapVars, pumpVars
  <2> QED
    BY <1>u, <2>1
<1>4. ASSUME NEW f \in Forwarders, LoopStops(f) PROVE Mutex'
  <2>1. UNCHANGED <<held, cPc, started>>
    BY <1>4 DEF LoopStops, TaskUnchanged, stateVars, quicVars, callerVars,
      mapVars, pumpVars
  <2> QED
    BY <1>u, <2>1
<1>5. CASE (\E c \in live : SessionDies(c)) \/ UNCHANGED vars
  <2>1. UNCHANGED <<held, cPc, started>>
    BY <1>5 DEF SessionDies, vars, stateVars, quicVars, callerVars, mapVars,
      pumpVars
  <2> QED
    BY <1>u, <2>1
<1>6. ASSUME NEW a \in Callers, StopCall(a) \/ ConnectReuse(a) \/
            ConnectFails(a) \/ ConnectCache(a) \/ ConnectInsert(a) \/
            ForwardSpawn(a) \/ ForwardFails(a) \/ ForwardRegister(a) \/
            ConnectLookup(a) \/ ConnectDial(a) \/ ForwardEndpoint(a)
      PROVE  Mutex'
  <2>1. PICK to \in Pcs \ Holding : cPc' = [cPc EXCEPT ![a] = to]
    BY <1>6 DEF StopCall, ConnectReuse, ConnectFails, ConnectCache,
      ConnectInsert, ForwardSpawn, ForwardFails, ForwardRegister,
      ConnectLookup, ConnectDial, ForwardEndpoint, CallerAt, CallerTo, Pcs,
      Holding
  <2>2. UNCHANGED <<held, started>>
    BY <1>6 DEF StopCall, ConnectReuse, ConnectFails, ConnectCache,
      ConnectInsert, ForwardSpawn, ForwardFails, ForwardRegister,
      ConnectLookup, ConnectDial, ForwardEndpoint, CallerAt, CallerTo,
      stateVars, quicVars, callerVars, mapVars, pumpVars
  <2> QED
    BY <1>i, <2>1, <2>2 DEF Mutex, Holding, CallTypes
<1>7. ASSUME NEW a \in Callers, NEW k \in Keys, ConnectCall(a, k) PROVE Mutex'
  <2>1. PICK to \in Pcs \ Holding : cPc' = [cPc EXCEPT ![a] = to]
    BY <1>7 DEF ConnectCall, CallerAt, CallerTo, Pcs, Holding
  <2>2. UNCHANGED <<held, started>>
    BY <1>7 DEF ConnectCall, CallerAt, CallerTo, stateVars, quicVars,
      callerVars, mapVars, pumpVars
  <2> QED
    BY <1>i, <2>1, <2>2 DEF Mutex, Holding, CallTypes
<1>8. ASSUME NEW a \in Callers, NEW f \in Forwarders, NEW k \in Keys,
            ForwardCall(a, f, k)
      PROVE  Mutex'
  <2>1. PICK to \in Pcs \ Holding : cPc' = [cPc EXCEPT ![a] = to]
    BY <1>8 DEF ForwardCall, CallerAt, CallerTo, Pcs, Holding
  <2>2. UNCHANGED <<held, started>>
    BY <1>8 DEF ForwardCall, CallerAt, CallerTo, stateVars, quicVars,
      callerVars, mapVars, pumpVars
  <2> QED
    BY <1>i, <2>1, <2>2 DEF Mutex, Holding, CallTypes
<1>9. ASSUME NEW a \in Callers, StartCall(a) PROVE Mutex'
  <2>1. /\ cPc[a] = "idle" /\ ~held /\ started < MaxStarts /\ started' = started
        /\ held' = (endpoint = 0)
        /\ cPc' = [cPc EXCEPT ![a] = IF endpoint = 0 THEN "binding" ELSE "idle"]
    BY <1>9 DEF StartCall, CallerAt, CallerTo, stateVars, quicVars,
      callerVars, mapVars, pumpVars
  <2> QED
    BY <1>i, <2>1 DEF Mutex, Holding, CallTypes
<1>10. ASSUME NEW a \in Callers, StartBound(a) \/ StartFails(a) \/
            StopClosed(a)
      PROVE  Mutex'
  <2>1. cPc[a] \in Holding /\ cPc' = [cPc EXCEPT ![a] = "idle"]
    BY <1>10 DEF StartBound, StartFails, StopClosed, CallerAt, CallerTo,
      stateVars, quicVars, callerVars, mapVars, pumpVars, Holding
  <2>2. \A b \in Callers : cPc'[b] \notin Holding
    BY <1>i, <2>1 DEF Mutex, Holding, CallTypes
  <2> QED
    BY <2>2 DEF Mutex, Holding
<1>11. ASSUME NEW a \in Callers, StopDrain(a) PROVE Mutex'
  <2>1. /\ ~held /\ started' = started /\ held' = (endpoint # 0)
        /\ cPc' = [cPc EXCEPT ![a] = IF endpoint = 0 THEN "idle" ELSE "closing"]
    BY <1>11 DEF StopDrain, CallerAt, CallerTo, stateVars, quicVars,
      callerVars, mapVars, pumpVars
  <2> QED
    BY <1>i, <2>1 DEF Mutex, Holding, CallTypes
<1> QED
  BY <1>1, <1>2, <1>3, <1>4, <1>5, <1>6, <1>7, <1>8, <1>9, <1>10, <1>11 DEF
    Next, Call, CallerStep, Pump

(* A forwarder's route has a known key and an endpoint that was bound.       *)
LEMMA MapTypesStep ==
  ASSUME BridgeInv, [Next]_vars, Grown PROVE MapTypes'
<1>i. StateTypes /\ CallTypes /\ MapTypes /\ CallerLocals
  BY DEF BridgeInv
<1>d. DialSet \subseteq DialSet'
  BY DEF DialSet, Grown
<1>u. UNCHANGED mapVars => MapTypes'
  BY <1>i, <1>d DEF MapTypes, mapVars
<1>1. ASSUME NEW a \in Callers, StartBound(a) \/ StartFails(a) \/ StopDrain(a)
            \/ StopClosed(a) \/ ConnectLookup(a) \/ ConnectReuse(a) \/
            ConnectDial(a) \/ ConnectFails(a) \/ ConnectCache(a) \/
            ConnectInsert(a) \/ ForwardEndpoint(a) \/ ForwardFails(a) \/
            StartCall(a)
      PROVE  MapTypes'
  <2>1. UNCHANGED mapVars
    BY <1>1 DEF StartBound, StartFails, StopDrain, StopClosed, ConnectLookup,
      ConnectReuse, ConnectDial, ConnectFails, ConnectCache, ConnectInsert,
      ForwardEndpoint, ForwardFails, StartCall, CallerAt, CallerTo, stateVars,
      quicVars, callerVars, mapVars, pumpVars
  <2> QED
    BY <1>u, <2>1
<1>2. ASSUME NEW a \in Callers, NEW k \in Keys, ConnectCall(a, k)
      PROVE  MapTypes'
  <2>1. UNCHANGED mapVars
    BY <1>2 DEF ConnectCall, CallerAt, CallerTo, stateVars, quicVars,
      callerVars, mapVars, pumpVars
  <2> QED
    BY <1>u, <2>1
<1>3. ASSUME NEW a \in Callers, NEW c \in streams, CloseStreams(a, c)
      PROVE  MapTypes'
  <2>1. UNCHANGED mapVars
    BY <1>3 DEF CloseStreams, CallerAt, CallerTo, stateVars, quicVars,
      callerVars, mapVars, pumpVars
  <2> QED
    BY <1>u, <2>1
<1>4. ASSUME NEW a \in Callers, NEW f \in Forwarders, NEW k \in Keys,
            ForwardCall(a, f, k)
      PROVE  MapTypes'
  <2>1. UNCHANGED mapVars
    BY <1>4 DEF ForwardCall, CallerAt, CallerTo, stateVars, quicVars,
      callerVars, mapVars, pumpVars
  <2> QED
    BY <1>u, <2>1
<1>5. ASSUME NEW f \in Forwarders, NEW p \in PumpsOf(f), Accept(f, p) \/
            PumpLock(f, p) \/ PumpLookup(f, p) \/ PumpDial(f, p) \/
            PumpDialFails(f, p) \/ PumpCache(f, p) \/ PumpEnds(f, p) \/
            PumpCounts(f, p) \/ PumpAborted(f, p)
      PROVE  MapTypes'
  <2>1. UNCHANGED mapVars
    BY <1>5 DEF Accept, PumpLock, PumpLookup, PumpDial, PumpDialFails,
      PumpCache, PumpEnds, PumpCounts, PumpAborted, PumpAt, FreeDialLock,
      TaskUnchanged, stateVars, quicVars, callerVars, mapVars, pumpVars
  <2> QED
    BY <1>u, <2>1
<1>6. CASE (\E c \in live : SessionDies(c)) \/ UNCHANGED vars
  <2>1. UNCHANGED mapVars
    BY <1>6 DEF SessionDies, vars, stateVars, quicVars, callerVars, mapVars,
      pumpVars
  <2> QED
    BY <1>u, <2>1
<1>7. ASSUME NEW a \in Callers, StopCall(a) PROVE MapTypes'
  <2>1. /\ UNCHANGED <<loop, route>> /\ forwarders' = {}
        /\ signalled' = signalled \cup forwarders
    BY <1>7 DEF StopCall, CallerAt, CallerTo, stateVars, quicVars, callerVars,
      mapVars, pumpVars
  <2> QED
    BY <1>i, <1>d, <2>1 DEF MapTypes
<1>8. ASSUME NEW a \in Callers, NEW f \in Forwarders, ForwardStop(a, f)
      PROVE  MapTypes'
  <2>1. /\ UNCHANGED <<loop, route>> /\ forwarders' \subseteq forwarders
        /\ signalled' = signalled \cup {f}
    BY <1>8 DEF ForwardStop, CallerAt, CallerTo, stateVars, quicVars,
      callerVars, mapVars, pumpVars
  <2> QED
    BY <1>i, <1>d, <2>1 DEF MapTypes
<1>9. ASSUME NEW a \in Callers, ForwardRegister(a) PROVE MapTypes'
  <2>1. /\ UNCHANGED <<loop, route, signalled>> /\ local[a].fw \in Forwarders
        /\ forwarders' = forwarders \cup {local[a].fw}
    BY <1>i, <1>9 DEF ForwardRegister, CallerAt, CallerTo, stateVars,
      quicVars, callerVars, mapVars, pumpVars, CallerLocals, CallerGood,
      WithFw
  <2> QED
    BY <1>i, <1>d, <2>1 DEF MapTypes
<1>10. ASSUME NEW f \in Forwarders, LoopStops(f) PROVE MapTypes'
  <2>1. /\ UNCHANGED <<forwarders, signalled, route>>
        /\ loop' = [loop EXCEPT ![f] = "ended"]
    BY <1>10 DEF LoopStops, TaskUnchanged, stateVars, quicVars, callerVars,
      mapVars, pumpVars, mapVars
  <2> QED
    BY <1>i, <1>d, <2>1 DEF MapTypes
<1>11. ASSUME NEW a \in Callers, ForwardSpawn(a) PROVE MapTypes'
  <2> DEFINE r == [key |-> local[a].key, gen |-> local[a].gen]
  <2>1. /\ UNCHANGED <<forwarders, signalled>> /\ local[a].fw \in Forwarders
        /\ local[a].key \in Keys /\ local[a].gen \in 0..started /\ local[a].gen # 0
        /\ loop' = [loop EXCEPT ![local[a].fw] = "running"]
        /\ route' = [route EXCEPT ![local[a].fw] = r]
    BY <1>i, <1>11 DEF ForwardSpawn, CallerAt, CallerTo, CallerLocals,
      CallerGood, WithFw, WithKey, WithGen, CallTypes, LocalSet
  <2>2. r \in DialSet
    BY <1>i, <2>1 DEF DialSet, StateTypes
  <2> HIDE DEF r
  <2> QED
    BY <1>i, <1>d, <2>1, <2>2 DEF MapTypes
<1> QED
  BY <1>1, <1>2, <1>3, <1>4, <1>5, <1>6, <1>7, <1>8, <1>9, <1>10, <1>11 DEF
    Next, Call, CallerStep, Pump

(* The counters of a forwarder and the connections of its pumps are numbers. *)
LEMMA TaskTypesStep ==
  ASSUME BridgeInv, [Next]_vars, Grown PROVE TaskTypes'
<1>i. QuicTypes /\ TaskTypes /\ CacheState
  BY DEF BridgeInv
<1>d. 0..Len(dialled) \subseteq 0..Len(dialled')
  BY DEF Grown
<1>p. \A f \in Forwarders : PumpsOf(f) \subseteq Pumps
  BY DEF PumpsOf, Pumps
<1>u. UNCHANGED <<active, pConn, aborted>> => TaskTypes'
  BY <1>i, <1>d DEF TaskTypes
<1>1. ASSUME NEW a \in Callers, Call(a) \/ StartBound(a) \/ StartFails(a) \/
            StopDrain(a) \/ StopClosed(a) \/ ConnectLookup(a) \/
            ConnectReuse(a) \/ ConnectDial(a) \/ ConnectFails(a) \/
            ConnectCache(a) \/ ConnectInsert(a) \/ ForwardEndpoint(a) \/
            ForwardSpawn(a) \/ ForwardFails(a) \/ ForwardRegister(a)
      PROVE  TaskTypes'
  <2>1. UNCHANGED <<active, pConn, aborted>>
    BY <1>1 DEF Call, StartCall, StopCall, ConnectCall, CloseStreams,
      ForwardStop, ForwardCall, StartBound, StartFails, StopDrain, StopClosed,
      ConnectLookup, ConnectReuse, ConnectDial, ConnectFails, ConnectCache,
      ConnectInsert, ForwardEndpoint, ForwardSpawn, ForwardFails,
      ForwardRegister, CallerAt, CallerTo, stateVars, quicVars, callerVars,
      mapVars, pumpVars
  <2> QED
    BY <1>u, <2>1
<1>2. ASSUME NEW f \in Forwarders, NEW p \in PumpsOf(f), PumpLock(f, p) \/
            PumpDialFails(f, p) \/ PumpCache(f, p)
      PROVE  TaskTypes'
  <2>1. UNCHANGED <<active, pConn, aborted>>
    BY <1>2 DEF PumpLock, PumpDialFails, PumpCache, PumpAt, FreeDialLock,
      TaskUnchanged, stateVars, quicVars, callerVars, mapVars, pumpVars
  <2> QED
    BY <1>u, <2>1
<1>3. CASE (\E c \in live : SessionDies(c)) \/ UNCHANGED vars
  <2>1. UNCHANGED <<active, pConn, aborted>>
    BY <1>3 DEF SessionDies, vars, stateVars, quicVars, callerVars, mapVars,
      pumpVars
  <2> QED
    BY <1>u, <2>1
<1>4. ASSUME NEW f \in Forwarders, LoopStops(f) PROVE TaskTypes'
  <2>1. /\ UNCHANGED pConn /\ active' = [active EXCEPT ![f] = 0]
        /\ aborted' = aborted \cup {p \in PumpsOf(f) : pPc[p] \notin {"none", "ended"}}
    BY <1>4 DEF LoopStops, TaskUnchanged, stateVars, quicVars, callerVars,
      mapVars, pumpVars
  <2> QED
    BY <1>i, <1>d, <1>p, <2>1 DEF TaskTypes
<1>5. ASSUME NEW f \in Forwarders, NEW p \in PumpsOf(f), Accept(f, p)
      PROVE  TaskTypes'
  <2>1. UNCHANGED <<pConn, aborted>> /\ active' = [active EXCEPT ![f] = active[f] + 1]
    BY <1>5 DEF Accept, TaskUnchanged, stateVars, quicVars, callerVars,
      mapVars, pumpVars
  <2> QED
    BY <1>i, <1>d, <1>p, <2>1 DEF TaskTypes
<1>6. ASSUME NEW f \in Forwarders, NEW p \in PumpsOf(f), PumpCounts(f, p)
      PROVE  TaskTypes'
  <2>1. /\ UNCHANGED <<pConn, aborted>>
        /\ active' = [active EXCEPT ![f] = IF active[f] > 0 THEN active[f] - 1 ELSE 0]
    BY <1>6 DEF PumpCounts, PumpAt, TaskUnchanged, stateVars, quicVars,
      callerVars, mapVars, pumpVars
  <2> QED
    BY <1>i, <1>d, <1>p, <2>1 DEF TaskTypes
<1>7. ASSUME NEW f \in Forwarders, NEW p \in PumpsOf(f), PumpEnds(f, p) \/
            PumpAborted(f, p)
      PROVE  TaskTypes'
  <2>1. UNCHANGED <<active, aborted>> /\ pConn' = [pConn EXCEPT ![p] = 0]
    BY <1>7 DEF PumpEnds, PumpAborted, PumpAt, TaskUnchanged, stateVars,
      quicVars, callerVars, mapVars, pumpVars
  <2> QED
    BY <1>i, <1>d, <1>p, <2>1 DEF TaskTypes
<1>8. ASSUME NEW f \in Forwarders, NEW p \in PumpsOf(f), PumpLookup(f, p)
      PROVE  TaskTypes'
  <2>1. PICK c \in live \cup {pConn[p]} : /\ UNCHANGED <<active, aborted>>
                                       /\ pConn' = [pConn EXCEPT ![p] = c]
    BY <1>i, <1>p, <1>8 DEF PumpLookup, PumpAt, FreeDialLock, TaskUnchanged,
      stateVars, quicVars, callerVars, mapVars, pumpVars, TaskTypes
  <2>2. c \in 0..Len(dialled)
    BY <1>i, <1>p, <2>1 DEF QuicTypes, TaskTypes, Grown
  <2> QED
    BY <1>i, <1>d, <1>p, <2>1, <2>2 DEF TaskTypes
<1>9. ASSUME NEW f \in Forwarders, NEW p \in PumpsOf(f), PumpDial(f, p)
      PROVE  TaskTypes'
  <2>1. UNCHANGED <<active, aborted>>
    BY <1>9 DEF PumpDial, PumpAt, TaskUnchanged, stateVars, quicVars,
      callerVars, mapVars, pumpVars
  <2>2. PICK c \in 1..MaxDials : /\ Dial(route[f].key, route[f].gen, c)
                                /\ pConn' = [pConn EXCEPT ![p] = c]
    BY <1>9 DEF PumpDial
  <2>3. Len(dialled') = Len(dialled) + 1
    BY <1>i, <2>2, DialGrows
  <2>4. c \in 0..Len(dialled')
    BY <2>2, <2>3 DEF Dial, Grown
  <2> QED
    BY <1>i, <1>d, <1>p, <2>1, <2>2, <2>4 DEF TaskTypes
<1> QED
  BY <1>1, <1>2, <1>3, <1>4, <1>5, <1>6, <1>7, <1>8, <1>9 DEF Next, Call,
    CallerStep, Pump

(* What the other calls have in their locals is not disturbed by one that    *)
(* moves on, so it is enough to look at its new position.                    *)
LEMMA CallerMoved ==
  ASSUME QuicTypes, CallTypes, CallerLocals, Grown,
         NEW a \in Callers, NEW from, NEW to \in Pcs, NEW l, CallerTo(a, from, to, l),
         \A b \in Callers \ {a} :
           cPc[b] \in {"forward", "spawn"} => loop'[local[b].fw] = loop[local[b].fw],
         to \in WithKey => l.key \in Keys,
         to \in WithGen => l.gen # 0,
         to \in WithConn => l.conn # 0 /\ dialled'[l.conn].key = l.key,
         to \in WithFw => /\ l.fw \in Forwarders
                         /\ \A b \in Callers \ {a} :
                              cPc[b] \in WithFw => local[b].fw # l.fw,
         to \in {"forward", "spawn"} => loop'[l.fw] = "none"
  PROVE  CallerLocals'
<1>1. cPc'[a] = to /\ (to # "idle" => local'[a] = l)
  BY DEF CallTypes, CallerTo
<1>2. \A b \in Callers \ {a} : cPc'[b] = cPc[b] /\ local'[b] = local[b]
  BY DEF CallTypes, CallerTo
<1>3. CallerGood(a)'
  BY <1>1 DEF CallerGood, WithKey, WithGen, WithConn, WithFw
<1>4. ASSUME NEW b \in Callers \ {a} PROVE CallerGood(b)'
  <2>1. CallerGood(b) /\ local[b].conn \in 0..Len(dialled)
    BY DEF CallerLocals, CallTypes, LocalSet
  <2>2. local[b].conn # 0 => dialled'[local[b].conn] = dialled[local[b].conn]
    BY <2>1 DEF Grown
  <2>3. cPc[b] \in WithConn => local[b].conn # 0
    BY <2>1 DEF CallerGood
  <2> QED
    BY <1>2, <2>1, <2>2, <2>3 DEF CallerGood
<1>5. OwnForwarder'
  <2> SUFFICES ASSUME NEW b \in Callers, NEW c \in Callers, cPc'[b] \in WithFw,
                      cPc'[c] \in WithFw, local'[b].fw = local'[c].fw, b # c
               PROVE  FALSE
    BY DEF OwnForwarder
  <2>1. CASE b = a \/ c = a
    BY <1>1, <1>2, <2>1 DEF WithFw
  <2>2. CASE b # a /\ c # a
    BY <1>2, <2>2 DEF CallerLocals, OwnForwarder
  <2> QED
    BY <2>1, <2>2
<1> QED
  BY <1>3, <1>4, <1>5 DEF CallerLocals

(* What a lookup reuses is a connection dialled for the key, and the cache   *)
(* is as good and as long as before.                                         *)
LEMMA ReuseGood ==
  ASSUME CacheState, NEW k, NEW c, Reuse(k, c)
  PROVE  /\ k \in Keys /\ c \in 1..Len(dialled) /\ dialled[c].key = k
         /\ GoodCache(sessions', dialled) /\ Len(sessions') <= MAX_CACHED_SESSIONS
<1> DEFINE s == [key |-> k, conn |-> c]
           T == [key : Keys, conn : 1..Len(dialled)]
<1>1. /\ GoodCache(sessions, dialled) /\ Len(sessions) <= MAX_CACHED_SESSIONS
      /\ sessions \in Seq(T) /\ Len(sessions) \in Nat
      /\ DOMAIN sessions = 1..Len(sessions)
  BY LenProperties DEF CacheState, GoodCache
<1>2. PICK i \in 1..Len(sessions) : sessions[i] = s
  BY <1>1 DEF Reuse, ToSet
<1>3. s \in T
  BY <1>1, <1>2, ElementOfSeq
<1>4. k \in Keys /\ c \in 1..Len(dialled)
  BY <1>3
<1>5. dialled[c].key = k
  BY <1>1, <1>2 DEF GoodCache
<1>6. OfKey(k) # {}
  BY <1>1, <1>2 DEF OfKey, ToSet
<1>7. /\ GoodCache(Without(k), dialled) /\ Len(Without(k)) = Len(sessions) - 1
      /\ \A j \in 1..Len(Without(k)) : Without(k)[j].key # k
  BY <1>1, <1>6, WithoutGood
<1>8. /\ GoodCache(Append(Without(k), s), dialled)
      /\ Len(Append(Without(k), s)) = Len(Without(k)) + 1
  BY <1>4, <1>5, <1>7, AppendGood
<1>9. sessions' = Append(Without(k), s)
  BY DEF Reuse
<1> HIDE DEF s, T
<1>10. Len(sessions') = Len(sessions)
  <2>1. Len(sessions') = Len(sessions) - 1 + 1
    BY <1>7, <1>8, <1>9
  <2>2. Len(sessions) \in Nat
    BY <1>1
  <2> HIDE DEF GoodCache
  <2> QED
    BY <2>1, <2>2
<1> QED
  BY <1>1, <1>4, <1>5, <1>8, <1>9, <1>10 DEF s

(* Every call finds in its locals what its next step uses.                   *)
LEMMA CallerLocalsStep ==
  ASSUME BridgeInv, [Next]_vars, Grown PROVE CallerLocals'
<1>i. StateTypes /\ QuicTypes /\ CallTypes /\ MapTypes /\ CacheState /\ CallerLocals
  BY DEF BridgeInv
<1>s. \A a \in Callers : CallerGood(a) /\ cPc[a] \in Pcs
  BY <1>i DEF CallerLocals, CallTypes
<1>u. /\ UNCHANGED callerVars
      /\ \A f \in Forwarders : loop[f] = "none" => loop'[f] = "none"
      => CallerLocals'
  <2> SUFFICES ASSUME UNCHANGED callerVars,
                      \A f \in Forwarders : loop[f] = "none" => loop'[f] = "none"
               PROVE  CallerLocals'
    OBVIOUS
  <2>1. ASSUME NEW b \in Callers PROVE CallerGood(b)'
    <3>1. CallerGood(b) /\ local[b].conn \in 0..Len(dialled)
      BY <1>i, <1>s DEF CallTypes, LocalSet
    <3>2. local[b].conn # 0 => dialled'[local[b].conn] = dialled[local[b].conn]
      BY <3>1 DEF Grown
    <3>3. cPc[b] \in {"forward", "spawn"} => local[b].fw \in Forwarders
      BY <3>1 DEF CallerGood, WithFw
    <3> QED
      BY <3>1, <3>2, <3>3 DEF CallerGood, callerVars, WithConn
  <2> QED
    BY <1>i, <2>1 DEF CallerLocals, OwnForwarder, callerVars
<1>1. ASSUME NEW a \in Callers, NEW c \in streams, CloseStreams(a, c)
      PROVE  CallerLocals'
  <2>1. UNCHANGED <<callerVars, loop>>
    BY <1>1 DEF CloseStreams, CallerAt, CallerTo, stateVars, quicVars,
      callerVars, mapVars, pumpVars
  <2> QED
    BY <1>u, <2>1
<1>2. ASSUME NEW a \in Callers, NEW f \in Forwarders, ForwardStop(a, f)
      PROVE  CallerLocals'
  <2>1. UNCHANGED <<callerVars, loop>>
    BY <1>2 DEF ForwardStop, CallerAt, CallerTo, stateVars, quicVars,
      callerVars, mapVars, pumpVars
  <2> QED
    BY <1>u, <2>1
<1>3. ASSUME NEW f \in Forwarders, NEW p \in PumpsOf(f), Accept(f, p) \/
            PumpLock(f, p) \/ PumpLookup(f, p) \/ PumpDial(f, p) \/
            PumpDialFails(f, p) \/ PumpCache(f, p) \/ PumpEnds(f, p) \/
            PumpCounts(f, p) \/ PumpAborted(f, p)
      PROVE  CallerLocals'
  <2>1. UNCHANGED <<callerVars, loop>>
    BY <1>3 DEF Accept, PumpLock, PumpLookup, PumpDial, PumpDialFails,
      PumpCache, PumpEnds, PumpCounts, PumpAborted, PumpAt, FreeDialLock,
      TaskUnchanged, stateVars, quicVars, callerVars, mapVars, pumpVars
  <2> QED
    BY <1>u, <2>1
<1>4. CASE (\E c \in live : SessionDies(c)) \/ UNCHANGED vars
  <2>1. UNCHANGED <<callerVars, loop>>
    BY <1>4 DEF SessionDies, vars, stateVars, quicVars, callerVars, mapVars,
      pumpVars
  <2> QED
    BY <1>u, <2>1
<1>5. ASSUME NEW a \in Callers, StartFails(a) \/ StopClosed(a) \/
            ConnectFails(a) \/ ConnectInsert(a) \/ ForwardFails(a) \/
            StartBound(a) \/ StopCall(a) \/ StartCall(a) \/ ForwardRegister(a)
      PROVE  CallerLocals'
  <2>1. PICK from \in Pcs, to \in {"idle", "binding", "stop"} : CallerAt(a, from, to)
    BY <1>5 DEF StartCall, StartBound, StartFails, StopCall, StopClosed,
      ConnectFails, ConnectInsert, ForwardFails, ForwardRegister, Pcs
  <2>2. loop' = loop
    BY <1>5 DEF StartFails, StopClosed, ConnectFails, ConnectInsert,
      ForwardFails, StartBound, StopCall, StartCall, ForwardRegister,
      CallerAt, CallerTo, stateVars, quicVars, callerVars, mapVars, pumpVars
  <2> QED
    BY <1>i, <2>1, <2>2, CallerMoved DEF CallerAt, Pcs, WithKey, WithGen,
      WithConn, WithFw
<1>6. ASSUME NEW f \in Forwarders, LoopStops(f) PROVE CallerLocals'
  <2>1. /\ UNCHANGED callerVars /\ loop[f] = "running"
        /\ loop' = [loop EXCEPT ![f] = "ended"]
    BY <1>6 DEF LoopStops, TaskUnchanged
  <2> QED
    BY <1>i, <1>u, <2>1 DEF MapTypes
<1>7. ASSUME NEW a \in Callers, StopDrain(a) PROVE CallerLocals'
  <2>1. /\ CallerTo(a, "stop", IF endpoint = 0 THEN "idle" ELSE "closing",
                    [NoCall EXCEPT !.gen = endpoint])
        /\ loop' = loop
    BY <1>7 DEF StopDrain, CallerAt, CallerTo, stateVars, quicVars,
      callerVars, mapVars, pumpVars
  <2> QED
    BY <1>i, <1>s, <1>7, <2>1, CallerMoved DEF Pcs, WithKey, WithGen,
      WithConn, WithFw, NoCall
<1>8. ASSUME NEW a \in Callers, NEW k \in Keys, ConnectCall(a, k)
      PROVE  CallerLocals'
  <2>1. CallerTo(a, "idle", "lookup", [NoCall EXCEPT !.key = k]) /\ loop' = loop
    BY <1>8 DEF ConnectCall, CallerAt, CallerTo, stateVars, quicVars,
      callerVars, mapVars, pumpVars
  <2> QED
    BY <1>i, <1>s, <1>8, <2>1, CallerMoved DEF Pcs, WithKey, WithGen,
      WithConn, WithFw, NoCall
<1>9. ASSUME NEW a \in Callers, NEW f \in Forwarders, NEW k \in Keys,
            ForwardCall(a, f, k)
      PROVE  CallerLocals'
  <2>1. /\ CallerTo(a, "idle", "forward", [NoCall EXCEPT !.key = k, !.fw = f])
        /\ loop' = loop
    BY <1>9 DEF ForwardCall, CallerAt, CallerTo, stateVars, quicVars,
      callerVars, mapVars, pumpVars
  <2>2. loop[f] = "none" /\ \A b \in Callers : local[b].fw # f
    BY <1>9 DEF ForwardCall
  <2> QED
    BY <1>i, <1>s, <1>9, <2>1, <2>2, CallerMoved DEF Pcs, WithKey, WithGen,
      WithConn, WithFw, NoCall
<1>10. ASSUME NEW a \in Callers, ConnectReuse(a) PROVE CallerLocals'
  <2>1. PICK to \in {"cache", "dial"} :
          CallerTo(a, "reuse", to, local[a]) /\ loop' = loop
    BY <1>10 DEF ConnectReuse, CallerAt, CallerTo, stateVars, quicVars,
      callerVars, mapVars, pumpVars
  <2>2. /\ local[a].key \in Keys /\ local[a].gen # 0 /\ local[a].conn \in 1..Len(dialled)
        /\ dialled[local[a].conn].key = local[a].key
    BY <1>i, <1>s, <2>1 DEF CallerTo, CallerGood, CallTypes, LocalSet, Grown,
      WithKey, WithGen, WithConn, WithFw
  <2>3. local[a].conn # 0 /\ dialled'[local[a].conn].key = local[a].key
    BY <2>2 DEF Grown
  <2> QED
    BY <1>i, <2>1, <2>2, <2>3, CallerMoved DEF Pcs, WithKey, WithGen,
      WithConn, WithFw
<1>11. ASSUME NEW a \in Callers, ConnectCache(a) PROVE CallerLocals'
  <2>1. CallerTo(a, "cache", "insert", local[a]) /\ loop' = loop
    BY <1>11 DEF ConnectCache, CallerAt, CallerTo, stateVars, quicVars,
      callerVars, mapVars, pumpVars
  <2>2. /\ local[a].key \in Keys /\ local[a].gen # 0 /\ local[a].conn \in 1..Len(dialled)
        /\ dialled[local[a].conn].key = local[a].key
    BY <1>i, <1>s, <2>1 DEF CallerTo, CallerGood, CallTypes, LocalSet, Grown,
      WithKey, WithGen, WithConn, WithFw
  <2>3. local[a].conn # 0 /\ dialled'[local[a].conn].key = local[a].key
    BY <2>2 DEF Grown
  <2> QED
    BY <1>i, <2>1, <2>2, <2>3, CallerMoved DEF Pcs, WithKey, WithGen,
      WithConn, WithFw
<1>12. ASSUME NEW a \in Callers, ConnectLookup(a) PROVE CallerLocals'
  <2>1. PICK pc \in {"idle", "reuse", "dial"}, c \in live \cup {0} :
          /\ CallerTo(a, "lookup", pc, [local[a] EXCEPT !.gen = endpoint, !.conn = c])
          /\ loop' = loop /\ dialled' = dialled
          /\ pc # "idle" => endpoint # 0
          /\ pc = "reuse" => c \in live /\ Reuse(local[a].key, c)
    BY <1>12 DEF ConnectLookup, CallerAt, CallerTo, stateVars, quicVars,
      callerVars, mapVars, pumpVars
  <2>2. /\ local[a].key \in Keys
        /\ local[a] \in LocalSet
    BY <1>i, <1>s, <2>1 DEF CallerTo, CallerGood, CallTypes, WithKey
  <2>3. pc = "reuse" => c # 0 /\ dialled[c].key = local[a].key
    BY <1>i, <2>1, ReuseGood, <2>2 DEF Grown
  <2> DEFINE l == [local[a] EXCEPT !.gen = endpoint, !.conn = c]
  <2>4. l.key = local[a].key /\ l.gen = endpoint /\ l.conn = c
    BY <2>2 DEF LocalSet
  <2> HIDE DEF l
  <2>5. CallerTo(a, "lookup", pc, l)
    BY <2>1 DEF l
  <2> QED
    BY <1>i, <2>1, <2>2, <2>3, <2>4, <2>5, CallerMoved DEF Pcs, WithKey,
      WithGen, WithConn, WithFw
<1>13. ASSUME NEW a \in Callers, ConnectDial(a) PROVE CallerLocals'
  <2>1. PICK c \in 1..MaxDials :
          /\ Dial(local[a].key, local[a].gen, c)
          /\ CallerTo(a, "dial", "cache", [local[a] EXCEPT !.conn = c])
    BY <1>13 DEF ConnectDial
  <2>2. loop' = loop
    BY <1>13 DEF ConnectDial, CallerAt, CallerTo, stateVars, quicVars,
      callerVars, mapVars, pumpVars
  <2>3. local[a].key \in Keys /\ local[a].gen # 0 /\ local[a] \in LocalSet
    BY <1>i, <1>s, <2>1 DEF CallerTo, CallerGood, CallTypes, WithKey, WithGen
  <2>4. dialled'[c] = [key |-> local[a].key, gen |-> local[a].gen]
    BY <1>i, <2>1, DialGrows
  <2> DEFINE l == [local[a] EXCEPT !.conn = c]
  <2>5. l.key = local[a].key /\ l.gen = local[a].gen /\ l.conn = c /\ c # 0
    BY <2>3 DEF LocalSet
  <2>6. dialled'[l.conn].key = l.key
    BY <2>4, <2>5
  <2> HIDE DEF l
  <2>7. CallerTo(a, "dial", "cache", l)
    BY <2>1 DEF l
  <2> QED
    BY <1>i, <2>2, <2>3, <2>5, <2>6, <2>7, CallerMoved DEF Pcs, WithKey,
      WithGen, WithConn, WithFw
<1>14. ASSUME NEW a \in Callers, ForwardEndpoint(a) PROVE CallerLocals'
  <2> DEFINE l == [local[a] EXCEPT !.gen = endpoint]
             to == IF endpoint = 0 THEN "idle" ELSE "spawn"
  <2>1. CallerTo(a, "forward", to, l) /\ loop' = loop
    BY <1>14 DEF ForwardEndpoint, CallerAt, CallerTo, stateVars, quicVars,
      callerVars, mapVars, pumpVars
  <2>2. /\ local[a].key \in Keys /\ local[a] \in LocalSet
        /\ local[a].fw \in Forwarders /\ loop[local[a].fw] = "none"
    BY <1>i, <1>s, <2>1 DEF CallerTo, CallerGood, CallTypes, WithKey, WithFw
  <2>3. \A b \in Callers \ {a} : cPc[b] \in WithFw => local[b].fw # local[a].fw
    BY <1>i, <2>1 DEF CallerLocals, OwnForwarder, CallerTo, WithFw
  <2>4. l.key = local[a].key /\ l.gen = endpoint /\ l.fw = local[a].fw
    BY <2>2 DEF LocalSet
  <2>5. to \in Pcs /\ (to # "idle" => to = "spawn" /\ endpoint # 0)
    BY DEF Pcs
  <2> HIDE DEF l, to
  <2> QED
    BY <1>i, <2>1, <2>2, <2>3, <2>4, <2>5, CallerMoved DEF WithKey, WithGen,
      WithConn, WithFw
<1>15. ASSUME NEW a \in Callers, ForwardSpawn(a) PROVE CallerLocals'
  <2>1. /\ CallerTo(a, "spawn", "register", local[a])
        /\ loop' = [loop EXCEPT ![local[a].fw] = "running"]
    BY <1>15 DEF ForwardSpawn, CallerAt
  <2>2. /\ local[a].key \in Keys /\ local[a].gen # 0 /\ local[a].fw \in Forwarders
    BY <1>i, <1>s, <2>1 DEF CallerTo, CallerGood, WithKey, WithGen, WithFw
  <2>3. \A b \in Callers \ {a} :
          cPc[b] \in WithFw => local[b].fw # local[a].fw /\ local[b].fw \in Forwarders
    BY <1>i, <1>s, <2>1 DEF CallerLocals, OwnForwarder, CallerTo, CallerGood,
      WithFw
  <2>4. \A b \in Callers \ {a} :
          cPc[b] \in {"forward", "spawn"} => loop'[local[b].fw] = loop[local[b].fw]
    BY <1>i, <2>1, <2>3 DEF MapTypes, WithFw
  <2> QED
    BY <1>i, <2>1, <2>2, <2>3, <2>4, CallerMoved DEF Pcs, WithKey, WithGen,
      WithConn, WithFw
<1> QED
  BY <1>1, <1>2, <1>3, <1>4, <1>5, <1>6, <1>7, <1>8, <1>9, <1>10, <1>11,
    <1>12, <1>13, <1>14, <1>15 DEF Next, Call, CallerStep, Pump

(* The cache of a stopped bridge.                                            *)
LEMMA EmptyGood ==
  ASSUME NEW d PROVE GoodCache(<<>>, d) /\ Len(<<>>) <= MAX_CACHED_SESSIONS
<1>1. <<>> \in Seq([key : Keys, conn : 1..Len(d)]) /\ Len(<<>>) = 0
  BY EmptySeq
<1> QED
  BY <1>1, BridgeAssumption DEF GoodCache

(* Caching a connection that was dialled for the key keeps the cache sound.  *)
LEMMA CacheSessionGood ==
  ASSUME CacheState, NEW k \in Keys, NEW c \in 1..Len(dialled), dialled[c].key = k,
         CacheSession(k, c)
  PROVE  GoodCache(sessions', dialled) /\ Len(sessions') <= MAX_CACHED_SESSIONS
<1> DEFINE t == Append(Without(k), [key |-> k, conn |-> c])
<1>1. /\ GoodCache(Without(k), dialled)
      /\ \A j \in 1..Len(Without(k)) : Without(k)[j].key # k
  BY WithoutGood DEF CacheState
<1>2. GoodCache(t, dialled)
  BY <1>1, AppendGood
<1>3. sessions' = Evict(t)
  BY DEF CacheSession
<1> HIDE DEF t
<1> QED
  BY <1>2, <1>3, EvictGood

(* Only connections dialled for a key are cached under it.                   *)
LEMMA CacheStateStep ==
  ASSUME BridgeInv, [Next]_vars, Grown PROVE CacheState'
<1>i. QuicTypes /\ CallTypes /\ MapTypes /\ TaskTypes /\ CacheState /\ CallerLocals
      /\ Routed
  BY DEF BridgeInv
<1>u. UNCHANGED sessions => CacheState'
  <2>1. GoodCache(sessions, dialled')
    BY <1>i, DialGood DEF CacheState, Grown
  <2> QED
    BY <1>i, <2>1 DEF CacheState
<1>1. ASSUME NEW a \in Callers, Call(a) \/ StartBound(a) \/ StartFails(a) \/
            StopClosed(a) \/ ConnectReuse(a) \/ ConnectDial(a) \/
            ConnectFails(a) \/ ConnectInsert(a) \/ ForwardEndpoint(a) \/
            ForwardSpawn(a) \/ ForwardFails(a) \/ ForwardRegister(a)
      PROVE  CacheState'
  <2>1. UNCHANGED sessions
    BY <1>1 DEF Call, StartCall, StopCall, ConnectCall, CloseStreams,
      ForwardStop, ForwardCall, StartBound, StartFails, StopClosed,
      ConnectReuse, ConnectDial, ConnectFails, ConnectInsert, ForwardEndpoint,
      ForwardSpawn, ForwardFails, ForwardRegister, CallerAt, CallerTo,
      stateVars, quicVars, callerVars, mapVars, pumpVars
  <2> QED
    BY <1>u, <2>1
<1>2. ASSUME NEW f \in Forwarders, NEW p \in PumpsOf(f), Accept(f, p) \/
            PumpLock(f, p) \/ PumpDial(f, p) \/ PumpDialFails(f, p) \/
            PumpEnds(f, p) \/ PumpCounts(f, p) \/ PumpAborted(f, p)
      PROVE  CacheState'
  <2>1. UNCHANGED sessions
    BY <1>2 DEF Accept, PumpLock, PumpDial, PumpDialFails, PumpEnds,
      PumpCounts, PumpAborted, PumpAt, FreeDialLock, TaskUnchanged, stateVars,
      quicVars, callerVars, mapVars, pumpVars
  <2> QED
    BY <1>u, <2>1
<1>3. ASSUME NEW f \in Forwarders, LoopStops(f) PROVE CacheState'
  <2>1. UNCHANGED sessions
    BY <1>3 DEF LoopStops, TaskUnchanged, stateVars, quicVars, callerVars,
      mapVars, pumpVars
  <2> QED
    BY <1>u, <2>1
<1>4. CASE (\E c \in live : SessionDies(c)) \/ UNCHANGED vars
  <2>1. UNCHANGED sessions
    BY <1>4 DEF SessionDies, vars, stateVars, quicVars, callerVars, mapVars,
      pumpVars
  <2> QED
    BY <1>u, <2>1
<1>5. ASSUME NEW a \in Callers, StopDrain(a) PROVE CacheState'
  <2>1. sessions' = <<>>
    BY <1>5 DEF StopDrain
  <2> QED
    BY <2>1, EmptyGood DEF CacheState
<1>6. ASSUME NEW a \in Callers, ConnectLookup(a) PROVE CacheState'
  <2>1. dialled' = dialled
    BY <1>6 DEF ConnectLookup, CallerAt, CallerTo, stateVars, quicVars,
      callerVars, mapVars, pumpVars
  <2>2. CASE sessions' = sessions
    BY <1>u, <2>2
  <2>3. CASE \E c \in live : Reuse(local[a].key, c)
    BY <1>i, <2>1, <2>3, ReuseGood DEF CacheState
  <2>4. CASE sessions' = Without(local[a].key)
    <3>1. /\ GoodCache(sessions', dialled) /\ Len(sessions') <= Len(sessions)
          /\ Len(sessions) <= MAX_CACHED_SESSIONS
      BY <1>i, <2>4, WithoutGood DEF CacheState
    <3>2. Len(sessions') \in Nat /\ Len(sessions) \in Nat /\ MAX_CACHED_SESSIONS \in Nat
      BY <1>i, <3>1, LenProperties, BridgeAssumption DEF CacheState, GoodCache
    <3>3. Len(sessions') <= MAX_CACHED_SESSIONS
      BY <3>1, <3>2
    <3> QED
      BY <2>1, <3>1, <3>3 DEF CacheState
  <2> QED
    BY <1>6, <2>2, <2>3, <2>4 DEF ConnectLookup
<1>7. ASSUME NEW f \in Forwarders, NEW p \in PumpsOf(f), PumpLookup(f, p)
      PROVE  CacheState'
  <2>1. dialled' = dialled
    BY <1>7 DEF PumpLookup, PumpAt, FreeDialLock, TaskUnchanged, stateVars,
      quicVars, callerVars, mapVars, pumpVars
  <2>2. CASE sessions' = sessions
    BY <1>u, <2>2
  <2>3. CASE \E c \in live : Reuse(route[f].key, c)
    BY <1>i, <2>1, <2>3, ReuseGood DEF CacheState
  <2> QED
    BY <1>7, <2>2, <2>3 DEF PumpLookup
<1>8. ASSUME NEW a \in Callers, ConnectCache(a) PROVE CacheState'
  <2>1. dialled' = dialled
    BY <1>8 DEF ConnectCache, CallerAt, CallerTo, stateVars, quicVars,
      callerVars, mapVars, pumpVars
  <2>2. CallerGood(a) /\ cPc[a] = "cache" /\ local[a].conn \in 0..Len(dialled)
    BY <1>i, <1>8 DEF CallerLocals, ConnectCache, CallerAt, CallerTo,
      CallTypes, LocalSet
  <2>3. /\ local[a].key \in Keys /\ local[a].conn \in 1..Len(dialled)
        /\ dialled[local[a].conn].key = local[a].key
    BY <2>2 DEF CallerGood, WithKey, WithConn, Grown
  <2>4. CacheSession(local[a].key, local[a].conn)
    BY <1>8 DEF ConnectCache
  <2> QED
    BY <1>i, <2>1, <2>3, <2>4, CacheSessionGood DEF CacheState
<1>9. ASSUME NEW f \in Forwarders, NEW p \in PumpsOf(f), PumpCache(f, p)
      PROVE  CacheState'
  <2>1. dialled' = dialled
    BY <1>9 DEF PumpCache, PumpAt, FreeDialLock, TaskUnchanged, stateVars,
      quicVars, callerVars, mapVars, pumpVars
  <2>2. /\ PumpGood(f, p) /\ pPc[p] = "cache" /\ p \in Pumps
        /\ pConn[p] \in 0..Len(dialled)
    BY <1>i, <1>9, PumpFacts DEF Routed, PumpCache, PumpAt, TaskTypes
  <2>3. loop[f] # "none" /\ pConn[p] # 0 /\ dialled[pConn[p]].key = route[f].key
    BY <2>2 DEF PumpGood
  <2>4. route[f].key \in Keys /\ pConn[p] \in 1..Len(dialled)
    BY <1>i, <2>2, <2>3 DEF Routed, DialSet, Grown
  <2>5. CacheSession(route[f].key, pConn[p])
    BY <1>9 DEF PumpCache
  <2> QED
    BY <1>i, <2>1, <2>3, <2>4, <2>5, CacheSessionGood DEF CacheState
<1> QED
  BY <1>1, <1>2, <1>3, <1>4, <1>5, <1>6, <1>7, <1>8, <1>9 DEF Next, Call,
    CallerStep, Pump

(* A pump that moves on disturbs no other pump.                              *)
LEMMA PumpMoved ==
  ASSUME Routed, TaskTypes, PumpTypes, Grown, NEW f \in Forwarders,
         NEW p \in PumpsOf(f), NEW to, NEW c, loop[f] # "none",
         pPc' = [pPc EXCEPT ![p] = to], pConn' = [pConn EXCEPT ![p] = c],
         UNCHANGED <<loop, route, aborted>>,
         to \in {"cache", "open"} => c # 0 /\ dialled'[c].key = route[f].key
  PROVE  Routed'
<1>1. DialSet \subseteq DialSet'
  BY DEF DialSet, Grown
<1>2. ASSUME NEW g \in Forwarders, NEW q \in PumpsOf(g) PROVE PumpGood(g, q)'
  <2>1. PumpGood(g, q) /\ q \in Pumps /\ p \in Pumps
    BY PumpFacts DEF Routed
  <2>2. CASE q = p
    <3>1. g = f
      BY <2>2, PumpFacts
    <3>2. pPc'[p] = to /\ pConn'[p] = c
      BY <2>1 DEF TaskTypes, PumpTypes
    <3> QED
      BY <2>1, <2>2, <3>1, <3>2 DEF PumpGood
  <2>3. CASE q # p
    <3>1. pPc'[q] = pPc[q] /\ pConn'[q] = pConn[q] /\ pConn[q] \in 0..Len(dialled)
      BY <2>1, <2>3 DEF TaskTypes, PumpTypes
    <3>2. pConn[q] # 0 => dialled'[pConn[q]] = dialled[pConn[q]]
      BY <3>1 DEF Grown
    <3> QED
      BY <2>1, <3>1, <3>2 DEF PumpGood
  <2> QED
    BY <2>2, <2>3
<1> QED
  BY <1>1, <1>2 DEF Routed

(* Every pump serves a forwarder that has started, with a connection dialled *)
(* for the forwarder's key, also when another one dialled it.                *)
LEMMA RoutedStep ==
  ASSUME BridgeInv, [Next]_vars, Grown PROVE Routed'
<1>i. /\ LockInv /\ PumpTypes /\ QuicTypes /\ CallTypes /\ MapTypes /\ TaskTypes
      /\ StateTypes /\ CacheState /\ CallerLocals /\ Routed
  BY DEF BridgeInv, LockInv
<1>p. \A f \in Forwarders : \A p \in PumpsOf(f) :
        /\ p \in Pumps
        /\ pPc[p] # "none" => loop[f] # "none"
        /\ pConn[p] \in 0..Len(dialled)
        /\ pConn = [pConn EXCEPT ![p] = pConn[p]]
  BY <1>i, PumpFacts DEF Routed, PumpGood, TaskTypes
<1>d. DialSet \subseteq DialSet'
  BY DEF DialSet, Grown
<1>u. UNCHANGED <<loop, route, aborted, pPc, pConn>> => Routed'
  <2> SUFFICES ASSUME UNCHANGED <<loop, route, aborted, pPc, pConn>> PROVE Routed'
    OBVIOUS
  <2>1. ASSUME NEW f \in Forwarders, NEW p \in PumpsOf(f) PROVE PumpGood(f, p)'
    <3>1. PumpGood(f, p)
      BY <1>i DEF Routed
    <3>2. pConn[p] # 0 => dialled'[pConn[p]] = dialled[pConn[p]]
      BY <1>p DEF Grown
    <3> QED
      BY <3>1, <3>2 DEF PumpGood
  <2> QED
    BY <1>i, <1>d, <2>1 DEF Routed
<1>1. ASSUME NEW a \in Callers, Call(a) \/ StartBound(a) \/ StartFails(a) \/
            StopDrain(a) \/ StopClosed(a) \/ ConnectLookup(a) \/
            ConnectReuse(a) \/ ConnectDial(a) \/ ConnectFails(a) \/
            ConnectCache(a) \/ ConnectInsert(a) \/ ForwardEndpoint(a) \/
            ForwardFails(a) \/ ForwardRegister(a)
      PROVE  Routed'
  <2>1. UNCHANGED <<loop, route, aborted, pPc, pConn>>
    BY <1>1 DEF Call, StartCall, StopCall, ConnectCall, CloseStreams,
      ForwardStop, ForwardCall, StartBound, StartFails, StopDrain, StopClosed,
      ConnectLookup, ConnectReuse, ConnectDial, ConnectFails, ConnectCache,
      ConnectInsert, ForwardEndpoint, ForwardFails, ForwardRegister, CallerAt,
      CallerTo, stateVars, quicVars, callerVars, mapVars, pumpVars
  <2> QED
    BY <1>u, <2>1
<1>2. CASE (\E c \in live : SessionDies(c)) \/ UNCHANGED vars
  <2>1. UNCHANGED <<loop, route, aborted, pPc, pConn>>
    BY <1>2 DEF SessionDies, vars, stateVars, quicVars, callerVars, mapVars,
      pumpVars
  <2> QED
    BY <1>u, <2>1
<1>3. ASSUME NEW a \in Callers, ForwardSpawn(a) PROVE Routed'
  <2> DEFINE g == local[a].fw
             r == [key |-> local[a].key, gen |-> local[a].gen]
  <2>1. CallerGood(a) /\ cPc[a] = "spawn" /\ local[a].gen \in 0..started
    BY <1>i, <1>3 DEF CallerLocals, ForwardSpawn, CallerAt, CallerTo,
      CallTypes, LocalSet
  <2>2. /\ g \in Forwarders /\ loop[g] = "none"
        /\ local[a].key \in Keys /\ local[a].gen \in 1..started
    BY <2>1 DEF CallerGood, WithKey, WithGen, WithFw, Grown
  <2>3. r \in DialSet
    BY <2>2 DEF DialSet
  <2>4. /\ loop' = [loop EXCEPT ![g] = "running"] /\ route' = [route EXCEPT ![g] = r]
        /\ UNCHANGED <<aborted, pPc, pConn, dialled>>
    BY <1>3 DEF ForwardSpawn, CallerAt, CallerTo, stateVars, quicVars,
      callerVars, mapVars, pumpVars
  <2> HIDE DEF g, r
  <2>5. ASSUME NEW f \in Forwarders
        PROVE  /\ loop'[f] # "none" => route'[f] \in DialSet
               /\ \A p \in PumpsOf(f) : PumpGood(f, p)'
    <3>1. \A p \in PumpsOf(f) : PumpGood(f, p)
      BY <1>i DEF Routed
    <3>2. CASE f = g
      <4>1. loop'[f] = "running" /\ route'[f] = r
        BY <1>i, <2>2, <2>4, <3>2 DEF MapTypes
      <4>2. \A p \in PumpsOf(f) : pPc[p] = "none" /\ p \notin aborted
        BY <2>2, <3>1, <3>2 DEF PumpGood
      <4> QED
        BY <2>3, <2>4, <4>1, <4>2 DEF PumpGood
    <3>3. CASE f # g
      <4>1. loop'[f] = loop[f] /\ route'[f] = route[f]
        BY <1>i, <2>2, <2>4, <3>3 DEF MapTypes
      <4> QED
        BY <1>i, <2>4, <3>1, <4>1 DEF PumpGood, Routed
    <3> QED
      BY <3>2, <3>3
  <2> QED
    BY <1>d, <2>5 DEF Routed
<1>4. ASSUME NEW f \in Forwarders, LoopStops(f) PROVE Routed'
  <2>1. /\ loop[f] = "running" /\ loop' = [loop EXCEPT ![f] = "ended"]
        /\ UNCHANGED <<route, pPc, pConn, dialled>>
        /\ aborted' \subseteq aborted \cup PumpsOf(f)
    BY <1>4 DEF LoopStops, TaskUnchanged, stateVars, quicVars, callerVars,
      mapVars, pumpVars
  <2>2. ASSUME NEW g \in Forwarders
        PROVE  /\ loop'[g] # "none" => route'[g] \in DialSet
               /\ \A p \in PumpsOf(g) : PumpGood(g, p)'
    <3>1. /\ \A p \in PumpsOf(g) : PumpGood(g, p)
          /\ loop[g] # "none" => route[g] \in DialSet
      BY <1>i DEF Routed
    <3>2. CASE g = f
      <4>1. loop'[g] = "ended"
        BY <1>i, <2>1, <3>2 DEF MapTypes
      <4> QED
        BY <2>1, <3>1, <3>2, <4>1 DEF PumpGood
    <3>3. CASE g # f
      <4>1. loop'[g] = loop[g]
        BY <1>i, <2>1, <3>3 DEF MapTypes
      <4>2. \A p \in PumpsOf(g) : p \notin PumpsOf(f)
        BY <3>3, PumpFacts
      <4> QED
        BY <2>1, <3>1, <4>1, <4>2 DEF PumpGood
    <3> QED
      BY <3>2, <3>3
  <2> QED
    BY <1>d, <2>2 DEF Routed
<1>5. ASSUME NEW f \in Forwarders, NEW p \in PumpsOf(f), Accept(f, p)
      PROVE  Routed'
  <2>1. /\ loop[f] = "running" /\ pPc' = [pPc EXCEPT ![p] = "lock"]
        /\ pConn' = [pConn EXCEPT ![p] = pConn[p]] /\ UNCHANGED <<loop, route, aborted>>
    BY <1>p, <1>5 DEF Accept, TaskUnchanged, stateVars, quicVars, callerVars,
      mapVars, pumpVars
  <2> QED
    BY <1>i, <1>p, <2>1, PumpMoved
<1>6. ASSUME NEW f \in Forwarders, NEW p \in PumpsOf(f), PumpLock(f, p)
      PROVE  Routed'
  <2>1. /\ pPc[p] # "none" /\ pPc' = [pPc EXCEPT ![p] = "lookup"]
        /\ pConn' = [pConn EXCEPT ![p] = pConn[p]] /\ UNCHANGED <<loop, route, aborted>>
    BY <1>i, <1>p, <1>6 DEF PumpLock, PumpAt, TaskUnchanged, stateVars,
      quicVars, callerVars, mapVars, pumpVars, TaskTypes
  <2> QED
    BY <1>i, <1>p, <2>1, PumpMoved
<1>7. ASSUME NEW f \in Forwarders, NEW p \in PumpsOf(f), PumpDialFails(f, p)
      PROVE  Routed'
  <2>1. /\ pPc[p] # "none" /\ pPc' = [pPc EXCEPT ![p] = "count"]
        /\ pConn' = [pConn EXCEPT ![p] = pConn[p]] /\ UNCHANGED <<loop, route, aborted>>
    BY <1>i, <1>p, <1>7 DEF PumpDialFails, PumpAt, FreeDialLock,
      TaskUnchanged, stateVars, quicVars, callerVars, mapVars, pumpVars,
      TaskTypes
  <2> QED
    BY <1>i, <1>p, <2>1, PumpMoved
<1>8. ASSUME NEW f \in Forwarders, NEW p \in PumpsOf(f), PumpCounts(f, p)
      PROVE  Routed'
  <2>1. /\ pPc[p] # "none" /\ pPc' = [pPc EXCEPT ![p] = "ended"]
        /\ pConn' = [pConn EXCEPT ![p] = pConn[p]] /\ UNCHANGED <<loop, route, aborted>>
    BY <1>i, <1>p, <1>8 DEF PumpCounts, PumpAt, TaskUnchanged, stateVars,
      quicVars, callerVars, mapVars, pumpVars, TaskTypes
  <2> QED
    BY <1>i, <1>p, <2>1, PumpMoved
<1>9. ASSUME NEW f \in Forwarders, NEW p \in PumpsOf(f), PumpEnds(f, p)
      PROVE  Routed'
  <2>1. /\ pPc[p] # "none" /\ pPc' = [pPc EXCEPT ![p] = "count"]
        /\ pConn' = [pConn EXCEPT ![p] = 0] /\ UNCHANGED <<loop, route, aborted>>
    BY <1>i, <1>p, <1>9 DEF PumpEnds, PumpAt, TaskUnchanged, stateVars,
      quicVars, callerVars, mapVars, pumpVars, TaskTypes
  <2> QED
    BY <1>i, <1>p, <2>1, PumpMoved
<1>10. ASSUME NEW f \in Forwarders, NEW p \in PumpsOf(f), PumpAborted(f, p)
      PROVE  Routed'
  <2>1. /\ pPc[p] # "none" /\ pPc' = [pPc EXCEPT ![p] = "ended"]
        /\ pConn' = [pConn EXCEPT ![p] = 0] /\ UNCHANGED <<loop, route, aborted>>
    BY <1>i, <1>p, <1>10 DEF PumpAborted, PumpAt, TaskUnchanged, stateVars,
      quicVars, callerVars, mapVars, pumpVars, TaskTypes
  <2> QED
    BY <1>i, <1>p, <2>1, PumpMoved
<1>11. ASSUME NEW f \in Forwarders, NEW p \in PumpsOf(f), PumpLookup(f, p)
      PROVE  Routed'
  <2>1. PICK to \in {"open", "dial"}, c \in live \cup {pConn[p]} :
          /\ pPc[p] = "lookup" /\ pPc' = [pPc EXCEPT ![p] = to]
          /\ pConn' = [pConn EXCEPT ![p] = c]
          /\ to = "open" => Reuse(route[f].key, c)
    BY <1>p, <1>11 DEF PumpLookup, PumpAt, FreeDialLock, TaskUnchanged,
      stateVars, quicVars, callerVars, mapVars, pumpVars
  <2>2. UNCHANGED <<loop, route, aborted, dialled>>
    BY <1>11 DEF PumpLookup, PumpAt, FreeDialLock, TaskUnchanged, stateVars,
      quicVars, callerVars, mapVars, pumpVars
  <2>3. to = "open" => c # 0 /\ dialled'[c].key = route[f].key
    BY <1>i, <2>1, <2>2, ReuseGood DEF Grown
  <2> QED
    BY <1>i, <1>p, <2>1, <2>2, <2>3, PumpMoved
<1>12. ASSUME NEW f \in Forwarders, NEW p \in PumpsOf(f), PumpDial(f, p)
      PROVE  Routed'
  <2>1. PICK c \in 1..MaxDials : /\ Dial(route[f].key, route[f].gen, c)
                                /\ pConn' = [pConn EXCEPT ![p] = c]
    BY <1>12 DEF PumpDial
  <2>2. /\ pPc[p] = "dial" /\ pPc' = [pPc EXCEPT ![p] = "cache"]
        /\ UNCHANGED <<loop, route, aborted>>
    BY <1>12 DEF PumpDial, PumpAt, TaskUnchanged, stateVars, quicVars,
      callerVars, mapVars, pumpVars
  <2>3. dialled'[c] = [key |-> route[f].key, gen |-> route[f].gen]
    BY <1>i, <2>1, DialGrows
  <2>4. c # 0 /\ dialled'[c].key = route[f].key
    BY <2>1, <2>3
  <2> QED
    BY <1>i, <1>p, <2>1, <2>2, <2>4, PumpMoved
<1>13. ASSUME NEW f \in Forwarders, NEW p \in PumpsOf(f), PumpCache(f, p)
      PROVE  Routed'
  <2>1. /\ pPc[p] = "cache" /\ pPc' = [pPc EXCEPT ![p] = "open"]
        /\ pConn' = [pConn EXCEPT ![p] = pConn[p]]
        /\ UNCHANGED <<loop, route, aborted, dialled>>
    BY <1>p, <1>13 DEF PumpCache, PumpAt, FreeDialLock, TaskUnchanged,
      stateVars, quicVars, callerVars, mapVars, pumpVars
  <2>2. pConn[p] # 0 /\ dialled'[pConn[p]].key = route[f].key
    BY <1>i, <2>1 DEF Routed, PumpGood
  <2> QED
    BY <1>i, <1>p, <2>1, <2>2, PumpMoved
<1> QED
  BY <1>1, <1>2, <1>3, <1>4, <1>5, <1>6, <1>7, <1>8, <1>9, <1>10, <1>11,
    <1>12, <1>13 DEF Next, Call, CallerStep, Pump

-----------------------------------------------------------------------------
(* active_connections.                                                       *)

Running(f) == {p \in PumpsOf(f) : pPc[p] \notin {"none", "ended"}}
Count(f)   == IF loop[f] = "running" THEN Cardinality(Running(f)) ELSE 0

(* A forwarder has finitely many pumps that run.                             *)
LEMMA RunningFinite ==
  ASSUME NEW f \in Forwarders
  PROVE  IsFiniteSet(Running(f)) /\ Cardinality(Running(f)) \in Nat
<1>1. IsFiniteSet(1..PumpsPerForwarder)
  BY BridgeAssumption, FS_Interval
<1>2. IsFiniteSet({f})
  BY FS_Singleton
<1>3. IsFiniteSet(PumpsOf(f))
  BY <1>1, <1>2, FS_Product DEF PumpsOf
<1>4. IsFiniteSet(Running(f))
  BY <1>3, FS_Subset DEF Running
<1> QED
  BY <1>4, FS_CardinalityType

(* A pump that moves joins or leaves those that run, and no other does.      *)
LEMMA RunningMoves ==
  ASSUME PumpTypes, NEW f \in Forwarders, NEW p \in PumpsOf(f), NEW to,
         pPc' = [pPc EXCEPT ![p] = to]
  PROVE  /\ \A g \in Forwarders : g # f => Running(g)' = Running(g)
         /\ to \notin {"none", "ended"} => Running(f)' = Running(f) \cup {p}
         /\ to \in {"none", "ended"} => Running(f)' = Running(f) \ {p}
<1>1. p \in Pumps /\ pPc'[p] = to
  BY PumpFacts DEF PumpTypes
<1>2. \A g \in Forwarders : \A q \in PumpsOf(g) : q # p => pPc'[q] = pPc[q]
  BY PumpFacts DEF PumpTypes
<1>3. \A g \in Forwarders : g # f => p \notin PumpsOf(g)
  BY PumpFacts
<1> QED
  BY <1>1, <1>2, <1>3 DEF Running

(* The counter of one forwarder changes; those of the others stay right as   *)
(* long as neither their loops nor their pumps change.                       *)
LEMMA CountMoves ==
  ASSUME ActiveCounted, TaskTypes, NEW f \in Forwarders, NEW n,
         active' = [active EXCEPT ![f] = n], n = Count(f)',
         \A g \in Forwarders : g # f => Count(g)' = Count(g)
  PROVE  ActiveCounted'
<1>1. \A g \in Forwarders : active[g] = Count(g)
  BY DEF ActiveCounted, Count, Running
<1>2. \A g \in Forwarders : active'[g] = Count(g)'
  BY <1>1 DEF TaskTypes
<1> QED
  BY <1>2 DEF ActiveCounted, Count, Running

(* A pump that neither starts nor ends leaves the counters right.            *)
LEMMA PumpKeepsCounts ==
  ASSUME ActiveCounted, TaskTypes, PumpTypes, NEW f \in Forwarders,
         NEW p \in PumpsOf(f), NEW to, to \notin {"none", "ended"},
         pPc[p] \notin {"none", "ended"}, pPc' = [pPc EXCEPT ![p] = to],
         UNCHANGED <<active, loop>>
  PROVE  ActiveCounted'
<1>1. \A g \in Forwarders : Running(g)' = Running(g)
  BY RunningMoves DEF Running
<1> QED
  BY <1>1 DEF ActiveCounted, Running

(* active_connections stays right: the accept loop adds one for the task it  *)
(* spawns, the task subtracts its one at its end, and when the loop ends it  *)
(* resets the counter that the aborted tasks leave at 0.                     *)
LEMMA ActiveCountedStep ==
  ASSUME BridgeInv, [Next]_vars PROVE ActiveCounted'
<1>i. /\ PumpTypes /\ CallTypes /\ MapTypes /\ TaskTypes /\ CallerLocals
      /\ Routed /\ ActiveCounted
  BY DEF BridgeInv, LockInv
<1>c. \A f \in Forwarders : active[f] = Count(f)
  BY <1>i DEF ActiveCounted, Count, Running
<1>u. UNCHANGED <<active, loop, pPc>> => ActiveCounted'
  BY <1>i DEF ActiveCounted
<1>1. ASSUME NEW a \in Callers, Call(a) \/ StartBound(a) \/ StartFails(a) \/
            StopDrain(a) \/ StopClosed(a) \/ ConnectLookup(a) \/
            ConnectReuse(a) \/ ConnectDial(a) \/ ConnectFails(a) \/
            ConnectCache(a) \/ ConnectInsert(a) \/ ForwardEndpoint(a) \/
            ForwardFails(a) \/ ForwardRegister(a)
      PROVE  ActiveCounted'
  <2>1. UNCHANGED <<active, loop, pPc>>
    BY <1>1 DEF Call, StartCall, StopCall, ConnectCall, CloseStreams,
      ForwardStop, ForwardCall, StartBound, StartFails, StopDrain, StopClosed,
      ConnectLookup, ConnectReuse, ConnectDial, ConnectFails, ConnectCache,
      ConnectInsert, ForwardEndpoint, ForwardFails, ForwardRegister, CallerAt,
      CallerTo, stateVars, quicVars, callerVars, mapVars, pumpVars
  <2> QED
    BY <1>u, <2>1
<1>2. CASE (\E c \in live : SessionDies(c)) \/ UNCHANGED vars
  <2>1. UNCHANGED <<active, loop, pPc>>
    BY <1>2 DEF SessionDies, vars, stateVars, quicVars, callerVars, mapVars,
      pumpVars
  <2> QED
    BY <1>u, <2>1
<1>3. ASSUME NEW a \in Callers, ForwardSpawn(a) PROVE ActiveCounted'
  <2>1. CallerGood(a) /\ cPc[a] = "spawn"
    BY <1>i, <1>3 DEF CallerLocals, ForwardSpawn, CallerAt, CallerTo
  <2>2. PICK g \in Forwarders : g = local[a].fw /\ loop[g] = "none"
    BY <2>1 DEF CallerGood, WithFw
  <2>3. loop' = [loop EXCEPT ![g] = "running"] /\ UNCHANGED <<active, pPc>>
    BY <1>3, <2>2 DEF ForwardSpawn, pumpVars
  <2>4. \A f \in Forwarders : Running(f)' = Running(f)
    BY <2>3 DEF Running
  <2>5. Running(g) = {}
    BY <1>i, <2>2 DEF Routed, PumpGood, Running
  <2>6. Count(g)' = 0 /\ active[g] = 0
    BY <1>c, <2>2, <2>3, <2>4, <2>5, FS_EmptySet DEF Count
  <2>7. \A f \in Forwarders : f # g => Count(f)' = Count(f)
    BY <1>i, <2>2, <2>3, <2>4 DEF Count, MapTypes
  <2>8. active' = [active EXCEPT ![g] = 0]
    BY <1>i, <2>2, <2>3, <2>6 DEF TaskTypes
  <2> QED
    BY <1>i, <2>2, <2>6, <2>7, <2>8, CountMoves
<1>4. ASSUME NEW f \in Forwarders, LoopStops(f) PROVE ActiveCounted'
  <2>1. /\ loop' = [loop EXCEPT ![f] = "ended"]
        /\ active' = [active EXCEPT ![f] = 0] /\ UNCHANGED pPc
    BY <1>4 DEF LoopStops
  <2>2. \A g \in Forwarders : Running(g)' = Running(g)
    BY <2>1 DEF Running
  <2>3. Count(f)' = 0 /\ \A g \in Forwarders : g # f => Count(g)' = Count(g)
    BY <1>i, <2>1, <2>2 DEF Count, MapTypes
  <2> QED
    BY <1>i, <2>1, <2>3, CountMoves
<1>5. ASSUME NEW f \in Forwarders, NEW p \in PumpsOf(f), Accept(f, p)
      PROVE  ActiveCounted'
  <2>1. /\ loop[f] = "running" /\ pPc[p] = "none" /\ UNCHANGED loop
        /\ pPc' = [pPc EXCEPT ![p] = "lock"]
        /\ active' = [active EXCEPT ![f] = active[f] + 1]
    BY <1>5 DEF Accept
  <2>2. /\ Running(f)' = Running(f) \cup {p}
        /\ \A g \in Forwarders : g # f => Running(g)' = Running(g)
    <3>1. "lock" \notin {"none", "ended"}
      OBVIOUS
    <3> QED
      BY <1>i, <2>1, <3>1, RunningMoves
  <2>3. p \notin Running(f)
    BY <2>1 DEF Running
  <2>4. Cardinality(Running(f)') = Cardinality(Running(f)) + 1
    BY <2>2, <2>3, RunningFinite, FS_AddElement
  <2>5. active[f] + 1 = Count(f)'
    BY <1>c, <2>1, <2>4 DEF Count
  <2>6. \A g \in Forwarders : g # f => Count(g)' = Count(g)
    BY <2>1, <2>2 DEF Count
  <2> QED
    BY <1>i, <2>1, <2>5, <2>6, CountMoves
<1>6. ASSUME NEW f \in Forwarders, NEW p \in PumpsOf(f), PumpCounts(f, p)
      PROVE  ActiveCounted'
  <2> DEFINE n == IF active[f] > 0 THEN active[f] - 1 ELSE 0
  <2>1. /\ pPc[p] = "count" /\ pPc' = [pPc EXCEPT ![p] = "ended"]
        /\ active' = [active EXCEPT ![f] = n] /\ UNCHANGED loop
    BY <1>6 DEF PumpCounts, PumpAt
  <2>2. /\ Running(f)' = Running(f) \ {p}
        /\ \A g \in Forwarders : g # f => Running(g)' = Running(g)
    BY <1>i, <2>1, RunningMoves
  <2>3. p \in Running(f)
    BY <2>1 DEF Running
  <2>4. /\ Cardinality(Running(f)') = Cardinality(Running(f)) - 1
        /\ Cardinality(Running(f)) \in Nat /\ Cardinality(Running(f)) # 0
    BY <2>2, <2>3, RunningFinite, FS_RemoveElement, FS_EmptySet
  <2>5. n = Count(f)'
    BY <1>c, <2>1, <2>4 DEF Count
  <2> HIDE DEF n
  <2>6. \A g \in Forwarders : g # f => Count(g)' = Count(g)
    BY <2>1, <2>2 DEF Count
  <2> QED
    BY <1>i, <2>1, <2>5, <2>6, CountMoves
<1>7. ASSUME NEW f \in Forwarders, NEW p \in PumpsOf(f), PumpAborted(f, p)
      PROVE  ActiveCounted'
  <2>1. /\ p \in aborted /\ pPc' = [pPc EXCEPT ![p] = "ended"]
        /\ UNCHANGED <<active, loop>>
    BY <1>7 DEF PumpAborted, PumpAt
  <2>2. loop[f] = "ended"
    BY <1>i, <2>1 DEF Routed, PumpGood
  <2>3. \A g \in Forwarders : g # f => Count(g)' = Count(g)
    BY <1>i, <2>1, RunningMoves DEF Count
  <2>4. active[f] = Count(f)' /\ active' = [active EXCEPT ![f] = active[f]]
    BY <1>i, <1>c, <2>1, <2>2 DEF Count, TaskTypes
  <2> QED
    BY <1>i, <2>3, <2>4, CountMoves
<1>8. ASSUME NEW f \in Forwarders, NEW p \in PumpsOf(f), PumpLock(f, p)
      PROVE  ActiveCounted'
  <2>1. PICK to \in {"lookup", "open", "dial", "cache", "count"} :
          /\ pPc[p] \in {"lock", "lookup", "dial", "cache", "open"}
          /\ pPc' = [pPc EXCEPT ![p] = to] /\ UNCHANGED <<active, loop>>
    BY <1>8 DEF PumpLock, PumpAt
  <2> QED
    BY <1>i, <2>1, PumpKeepsCounts
<1>9. ASSUME NEW f \in Forwarders, NEW p \in PumpsOf(f), PumpLookup(f, p)
      PROVE  ActiveCounted'
  <2>1. PICK to \in {"lookup", "open", "dial", "cache", "count"} :
          /\ pPc[p] \in {"lock", "lookup", "dial", "cache", "open"}
          /\ pPc' = [pPc EXCEPT ![p] = to] /\ UNCHANGED <<active, loop>>
    BY <1>9 DEF PumpLookup, PumpAt
  <2> QED
    BY <1>i, <2>1, PumpKeepsCounts
<1>10. ASSUME NEW f \in Forwarders, NEW p \in PumpsOf(f), PumpDial(f, p)
      PROVE  ActiveCounted'
  <2>1. PICK to \in {"lookup", "open", "dial", "cache", "count"} :
          /\ pPc[p] \in {"lock", "lookup", "dial", "cache", "open"}
          /\ pPc' = [pPc EXCEPT ![p] = to] /\ UNCHANGED <<active, loop>>
    BY <1>10 DEF PumpDial, PumpAt
  <2> QED
    BY <1>i, <2>1, PumpKeepsCounts
<1>11. ASSUME NEW f \in Forwarders, NEW p \in PumpsOf(f), PumpDialFails(f, p)
      PROVE  ActiveCounted'
  <2>1. PICK to \in {"lookup", "open", "dial", "cache", "count"} :
          /\ pPc[p] \in {"lock", "lookup", "dial", "cache", "open"}
          /\ pPc' = [pPc EXCEPT ![p] = to] /\ UNCHANGED <<active, loop>>
    BY <1>11 DEF PumpDialFails, PumpAt
  <2> QED
    BY <1>i, <2>1, PumpKeepsCounts
<1>12. ASSUME NEW f \in Forwarders, NEW p \in PumpsOf(f), PumpCache(f, p)
      PROVE  ActiveCounted'
  <2>1. PICK to \in {"lookup", "open", "dial", "cache", "count"} :
          /\ pPc[p] \in {"lock", "lookup", "dial", "cache", "open"}
          /\ pPc' = [pPc EXCEPT ![p] = to] /\ UNCHANGED <<active, loop>>
    BY <1>12 DEF PumpCache, PumpAt
  <2> QED
    BY <1>i, <2>1, PumpKeepsCounts
<1>13. ASSUME NEW f \in Forwarders, NEW p \in PumpsOf(f), PumpEnds(f, p)
      PROVE  ActiveCounted'
  <2>1. PICK to \in {"lookup", "open", "dial", "cache", "count"} :
          /\ pPc[p] \in {"lock", "lookup", "dial", "cache", "open"}
          /\ pPc' = [pPc EXCEPT ![p] = to] /\ UNCHANGED <<active, loop>>
    BY <1>13 DEF PumpEnds, PumpAt
  <2> QED
    BY <1>i, <2>1, PumpKeepsCounts
<1> QED
  BY <1>1, <1>2, <1>3, <1>4, <1>5, <1>6, <1>7, <1>8, <1>9, <1>10, <1>11,
    <1>12, <1>13 DEF Next, Call, CallerStep, Pump

-----------------------------------------------------------------------------
(* The theorems.                                                             *)

(* The bridge starts in BridgeInv.                                           *)
LEMMA BridgeInit == Init => BridgeInv
<1> SUFFICES ASSUME Init PROVE BridgeInv
  OBVIOUS
<1>1. LockInv
  BY LockInit
<1>2. Len(dialled) = 0 /\ sessions = <<>> /\ Len(sessions) = 0
  BY DEF Init
<1>3. StateTypes /\ MapTypes
  <2>1. StateTypes
    <3>1. held = FALSE /\ endpoint = 0 /\ started = 0 /\ open = {}
      BY DEF Init
    <3>2. endpoint \in 0..started /\ started \in 0..MaxStarts
      BY <3>1, BridgeAssumption
    <3> QED
      BY <3>1, <3>2 DEF StateTypes
  <2>2. MapTypes
    BY DEF Init, MapTypes
  <2> QED
    BY <2>1, <2>2
<1>4. dialled \in Seq(DialSet) /\ MaxDials \in Nat
  BY BridgeAssumption, EmptySeq DEF Init
<1>5. QuicTypes
  BY <1>2, <1>4 DEF Init, QuicTypes
<1>6. NoCall \in LocalSet
  BY <1>2 DEF Init, NoCall, LocalSet
<1>7. CallTypes
  BY <1>6 DEF Init, CallTypes, Pcs
<1>8. TaskTypes
  BY <1>2 DEF Init, TaskTypes
<1>9. CacheState
  <2>1. GoodCache(sessions, dialled)
    BY <1>2, EmptyGood
  <2>2. MAX_CACHED_SESSIONS \in Nat
    BY BridgeAssumption
  <2> QED
    BY <1>2, <2>1, <2>2 DEF CacheState
<1>10. Mutex /\ CallerLocals
  BY DEF Init, Mutex, Holding, CallerLocals, CallerGood, OwnForwarder, WithKey,
    WithGen, WithConn, WithFw
<1>11. Routed
  <2>1. \A f \in Forwarders : loop[f] = "none" /\ aborted = {}
    BY DEF Init
  <2>2. \A f \in Forwarders : \A p \in PumpsOf(f) : pPc[p] = "none"
    BY PumpFacts DEF Init
  <2> QED
    BY <2>1, <2>2 DEF Routed, PumpGood
<1>12. ActiveCounted
  BY DEF Init, ActiveCounted
<1> QED
  BY <1>1, <1>3, <1>5, <1>7, <1>8, <1>9, <1>10, <1>11, <1>12 DEF BridgeInv

(* Every step of a caller, a pump, a forwarder or the network keeps it.      *)
LEMMA BridgeStep == BridgeInv /\ [Next]_vars => BridgeInv' /\ Grown
<1> SUFFICES ASSUME BridgeInv, [Next]_vars PROVE BridgeInv' /\ Grown
  OBVIOUS
<1>1. Grown
  BY GrownStep
<1>2. LockInv'
  BY LockStep DEF BridgeInv
<1>3. /\ StateTypes' /\ QuicTypes' /\ CallTypes' /\ MapTypes' /\ TaskTypes'
      /\ CacheState' /\ Mutex' /\ CallerLocals' /\ Routed' /\ ActiveCounted'
  BY <1>1, StateTypesStep, QuicTypesStep, CallTypesStep, MapTypesStep,
    TaskTypesStep, CacheStateStep, MutexStep, CallerLocalsStep, RoutedStep,
    ActiveCountedStep
<1> QED
  BY <1>1, <1>2, <1>3 DEF BridgeInv

(* So it holds in every behaviour.                                           *)
LEMMA BridgeAlways == Spec => []BridgeInv
  BY BridgeInit, BridgeStep, PTL DEF Spec

(* Every variable has its type, whatever the callers and the tasks do.       *)
THEOREM BridgeTypes == Spec => []TypeOK
<1>1. BridgeInv => TypeOK
  <2> SUFFICES ASSUME BridgeInv PROVE TypeOK
    OBVIOUS
  <2>1. /\ held \in BOOLEAN /\ started \in 0..MaxStarts /\ endpoint \in 0..started
        /\ open \subseteq 1..started
    BY DEF BridgeInv, StateTypes
  <2>2. /\ dialled \in Seq(DialSet) /\ Len(dialled) <= MaxDials
        /\ live \subseteq 1..Len(dialled) /\ streams \subseteq 1..Len(dialled)
    BY DEF BridgeInv, QuicTypes
  <2>3. sessions \in Seq([key : Keys, conn : 1..Len(dialled)])
    BY DEF BridgeInv, CacheState, GoodCache
  <2>4. /\ forwarders \subseteq Forwarders /\ signalled \subseteq Forwarders
        /\ loop \in [Forwarders -> {"none", "running", "ended"}]
        /\ route \in [Forwarders -> DialSet \cup {None}]
    BY DEF BridgeInv, MapTypes
  <2>5. cPc \in [Callers -> Pcs] /\ local \in [Callers -> LocalSet]
    BY DEF BridgeInv, CallTypes
  <2>6. /\ active \in [Forwarders -> Int] /\ pConn \in [Pumps -> 0..Len(dialled)]
        /\ aborted \subseteq Pumps
    BY DEF BridgeInv, TaskTypes
  <2>7. PumpTypes
    BY DEF BridgeInv, LockInv
  <2> QED
    BY <2>1, <2>2, <2>3, <2>4, <2>5, <2>6, <2>7
    DEF TypeOK, DialSet, LocalSet, Pcs, PumpTypes
<1> QED
  BY <1>1, BridgeAlways, PTL

(* The session cache keeps its limit, has one session per peer and ALPN and  *)
(* leads to the peer the key names, for any number of callers, forwarders    *)
(* and pumps that dial outside the mutex and cache later.                    *)
THEOREM CacheSoundAlways == Spec => []CacheSound
<1>1. BridgeInv => CacheSound
  BY DEF BridgeInv, CacheState, GoodCache, CacheSound
<1> QED
  BY <1>1, BridgeAlways, PTL

(* active_connections counts the pump tasks of a running forwarder, and is 0 *)
(* for one that stopped: the subtraction never needs to saturate while the   *)
(* loop runs, and does when a pump ends after the loop has reset the count.  *)
THEOREM ActiveCountedAlways == Spec => []ActiveCounted
  BY BridgeAlways, PTL DEF BridgeInv

=============================================================================
