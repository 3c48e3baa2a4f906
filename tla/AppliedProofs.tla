----------------------------- MODULE AppliedProofs -----------------------------
(***************************************************************************)
(* What the engine applies to a pool: how often a swap is reflected, for   *)
(* any registry, transactions, feed faults and RPC failures.               *)
(***************************************************************************)
EXTENDS TrackingProofs

-----------------------------------------------------------------------------
(* Swaps reflected twice.                                                  *)

AtMostOnce(s, n) ==
    \A i, j \in 1 .. Len(s) : s[i].tx = n /\ s[j].tx = n => i = j

IsTaken(n) == \E i \in 1 .. Len(taken) : taken[i] = n

\* DoublesAreLate, with what it needs: before its message is handled, a pool
\* reflects a swap only through its snapshot, and a snapshot has it once.
DoubleInv ==
    \A p \in Pools, n \in Sequenced \ repeated : ~ PassesTwice(p, n) =>
       /\ ~ IsTaken(n) => /\ AtMostOnce(mem[p], n)
                          /\ \A i \in 1 .. Len(mem[p]) : mem[p][i].tx = n => n <= cut[p]
       /\ AtMostOnce(mem[p], n) \/ (n <= cut[p] /\ phase \in {"live", "exited"})

LEMMA OnceCounted ==
    ASSUME NEW S, NEW s \in Seq(S), NEW n, AtMostOnce(s, n)
    PROVE  ~ (Cardinality({ i \in DOMAIN s : s[i].tx = n }) > 1)
<1> DEFINE hits == { i \in DOMAIN s : s[i].tx = n }
<1>1. DOMAIN s = 1 .. Len(s)
  OBVIOUS
<1>2. CASE hits = {}
  <2>1. Cardinality(hits) = 0
    <3> HIDE DEF hits
    <3> QED  BY <1>2, FS_EmptySet
  <2> QED  BY <2>1
<1>3. CASE hits # {}
  <2>1. PICK i \in hits : TRUE
    BY <1>3
  <2>2. hits = {i}
    BY <1>1, <2>1 DEF AtMostOnce
  <2>3. Cardinality(hits) = 1
    <3> HIDE DEF hits
    <3> QED  BY <2>2, FS_Singleton
  <2> QED  BY <2>3
<1> QED  BY <1>2, <1>3

LEMMA DoubleInvSuffices ==
    ASSUME Shapes, Sequenced \subseteq SeqNos, DoubleInv
    PROVE  \A p \in Pools, n \in Sequenced \ repeated :
              Reflected(p, n) > 1 => \/ (n <= cut[p] /\ phase \in {"live", "exited"})
                                     \/ PassesTwice(p, n)
<1> SUFFICES ASSUME NEW p \in Pools, NEW n \in Sequenced \ repeated,
                    ~ PassesTwice(p, n),
                    ~ (n <= cut[p] /\ phase \in {"live", "exited"})
             PROVE  ~ (Reflected(p, n) > 1)
  OBVIOUS
<1>1. AtMostOnce(mem[p], n)
  BY DEF DoubleInv
<1>2. mem[p] \in Seq([tx : 0 .. ChainHead, amount : Nat])
  BY DEF Shapes, PoolShape
<1> QED  BY <1>1, <1>2, OnceCounted DEF Reflected

\* A transaction no one has sequenced yet is reflected nowhere.
LEMMA FutureNotReflected ==
    ASSUME Shapes, NEW p \in Pools, NEW n \in Nat, n > ChainHead
    PROVE  \A i \in 1 .. Len(mem[p]) : mem[p][i].tx # n
<1> DEFINE E == [tx : 0 .. ChainHead, amount : Nat]
           s == mem[p]
<1>1. ChainHead \in Nat
  BY DEF Shapes, ChainShape, ChainHead
<1>2. s \in Seq(E)
  BY DEF Shapes, PoolShape
<1>3. \A e \in E : e.tx # n
  BY <1>1
<1> HIDE DEF E, s
<1>4. \A i \in 1 .. Len(s) : s[i] \in E
  BY <1>2
<1>5. \A i \in 1 .. Len(s) : s[i].tx # n
  BY <1>3, <1>4
<1> QED  BY <1>5 DEF s

\* Steps that handle no message and store no reserves.
LEMMA DoubleFrame ==
    ASSUME Shapes, Shapes', DoubleInv,
           \A n \in Sequenced : txs'[n] = txs[n], ChainHead <= ChainHead',
           mem' = mem, cut' = cut, taken' = taken,
           repeated \subseteq repeated',
           phase \in {"live", "exited"} => phase' \in {"live", "exited"}
    PROVE  DoubleInv'
<1> SUFFICES ASSUME NEW p \in Pools, NEW n, n \in Sequenced', n \notin repeated',
                    ~ PassesTwice(p, n)'
             PROVE  /\ ~ IsTaken(n)' =>
                          /\ AtMostOnce(mem[p], n)
                          /\ \A i \in 1 .. Len(mem[p]) : mem[p][i].tx = n => n <= cut[p]
                    /\ \/ AtMostOnce(mem[p], n)
                       \/ n <= cut[p] /\ phase' \in {"live", "exited"}
  BY DEF DoubleInv, AtMostOnce
<1>1. ChainHead \in Nat /\ n \in Nat /\ n >= 1 /\ n <= ChainHead'
  <2>1. ChainHead \in Nat
    BY DEF Shapes, ChainShape, ChainHead
  <2>2. ChainHead' \in Nat
    BY DEF Shapes, ChainShape, ChainHead
  <2> QED  BY <2>1, <2>2 DEF Sequenced
<1>2. CASE n <= ChainHead
  <2>1. n \in Sequenced \ repeated
    BY <1>1, <1>2 DEF Sequenced
  <2>2. ~ PassesTwice(p, n)
    BY <2>1 DEF PassesTwice
  <2>3. IsTaken(n)' <=> IsTaken(n)
    BY DEF IsTaken
  <2> QED  BY <2>1, <2>2, <2>3 DEF DoubleInv
<1>3. CASE ~ (n <= ChainHead)
  <2>1. \A i \in 1 .. Len(mem[p]) : mem[p][i].tx # n
    BY <1>1, <1>3, FutureNotReflected
  <2> QED  BY <2>1 DEF AtMostOnce
<1> QED  BY <1>2, <1>3

\* A snapshot reflects a swap once, and none that came after it.
LEMMA StoreKeepsDoubles ==
    ASSUME Shapes, Shapes', FetchInv, TrackInv, DoubleInv,
           StoreReserves, UNCHANGED <<txs, feedVars, engineVars>>
    PROVE  DoubleInv'
<1> DEFINE q == Head(toFetch)
<1>1. /\ toFetch # <<>> /\ CallsOf(q) # {} /\ DOMAIN reading = CallsOf(q)
      /\ mem' = [mem EXCEPT ![q] = Snapshot(q)]
      /\ cut' = [cut EXCEPT ![q] = Oldest]
      /\ UNCHANGED <<txs, phase, taken, repeated>>
  BY DEF StoreReserves, engineVars, feedVars
<1>2. /\ q \in Pools /\ ChainHead \in Nat
      /\ \A c \in DOMAIN reading : reading[c] \in 0 .. ChainHead
      /\ DOMAIN mem = Pools /\ DOMAIN cut = Pools
  BY <1>1 DEF Shapes, ChainShape, ChainHead, PoolShape
<1> HIDE DEF q
<1>3. Oldest \in 0 .. ChainHead /\ Snapshot(q) \in {Torn, ChainHist(q, Oldest)}
  <2>1. Oldest \in 0 .. ChainHead
    BY <1>1, <1>2, OldestRead
  <2> QED  BY <2>1, SnapshotIs
<1>4. ASSUME NEW n \in Sequenced
      PROVE  /\ AtMostOnce(Snapshot(q), n)
             /\ \A i \in 1 .. Len(Snapshot(q)) : Snapshot(q)[i].tx = n => n <= Oldest
  <2>1. n \in Nat /\ n >= 1
    BY <1>2 DEF Sequenced
  <2>2. CASE Snapshot(q) = Torn
    <3>1. Len(Torn) = 1 /\ Torn[1].tx = 0
      BY DEF Torn
    <3>2. \A i \in 1 .. Len(Torn) : Torn[i].tx # n
      BY <2>1, <3>1
    <3> QED  BY <2>2, <3>2 DEF AtMostOnce
  <2>3. CASE Snapshot(q) = ChainHist(q, Oldest)
    <3> DEFINE s == Swaps(txs, q, Oldest)
               E == { SwapOf(txs, q, k) : k \in 1 .. Oldest }
    <3>1. SwapSeq(s, txs, q, Oldest)
      BY <1>3, SwapsAreSwaps
    <3>2. Snapshot(q) = s
      BY <2>3 DEF ChainHist
    <3> HIDE DEF s
    <3>3. /\ s \in Seq(E) /\ Len(s) \in Nat
          /\ \A i, j \in 1 .. Len(s) : i < j => s[i].tx < s[j].tx
      BY <3>1 DEF SwapSeq
    <3>4. \A i \in 1 .. Len(s) : s[i].tx \in 1 .. Oldest
      BY <3>3 DEF SwapOf
    <3>5. ASSUME NEW i \in 1 .. Len(s), NEW j \in 1 .. Len(s),
                 s[i].tx = n, s[j].tx = n
          PROVE  i = j
      BY <2>1, <3>3, <3>5
    <3>6. \A i \in 1 .. Len(s) : s[i].tx = n => n <= Oldest
      BY <1>3, <3>4
    <3> QED  BY <3>2, <3>5, <3>6 DEF AtMostOnce
  <2> QED  BY <1>3, <2>2, <2>3
<1>5. phase = "fetching" /\ Sequenced' = Sequenced /\ ~ (phase \in {"live", "exited"})
  <2>1. phase = "fetching"
    BY <1>1 DEF FetchInv, FetchOrder
  <2> QED  BY <1>1, <2>1 DEF Sequenced, ChainHead
<1>6. ASSUME NEW p \in Pools, NEW n, n \in Sequenced, n \notin repeated, ~ PassesTwice(p, n)
      PROVE  /\ AtMostOnce(mem'[p], n)
             /\ ~ IsTaken(n) =>
                   \A i \in 1 .. Len(mem'[p]) : mem'[p][i].tx = n => n <= cut'[p]
  <2>1. CASE p = q
    BY <1>1, <1>2, <1>4, <1>6, <2>1
  <2>2. CASE p # q
    <3>1. mem'[p] = mem[p] /\ cut'[p] = cut[p]
      BY <1>1, <1>2, <2>2
    <3> QED  BY <1>5, <1>6, <3>1 DEF DoubleInv
  <2> QED  BY <2>1, <2>2
<1> SUFFICES ASSUME NEW p \in Pools, NEW n, n \in Sequenced', n \notin repeated',
                    ~ PassesTwice(p, n)'
             PROVE  /\ ~ IsTaken(n)' =>
                          /\ AtMostOnce(mem'[p], n)
                          /\ \A i \in 1 .. Len(mem'[p]) : mem'[p][i].tx = n => n <= cut'[p]
                    /\ AtMostOnce(mem'[p], n)
  BY DEF DoubleInv, AtMostOnce
<1>7. n \in Sequenced /\ n \notin repeated /\ ~ PassesTwice(p, n)
  BY <1>1, <1>5 DEF PassesTwice
<1>8. IsTaken(n)' <=> IsTaken(n)
  BY <1>1 DEF IsTaken
<1> QED  BY <1>6, <1>7, <1>8

\* What applying transaction n once adds to a pool.
EntryOf(n) == [tx |-> n, amount |-> ApproxAmountIn(txs[n])]

\* A pool's memory after k more entries of transaction n.
Grown(p, n, k) ==
    /\ k \in Nat
    /\ Len(mem'[p]) = Len(mem[p]) + k
    /\ \A i \in 1 .. Len(mem[p]) : mem'[p][i] = mem[p][i]
    /\ \A i \in Len(mem[p]) + 1 .. Len(mem[p]) + k : mem'[p][i] = EntryOf(n)

LEMMA HopsGrow ==
    ASSUME Shapes, NEW p \in Pools, NEW n, NEW times, times[p] \in Nat, ApplyHops(n, times)
    PROVE  Grown(p, n, times[p])
<1> DEFINE entry == [tx |-> n, amount |-> ApproxAmountIn(txs[n])]
           Old   == [tx : 0 .. ChainHead, amount : Nat]
           E     == Old \cup {entry}
           more  == [i \in 1 .. times[p] |-> entry]
<1>1. mem'[p] = mem[p] \o more
  BY DEF ApplyHops
<1>2. mem[p] \in Seq(E)
  <2>1. mem[p] \in Seq(Old)
    BY DEF Shapes, PoolShape
  <2>2. Old \subseteq E
    OBVIOUS
  <2> HIDE DEF Old, E
  <2> QED  BY <2>1, <2>2
<1>3. /\ more \in Seq(E) /\ Len(more) = times[p]
      /\ \A i \in 1 .. times[p] : more[i] = entry
  <2>1. more \in [1 .. times[p] -> E] /\ \A i \in 1 .. times[p] : more[i] = entry
    OBVIOUS
  <2> HIDE DEF more, E
  <2> QED  BY <2>1, SeqDef, LenProperties
<1> HIDE DEF more, E, entry
<1>5. /\ Len(mem[p]) \in Nat
      /\ Len(mem[p] \o more) = Len(mem[p]) + times[p]
      /\ \A i \in 1 .. Len(mem[p]) + times[p] :
            (mem[p] \o more)[i] = IF i <= Len(mem[p]) THEN mem[p][i] ELSE more[i - Len(mem[p])]
  <2>1. /\ Len(mem[p]) \in Nat
        /\ Len(mem[p] \o more) = Len(mem[p]) + Len(more)
        /\ \A i \in 1 .. Len(mem[p]) + Len(more) :
              (mem[p] \o more)[i] = IF i <= Len(mem[p]) THEN mem[p][i] ELSE more[i - Len(mem[p])]
    BY <1>2, <1>3, ConcatProperties, LenProperties
  <2> QED  BY <1>3, <2>1
<1>6. ASSUME NEW i \in Len(mem[p]) + 1 .. Len(mem[p]) + times[p]
      PROVE  mem'[p][i] = entry
  <2>1. i - Len(mem[p]) \in 1 .. times[p] /\ ~ (i <= Len(mem[p]))
        /\ i \in 1 .. Len(mem[p]) + times[p]
    BY <1>5
  <2> QED  BY <1>1, <1>3, <1>5, <2>1
<1>7. \A i \in 1 .. Len(mem[p]) : mem'[p][i] = mem[p][i]
  BY <1>1, <1>5
<1> QED  BY <1>1, <1>5, <1>6, <1>7 DEF Grown, EntryOf, entry

\* Every message, drained or live: it is reflected once more at most, unless it
\* passes the pool twice, and by the drain only if no snapshot has it.
LEMMA TakeKeepsDoubles ==
    ASSUME Shapes, Shapes', StreamInv, DoubleInv, TakeMessage,
           UNCHANGED <<txs, cut, phase>>,
           NEW times, \A p \in Pools : Grown(p, Head(feedChan), times[p]),
           \A p \in Pools : ~ PassesTwice(p, Head(feedChan)) => times[p] <= 1,
           \A p \in Pools :
              times[p] # 0 => Head(feedChan) > cut[p] \/ phase \in {"live", "exited"}
    PROVE  DoubleInv'
<1> DEFINE h == Head(feedChan)
<1>1. /\ feedChan # <<>> /\ taken' = Append(taken, h) /\ UNCHANGED <<txs, repeated>>
      /\ taken \in Seq(Sequenced) /\ h \in Sequenced /\ Sequenced' = Sequenced
  BY MessageTyped, ShapeFrames DEF TakeMessage, Shapes, EngineShape
<1>2. ASSUME NEW n PROVE IsTaken(n)' <=> IsTaken(n) \/ n = h
  <2>1. /\ Len(taken) \in Nat /\ Len(taken') = Len(taken) + 1
        /\ \A i \in 1 .. Len(taken) : taken'[i] = taken[i]
        /\ taken'[Len(taken) + 1] = h
    BY <1>1
  <2> HIDE DEF h
  <2> QED  BY <2>1 DEF IsTaken
<1>3. ASSUME h \notin repeated PROVE ~ IsTaken(h)
  <2>1. h > TakenMax
    BY <1>1, <1>3, FreshIsNewest
  <2>2. IsLargest(taken, TakenMax) /\ TakenMax \in 0 .. ChainHead
    BY TakenMaxIs
  <2>3. ChainHead \in Nat /\ h \in Nat
    BY <1>1 DEF Shapes, ChainShape, ChainHead, Sequenced
  <2> HIDE DEF h
  <2> QED  BY <1>1, <2>1, <2>2, <2>3 DEF IsTaken, IsLargest
<1>4. \A p, n : PassesTwice(p, n)' <=> PassesTwice(p, n)
  BY DEF PassesTwice
<1>5. \A p \in Pools : Len(mem[p]) \in Nat /\ cut[p] \in Nat
  <2>1. \A p \in Pools : mem[p] \in Seq([tx : 0 .. ChainHead, amount : Nat])
    BY DEF Shapes, PoolShape
  <2>2. ChainHead \in Nat
    BY DEF Shapes, ChainShape, ChainHead
  <2> QED  BY <2>1, <2>2 DEF Shapes, PoolShape
<1> HIDE DEF h
<1>6. ASSUME NEW p \in Pools, NEW n, n \in Sequenced, n \notin repeated,
             ~ PassesTwice(p, n)
      PROVE  /\ ~ (IsTaken(n) \/ n = h) =>
                   /\ AtMostOnce(mem'[p], n)
                   /\ \A i \in 1 .. Len(mem'[p]) : mem'[p][i].tx = n => n <= cut[p]
             /\ AtMostOnce(mem'[p], n) \/ (n <= cut[p] /\ phase \in {"live", "exited"})
  <2> DEFINE s == mem[p]
             t == mem'[p]
             k == times[p]
  <2>1. /\ k \in Nat /\ Len(s) \in Nat /\ Len(t) = Len(s) + k
        /\ \A i \in 1 .. Len(s) : t[i] = s[i]
        /\ \A i \in Len(s) + 1 .. Len(s) + k : t[i].tx = h
    BY <1>5 DEF Grown, EntryOf, h
  <2>2. /\ ~ IsTaken(n) => /\ AtMostOnce(s, n)
                           /\ \A i \in 1 .. Len(s) : s[i].tx = n => n <= cut[p]
        /\ AtMostOnce(s, n) \/ (n <= cut[p] /\ phase \in {"live", "exited"})
    BY <1>6 DEF DoubleInv
  <2>3. /\ n = h => k <= 1
        /\ k # 0 => h > cut[p] \/ phase \in {"live", "exited"}
    BY <1>6 DEF h
  <2> HIDE DEF s, t, k
  <2>4. CASE n # h
    <3>1. \A i \in 1 .. Len(t) : t[i].tx = n => i \in 1 .. Len(s) /\ s[i].tx = n
      BY <2>1, <2>4
    <3>2. AtMostOnce(s, n) => AtMostOnce(t, n)
      BY <3>1 DEF AtMostOnce
    <3> QED  BY <2>2, <2>4, <3>1, <3>2 DEF t
  <2>5. CASE n = h
    <3>1. /\ AtMostOnce(s, n)
          /\ \A i \in 1 .. Len(s) : s[i].tx = n => n <= cut[p]
      BY <1>3, <1>6, <2>2, <2>5
    <3>2. CASE n <= cut[p] /\ phase \in {"live", "exited"}
      BY <2>5, <3>2
    <3>3. CASE k = 0
      <4>1. \A i \in 1 .. Len(t) : i \in 1 .. Len(s) /\ t[i] = s[i]
        BY <2>1, <3>3
      <4>2. AtMostOnce(t, n)
        BY <3>1, <4>1 DEF AtMostOnce
      <4>3. AtMostOnce(mem'[p], n)
        BY <4>2 DEF t
      <4> QED  BY <2>5, <4>3
    <3>4. CASE k # 0 /\ ~ (n <= cut[p] /\ phase \in {"live", "exited"})
      <4>1. n \in Nat /\ cut[p] \in Nat
        BY <1>5, <1>6 DEF Sequenced
      <4>2. ~ (n <= cut[p])
        BY <2>3, <2>5, <3>4, <4>1
      <4>3. \A i \in 1 .. Len(s) : s[i].tx # n
        BY <3>1, <4>2
      <4>4. k = 1
        BY <2>1, <2>3, <2>5, <3>4
      <4>5. \A i \in 1 .. Len(t) : t[i].tx = n => i = Len(s) + 1
        BY <2>1, <4>3, <4>4
      <4>6. AtMostOnce(t, n)
        BY <4>5 DEF AtMostOnce
      <4>7. AtMostOnce(mem'[p], n)
        BY <4>6 DEF t
      <4> QED  BY <2>5, <4>7
    <3> QED  BY <3>2, <3>3, <3>4
  <2> QED  BY <2>4, <2>5
<1> QED  BY <1>1, <1>2, <1>4, <1>6 DEF DoubleInv, AtMostOnce

\* A message that changes no pool.
LEMMA PassKeepsDoubles ==
    ASSUME Shapes, Shapes', StreamInv, DoubleInv, TakeMessage,
           UNCHANGED <<txs, mem, cut, phase>>
    PROVE  DoubleInv'
<1> DEFINE times == [p \in Pools |-> 0]
<1>1. \A p \in Pools : times[p] = 0
  OBVIOUS
<1> HIDE DEF times
<1>2. ASSUME NEW p \in Pools PROVE Grown(p, Head(feedChan), times[p])
  <2>1. mem[p] \in Seq([tx : 0 .. ChainHead, amount : Nat])
    BY DEF Shapes, PoolShape
  <2>2. Len(mem[p]) \in Nat
    BY <2>1
  <2> QED  BY <1>1, <2>2 DEF Grown
<1> QED  BY <1>1, <1>2, TakeKeepsDoubles

\* The drain hits a pool once for each hop between its tokens at most.
LEMMA HitsNamePair ==
    ASSUME NEW p \in Pools, NEW n, Len(TokenPath(txs[n])) \in Nat, ~ PassesTwice(p, n)
    PROVE  Cardinality({ i \in DOMAIN Hops(txs[n]) :
                            ReplayPool(Hops(txs[n])[i], txs[n], fetched) = p }) <= 1
<1> DEFINE hops  == Hops(txs[n])
           hit   == { i \in DOMAIN hops : ReplayPool(hops[i], txs[n], fetched) = p }
           named == { i \in DOMAIN hops : hops[i] = PairOf(p) }
<1>1. DOMAIN hops = 1 .. Len(TokenPath(txs[n])) - 1
  BY DEF Hops
<1>2. IsFiniteSet(DOMAIN hops)
  BY <1>1, FS_Interval
<1>3. hit \subseteq named
  <2> SUFFICES ASSUME NEW i \in hit PROVE hops[i] = PairOf(p)
    OBVIOUS
  <2> DEFINE S == { q \in PoolsOf(hops[i]) : Simulates(q, txs[n], fetched) }
  <2>1. S \in SUBSET Pools /\ S \subseteq PoolsOf(hops[i])
    BY DEF PoolsOf, TokenGraph
  <2>2. First[S] = p /\ p # NoPool
    BY RegistryTyped DEF ReplayPool
  <2> HIDE DEF S
  <2>3. p \in PoolsOf(hops[i])
    BY <2>1, <2>2, FirstIsOne
  <2> QED  BY <2>3 DEF PoolsOf, TokenGraph
<1>4. IsFiniteSet(named) /\ Cardinality(named) \in Nat
  <2>1. named \subseteq DOMAIN hops
    OBVIOUS
  <2> HIDE DEF named, hops
  <2>2. IsFiniteSet(named)
    BY <1>2, <2>1, FS_Subset
  <2> QED  BY <2>2, FS_CardinalityType
<1>5. ~ (Cardinality(named) > 1)
  BY DEF PassesTwice
<1> HIDE DEF hit, named
<1>6. Cardinality(hit) <= Cardinality(named) /\ Cardinality(hit) \in Nat
  <2>1. IsFiniteSet(hit) /\ Cardinality(hit) <= Cardinality(named)
    BY <1>3, <1>4, FS_Subset
  <2> QED  BY <2>1, FS_CardinalityType
<1> QED  BY <1>4, <1>5, <1>6 DEF hit

LEMMA ReplayKeepsDoubles ==
    ASSUME Shapes, Shapes', FetchInv, StreamInv, DoubleInv, DrainReplay
    PROVE  DoubleInv'
<1> DEFINE n      == Head(feedChan)
           hops   == Hops(txs[n])
           hit(p) == { i \in DOMAIN hops : ReplayPool(hops[i], txs[n], fetched) = p }
           times  == [p \in Pools |-> Cardinality(hit(p))]
<1>1. /\ TakeMessage /\ phase = "draining" /\ ApplyHops(n, times) /\ ~ Covered(n)
      /\ UNCHANGED <<txs, cut, phase>>
  BY DEF DrainReplay
<1>2. /\ feedChan # <<>> /\ n \in Sequenced /\ Len(TokenPath(txs[n])) \in Nat
  BY <1>1, MessageTyped DEF TakeMessage
<1>3. \A p \in Pools : times[p] \in Nat
  BY <1>2, HitsCounted
<1>4. ASSUME NEW p \in Pools, ~ PassesTwice(p, n) PROVE times[p] <= 1
  <2>1. Cardinality(hit(p)) <= 1
    BY <1>2, <1>4, HitsNamePair
  <2> HIDE DEF hit
  <2> QED  BY <2>1
<1>5. ASSUME NEW p \in fetched PROVE n > cut[p]
  <2>1. cut[p] + BlockOffset <= maxBlock /\ checkpoint = maxBlock
    BY <1>1 DEF FetchInv, CheckpointDominates, BlockAt
  <2>2. cut[p] \in Nat /\ maxBlock \in Nat /\ BlockOffset \in Nat /\ n \in Nat
    BY <1>2, ChainTyped DEF FetchInv, FetchTypes, Sequenced
  <2>3. ~ (n <= checkpoint)
    BY <1>1 DEF Covered
  <2> HIDE DEF n
  <2> QED  BY <2>1, <2>2, <2>3
<1>6. ASSUME NEW p \in Pools, p \notin fetched PROVE times[p] = 0
  <2>1. \A i \in DOMAIN hops : ReplayPool(hops[i], txs[n], fetched) # p
    BY <1>6, RoutedIsFetched, RegistryTyped
  <2>2. hit(p) = {}
    BY <2>1
  <2> HIDE DEF hit
  <2> QED  BY <2>2, FS_EmptySet
<1> HIDE DEF times, n
<1>7. \A p \in Pools : Grown(p, n, times[p])
  BY <1>1, <1>3, HopsGrow
<1>8. \A p \in Pools : times[p] # 0 => n > cut[p]
  BY <1>5, <1>6
<1> QED  BY <1>1, <1>4, <1>7, <1>8, TakeKeepsDoubles DEF n

\* The live loop updates one pool once.
LEMMA UpdateKeepsDoubles ==
    ASSUME Shapes, Shapes', StreamInv, DoubleInv, LiveMessage,
           NEW a, UpdatePoolA(Head(feedChan), a)
    PROVE  DoubleInv'
<1> DEFINE times == [p \in Pools |-> IF p = a THEN 1 ELSE 0]
<1>1. /\ TakeMessage /\ phase = "live" /\ ApplyHops(Head(feedChan), times)
      /\ UNCHANGED <<txs, cut, phase>>
  BY DEF LiveMessage, UpdatePoolA
<1>2. \A p \in Pools : times[p] \in Nat /\ times[p] <= 1
  OBVIOUS
<1> HIDE DEF times
<1>3. \A p \in Pools : Grown(p, Head(feedChan), times[p])
  BY <1>1, <1>2, HopsGrow
<1> QED  BY <1>1, <1>2, <1>3, TakeKeepsDoubles

LEMMA InitDouble == Init => DoubleInv
BY DEF Init, DoubleInv, Sequenced, ChainHead

LEMMA NextDouble ==
    ASSUME Shapes, Shapes', FetchInv, StreamInv, TrackInv, DoubleInv, [Next]_vars
    PROVE  DoubleInv'
<1>1. ASSUME txs' = txs, mem' = mem, cut' = cut, taken' = taken,
             repeated \subseteq repeated',
             phase \in {"live", "exited"} => phase' \in {"live", "exited"}
      PROVE  DoubleInv'
  <2>1. ChainHead' = ChainHead /\ ChainHead \in Nat
    BY <1>1, ShapeFrames
  <2> QED  BY <1>1, <2>1, DoubleFrame
<1>2. CASE SequenceTx /\ UNCHANGED <<feedVars, poolVars, engineVars>>
  <2>1. PICK t \in TxShapes : txs' = Append(txs, t)
    BY <1>2 DEF SequenceTx
  <2>2. txs \in Seq(TxShapes) /\ Len(txs) \in Nat
    BY DEF Shapes, ChainShape
  <2>3. \A n \in Sequenced : txs'[n] = txs[n]
    BY <2>1, <2>2 DEF Sequenced, ChainHead
  <2>4. ChainHead <= ChainHead'
    BY <2>1, <2>2 DEF ChainHead
  <2> QED  BY <1>2, <2>3, <2>4, DoubleFrame DEF feedVars, poolVars, engineVars
<1>3. CASE FeedNext /\ UNCHANGED <<txs, poolVars, engineVars>>
  <2>1. repeated \subseteq repeated'
    BY <1>3 DEF FeedNext, Connect, Disconnect, ProcessMessage, GarbledFrame
  <2>2. txs' = txs /\ mem' = mem /\ cut' = cut /\ taken' = taken /\ phase' = phase
    BY <1>3 DEF poolVars, engineVars
  <2> QED  BY <1>1, <2>1, <2>2
<1>4. CASE FetchStep
  <2>1. UNCHANGED <<txs, feedVars, engineVars>>
    BY <1>4 DEF FetchStep
  <2>2. CASE StoreReserves
    BY <2>1, <2>2, StoreKeepsDoubles
  <2>3. CASE SkipPool \/ CallReserves \/ FetchFails
    <3>1. mem' = mem /\ cut' = cut
      BY <2>3 DEF SkipPool, CallReserves, FetchFails
    <3>2. txs' = txs /\ repeated' = repeated /\ phase' = phase /\ taken' = taken
      BY <2>1 DEF feedVars, engineVars
    <3> QED  BY <1>1, <3>1, <3>2
  <2> QED  BY <1>4, <2>2, <2>3 DEF FetchStep, FetchNext
<1>5. CASE FetchDone \/ DrainDone \/ LeaveLoop \/ TakeSignal \/ UNCHANGED vars
  <2>1. txs' = txs /\ mem' = mem /\ cut' = cut /\ taken' = taken /\ repeated' = repeated
    BY <1>5
       DEF FetchDone, DrainDone, LeaveLoop, TakeSignal, vars, feedVars, poolVars, engineVars
  <2>2. phase \in {"live", "exited"} => phase' \in {"live", "exited"}
    BY <1>5 DEF FetchDone, DrainDone, LeaveLoop, TakeSignal, vars, engineVars
  <2> QED  BY <1>1, <2>1, <2>2
<1>6. CASE DrainDiscard
  BY <1>6, PassKeepsDoubles DEF DrainDiscard, poolVars
<1>7. CASE DrainReplay
  BY <1>7, ReplayKeepsDoubles
<1>8. CASE EvaluateSkips \/ EvaluateFails
  BY <1>8, PassKeepsDoubles DEF EvaluateSkips, EvaluateFails, LiveMessage, poolVars
<1>9. CASE EvaluateQuietly
  BY <1>9, UpdateKeepsDoubles DEF EvaluateQuietly
<1>10. CASE \E signal \in EngineSignals : EvaluateSignals(signal)
  <2>1. PICK signal \in EngineSignals : EvaluateSignals(signal)
    BY <1>10
  <2>2. LiveMessage /\ UpdatePoolA(Head(feedChan), signal.poolA)
    BY <2>1 DEF EvaluateSignals
  <2> QED  BY <2>2, UpdateKeepsDoubles
<1> QED
  BY <1>2, <1>3, <1>4, <1>5, <1>6, <1>7, <1>8, <1>9, <1>10
     DEF Next, EngineStep, EngineAlone

\* No swap is counted twice by bootstrap, whatever is produced, given, dropped
\* or failing while it fetches and drains: a swap given once, between the
\* pool's tokens once, is reflected twice only by the live loop, and only when
\* the pool's snapshot already had it.
THEOREM DoublesAreLateHolds == Spec => []DoublesAreLate
<1>1. Shapes /\ DoubleInv => DoublesAreLate
  <2> SUFFICES ASSUME Shapes, DoubleInv PROVE DoublesAreLate
    OBVIOUS
  <2>1. Sequenced \subseteq SeqNos /\ ChainHead \in Nat
    BY ChainTyped DEF Shapes, ChainShape, Sequenced, SeqNos, ChainHead
  <2> SUFFICES ASSUME NEW p \in Pools, NEW n \in SeqNos \ repeated, Reflected(p, n) > 1
               PROVE  \/ (n <= cut[p] /\ phase \in {"live", "exited"})
                      \/ PassesTwice(p, n)
    BY DEF DoublesAreLate
  <2>2. CASE n <= ChainHead
    <3>1. n \in Sequenced \ repeated
      BY <2>1, <2>2 DEF Sequenced, SeqNos
    <3> QED  BY <2>1, <3>1, DoubleInvSuffices
  <2>3. CASE ~ (n <= ChainHead)
    <3>1. n \in Nat
      BY DEF SeqNos
    <3>2. \A i \in 1 .. Len(mem[p]) : mem[p][i].tx # n
      BY <2>1, <2>3, <3>1, FutureNotReflected
    <3>3. AtMostOnce(mem[p], n)
      BY <3>2 DEF AtMostOnce
    <3>4. mem[p] \in Seq([tx : 0 .. ChainHead, amount : Nat])
      BY DEF Shapes, PoolShape
    <3>5. ~ (Reflected(p, n) > 1)
      BY <3>3, <3>4, OnceCounted DEF Reflected
    <3> QED  BY <3>5
  <2> QED  BY <2>2, <2>3
<1>2. Init => Shapes /\ FetchInv /\ StreamInv /\ TrackInv /\ DoubleInv
  BY InitShapes, InitFetchInv, InitStream, InitTrack, InitDouble
<1>3. Shapes /\ FetchInv /\ StreamInv /\ TrackInv /\ DoubleInv /\ [Next]_vars
         => (Shapes /\ FetchInv /\ StreamInv /\ TrackInv /\ DoubleInv)'
  BY NextShapes, NextFetchInv, NextStream, NextTrack, NextDouble
<1> QED  BY <1>1, <1>2, <1>3, PTL DEF Spec

-----------------------------------------------------------------------------
(* Where memory departs from the chain.                                    *)

\* The code attributed transaction n to p: the drain for one of its hops, or
\* the live loop for its ends.
Replayed(p, n) ==
    /\ n \in TakenByDrain
    /\ \E i \in DOMAIN Hops(txs[n]) : Hops(txs[n])[i] = PairOf(p)

Evaluated(p, n) ==
    /\ n \in TakenLive
    /\ Len(TokenPath(txs[n])) >= 2
    /\ EndPair(txs[n]) = PairOf(p)
    /\ MatchesAction(p, txs[n])

Attributed(p, entry) ==
    /\ entry.tx \in Sequenced
    /\ entry.amount = ApproxAmountIn(txs[entry.tx])
    /\ Replayed(p, entry.tx) \/ Evaluated(p, entry.tx)

\* Where a pool's memory leaves its snapshot.
AppliedFrom(p) ==
    IF Len(mem[p]) >= 1 /\ mem[p][1].tx = 0 THEN 2 ELSE 1 + Len(ChainHist(p, cut[p]))

\* Everything past the snapshot is a transaction the code attributed to the
\* pool, with the amount its call names; only a torn snapshot has no
\* transaction.
AppliedInv ==
    \A p \in fetched :
       /\ \A i \in 1 .. Len(mem[p]) : mem[p][i].tx = 0 => i = 1
       /\ \A i \in AppliedFrom(p) .. Len(mem[p]) : Attributed(p, mem[p][i])
       /\ Len(mem[p]) >= AppliedFrom(p) - 1

\* The histories of the drain and of the live loop only grow.
LEMMA TakenGrow ==
    ASSUME Shapes, TrackInv, TakeMessage,
           (count = 0 /\ count' = count) \/ count' = count + 1
    PROVE  /\ TakenByDrain \subseteq TakenByDrain'
           /\ TakenLive \subseteq TakenLive'
           /\ count' = count => Head(feedChan) \in TakenByDrain'
           /\ count' = count + 1 => Head(feedChan) \in TakenLive'
<1>1. /\ taken \in Seq(Sequenced) /\ count \in Nat /\ count <= Len(taken)
      /\ taken' = Append(taken, Head(feedChan))
  BY DEF Shapes, EngineShape, TrackInv, TakeMessage
<1>2. /\ Len(taken) \in Nat /\ Len(taken') = Len(taken) + 1
      /\ \A i \in 1 .. Len(taken) : taken'[i] = taken[i]
      /\ taken'[Len(taken) + 1] = Head(feedChan)
  BY <1>1
<1>3. TakenLive \subseteq TakenLive' /\ (count' = count + 1 => Head(feedChan) \in TakenLive')
  BY TakenLiveGrows
<1>4. CASE count = 0 /\ count' = count
  <2>1. /\ TakenByDrain' = { taken'[i] : i \in 1 .. Len(taken) + 1 }
        /\ TakenByDrain = { taken[i] : i \in 1 .. Len(taken) }
    <3>1. Len(taken') - count' = Len(taken) + 1 /\ Len(taken) - count = Len(taken)
      BY <1>1, <1>2, <1>4
    <3> QED  BY <3>1 DEF TakenByDrain
  <2>2. Len(taken) + 1 \in 1 .. Len(taken) + 1
    BY <1>2
  <2>3. \A i \in 1 .. Len(taken) : i \in 1 .. Len(taken) + 1
    BY <1>2
  <2> QED  BY <1>1, <1>2, <1>3, <1>4, <2>1, <2>2, <2>3
<1>5. CASE count' = count + 1
  <2>1. TakenByDrain' = { taken'[i] : i \in 1 .. Len(taken) - count }
    <3>1. Len(taken') - count' = Len(taken) - count
      BY <1>1, <1>2, <1>5
    <3> QED  BY <3>1 DEF TakenByDrain
  <2>2. \A i \in 1 .. Len(taken) - count : i \in 1 .. Len(taken)
    BY <1>1, <1>2
  <2>3. TakenByDrain = { taken[i] : i \in 1 .. Len(taken) - count }
    BY DEF TakenByDrain
  <2> QED  BY <1>1, <1>2, <1>3, <1>5, <2>1, <2>2, <2>3
<1> QED  BY <1>4, <1>5

\* What was attributed to a pool stays so.
LEMMA AttributedStays ==
    ASSUME NEW p, NEW entry, Attributed(p, entry),
           \A n \in Sequenced : txs'[n] = txs[n], Sequenced \subseteq Sequenced',
           TakenByDrain \subseteq TakenByDrain', TakenLive \subseteq TakenLive'
    PROVE  Attributed(p, entry)'
<1>1. entry.tx \in Sequenced /\ txs'[entry.tx] = txs[entry.tx]
  BY DEF Attributed
<1>2. Replayed(p, entry.tx) => Replayed(p, entry.tx)'
  BY <1>1 DEF Replayed
<1>3. Evaluated(p, entry.tx) => Evaluated(p, entry.tx)'
  BY <1>1 DEF Evaluated
<1> QED  BY <1>1, <1>2, <1>3 DEF Attributed

\* Steps that neither handle a message nor store reserves.
LEMMA AppliedFrame ==
    ASSUME Shapes, AppliedInv,
           \A n \in Sequenced : txs'[n] = txs[n], Sequenced \subseteq Sequenced',
           mem' = mem, cut' = cut, fetched' = fetched, taken' = taken, count' = count
    PROVE  AppliedInv'
<1> SUFFICES ASSUME NEW p \in fetched
             PROVE  /\ \A i \in 1 .. Len(mem[p]) : mem[p][i].tx = 0 => i = 1
                    /\ \A i \in AppliedFrom(p)' .. Len(mem[p]) : Attributed(p, mem[p][i])'
                    /\ Len(mem[p]) >= AppliedFrom(p)' - 1
  BY DEF AppliedInv
<1>1. AppliedFrom(p)' = AppliedFrom(p)
  <2>1. cut[p] \in Nat /\ \A k \in 1 .. cut[p] : txs'[k] = txs[k]
    <3>1. cut[p] \in 0 .. ChainHead /\ ChainHead \in Nat
      BY DEF Shapes, ChainShape, ChainHead, PoolShape
    <3> QED  BY <3>1 DEF Sequenced
  <2>2. Swaps(txs', p, cut[p]) = Swaps(txs, p, cut[p])
    BY <2>1, SwapsOfPrefix
  <2>3. Swaps(txs', p, cut'[p]) = Swaps(txs, p, cut[p])
    BY <2>2
  <2>4. ChainHist(p, cut[p])' = ChainHist(p, cut[p])
    BY <2>3 DEF ChainHist
  <2> QED  BY <2>4 DEF AppliedFrom
<1>2. TakenByDrain' = TakenByDrain /\ TakenLive' = TakenLive
  BY DEF TakenByDrain, TakenLive
<1>3. ASSUME NEW i \in AppliedFrom(p) .. Len(mem[p]) PROVE Attributed(p, mem[p][i])'
  <2>1. PICK entry : entry = mem[p][i]
    OBVIOUS
  <2>2. Attributed(p, entry)
    BY <2>1 DEF AppliedInv
  <2>3. Attributed(p, entry)'
    BY <1>2, <2>2, AttributedStays
  <2>4. mem'[p][i] = entry
    BY <2>1
  <2> QED  BY <2>3, <2>4 DEF Attributed, Replayed, Evaluated
<1> QED  BY <1>1, <1>3 DEF AppliedInv

\* A stored snapshot has nothing applied to it yet.
LEMMA StoreKeepsApplied ==
    ASSUME Shapes, Shapes', FetchInv, TrackInv, AppliedInv,
           StoreReserves, UNCHANGED <<txs, feedVars, engineVars>>
    PROVE  AppliedInv'
<1>1. UNCHANGED <<txs, phase, taken>> /\ phase = "fetching"
  <2>1. toFetch # <<>>
    BY DEF StoreReserves
  <2> QED  BY <2>1 DEF engineVars, FetchInv, FetchOrder
<1>2. TrackInv'
  BY StoreKeepsTracking
<1>3. \A p \in fetched' : mem'[p] \in {Torn, ChainHist(p, cut[p])'}
  BY <1>1, <1>2 DEF TrackInv
<1> SUFFICES ASSUME NEW p, p \in fetched'
             PROVE  /\ \A i \in 1 .. Len(mem'[p]) : mem'[p][i].tx = 0 => i = 1
                    /\ \A i \in AppliedFrom(p)' .. Len(mem'[p]) : Attributed(p, mem[p][i])'
                    /\ Len(mem'[p]) >= AppliedFrom(p)' - 1
  BY DEF AppliedInv
<1>4. CASE mem'[p] = Torn
  <2>1. Len(Torn) = 1 /\ Torn[1].tx = 0
    BY DEF Torn
  <2>2. AppliedFrom(p)' = 2
    BY <1>4, <2>1 DEF AppliedFrom
  <2>3. \A i \in 1 .. 1 : i = 1
    OBVIOUS
  <2>4. 2 .. 1 = {}
    OBVIOUS
  <2> QED  BY <1>4, <2>1, <2>2, <2>3, <2>4
<1>5. CASE mem'[p] = ChainHist(p, cut[p])'
  <2> DEFINE c == cut'[p]
             s == Swaps(txs, p, c)
             E == { SwapOf(txs, p, k) : k \in 1 .. c }
  <2>1. c \in Nat
    <3>1. p \in Pools
      BY <1>1 DEF Shapes, PoolShape
    <3> QED  BY <3>1 DEF Shapes, PoolShape, ChainHead
  <2>2. SwapSeq(s, txs, p, c)
    BY <2>1, SwapsAreSwaps
  <2>3. mem'[p] = s
    BY <1>1, <1>5 DEF ChainHist
  <2> HIDE DEF s, c
  <2>4. s \in Seq(E) /\ Len(s) \in Nat
    BY <2>2 DEF SwapSeq
  <2>5. \A i \in 1 .. Len(s) : s[i].tx \in 1 .. c
    BY <2>4 DEF SwapOf
  <2>6. \A i \in 1 .. Len(s) : s[i].tx # 0
    BY <2>1, <2>5
  <2>7. AppliedFrom(p)' = 1 + Len(s)
    <3>1. AppliedFrom(p)' = IF Len(mem'[p]) >= 1 /\ mem'[p][1].tx = 0 THEN 2
                            ELSE 1 + Len(Swaps(txs', p, c))
      BY DEF AppliedFrom, ChainHist, c
    <3>2. ~ (Len(s) >= 1 /\ s[1].tx = 0)
      <4>1. Len(s) >= 1 => 1 \in 1 .. Len(s)
        BY <2>4
      <4> QED  BY <2>6, <4>1
    <3> QED  BY <1>1, <2>3, <3>1, <3>2 DEF s
  <2>8. 1 + Len(s) .. Len(s) = {} /\ Len(s) >= (1 + Len(s)) - 1
    BY <2>4
  <2> QED  BY <2>3, <2>6, <2>7, <2>8
<1> QED  BY <1>3, <1>4, <1>5

\* A message attributed to a pool adds its entry, and changes nothing else.
LEMMA TakeKeepsApplied ==
    ASSUME Shapes, Shapes', TrackInv, AppliedInv, TakeMessage,
           UNCHANGED <<txs, cut, fetched>>,
           (count = 0 /\ count' = count) \/ count' = count + 1,
           NEW h, h = Head(feedChan),
           NEW times, \A p \in Pools : Grown(p, h, times[p]),
           \A p \in Pools : times[p] # 0 => Replayed(p, h)' \/ Evaluated(p, h)'
    PROVE  AppliedInv'
<1>1. /\ h \in Sequenced /\ Sequenced' = Sequenced /\ fetched \subseteq Pools
      /\ h \in Nat /\ h # 0
  <2>1. h \in Sequenced /\ Sequenced' = Sequenced /\ fetched \subseteq Pools
    BY MessageTyped, ShapeFrames DEF TakeMessage, Shapes, PoolShape
  <2> QED  BY <2>1 DEF Sequenced
<1>2. TakenByDrain \subseteq TakenByDrain' /\ TakenLive \subseteq TakenLive'
  BY TakenGrow
<1>3. \A p \in Pools : Len(mem[p]) \in Nat
  <2>1. \A p \in Pools : mem[p] \in Seq([tx : 0 .. ChainHead, amount : Nat])
    BY DEF Shapes, PoolShape
  <2> QED  BY <2>1
<1>4. EntryOf(h).tx = h /\ EntryOf(h).amount = ApproxAmountIn(txs[h])
  BY DEF EntryOf
<1> SUFFICES ASSUME NEW p \in fetched
             PROVE  /\ \A i \in 1 .. Len(mem'[p]) : mem'[p][i].tx = 0 => i = 1
                    /\ \A i \in AppliedFrom(p)' .. Len(mem'[p]) : Attributed(p, mem[p][i])'
                    /\ Len(mem'[p]) >= AppliedFrom(p)' - 1
  BY DEF AppliedInv
<1> DEFINE s == mem[p]
           t == mem'[p]
           k == times[p]
           a == AppliedFrom(p)
<1>5. /\ k \in Nat /\ Len(s) \in Nat /\ Len(t) = Len(s) + k
      /\ \A i \in 1 .. Len(s) : t[i] = s[i]
      /\ \A i \in Len(s) + 1 .. Len(s) + k : t[i] = EntryOf(h)
      /\ k # 0 => Replayed(p, h)' \/ Evaluated(p, h)'
  BY <1>1, <1>3 DEF Grown
<1>6. /\ \A i \in 1 .. Len(s) : s[i].tx = 0 => i = 1
      /\ \A i \in a .. Len(s) : Attributed(p, s[i])
      /\ Len(s) >= a - 1
  BY DEF AppliedInv
<1>7. a \in Nat /\ a >= 1
  <2> DEFINE c == cut[p]
             w == Swaps(txs, p, c)
             E == { SwapOf(txs, p, j) : j \in 1 .. c }
  <2>1. c \in Nat
    BY <1>1 DEF Shapes, PoolShape, ChainHead
  <2>2. SwapSeq(w, txs, p, c)
    BY <2>1, SwapsAreSwaps
  <2> HIDE DEF w
  <2>3. Len(w) \in Nat
    <3>1. w \in Seq(E)
      BY <2>2 DEF SwapSeq
    <3> QED  BY <3>1
  <2>4. a = 2 \/ a = 1 + Len(w)
    BY DEF AppliedFrom, ChainHist, w
  <2> QED  BY <2>3, <2>4
<1>8. AppliedFrom(p)' = a
  <2>1. (Len(t) >= 1 /\ t[1].tx = 0) <=> (Len(s) >= 1 /\ s[1].tx = 0)
    <3> HIDE DEF s, t, k
    <3>1. CASE Len(s) >= 1
      <4>1. 1 \in 1 .. Len(s)
        BY <1>5, <3>1
      <4> QED  BY <1>5, <3>1, <4>1
    <3>2. CASE ~ (Len(s) >= 1)
      <4>1. Len(s) = 0 /\ Len(t) = k
        BY <1>5, <3>2
      <4>2. Len(t) >= 1 => 1 \in Len(s) + 1 .. Len(s) + k
        BY <1>5, <4>1
      <4>3. Len(t) >= 1 => t[1].tx = h
        BY <1>4, <1>5, <4>2
      <4> QED  BY <1>1, <3>2, <4>3
    <3> QED  BY <3>1, <3>2
  <2>2. ChainHist(p, cut[p])' = ChainHist(p, cut[p])
    BY DEF ChainHist
  <2> QED  BY <2>1, <2>2 DEF AppliedFrom
<1>9. ASSUME NEW i \in 1 .. Len(t), t[i].tx = 0 PROVE i = 1
  <2> HIDE DEF s, t, k
  <2>1. CASE i \in 1 .. Len(s)
    BY <1>5, <1>6, <1>9, <2>1
  <2>2. CASE i \notin 1 .. Len(s)
    <3>1. i \in Len(s) + 1 .. Len(s) + k
      BY <1>5, <2>2
    <3>2. t[i].tx = h
      BY <1>4, <1>5, <3>1
    <3> QED  BY <1>1, <1>9, <3>2
  <2> QED  BY <2>1, <2>2
<1>10. ASSUME NEW i \in a .. Len(t) PROVE Attributed(p, mem[p][i])'
  <2> HIDE DEF s, t, k, a
  <2>1. CASE i \in 1 .. Len(s)
    <3>1. i \in a .. Len(s) /\ t[i] = s[i]
      BY <1>5, <1>7, <2>1
    <3>2. PICK entry : entry = s[i]
      OBVIOUS
    <3>3. Attributed(p, entry)
      BY <1>6, <3>1, <3>2
    <3>4. Attributed(p, entry)'
      BY <1>1, <1>2, <3>3, AttributedStays
    <3>5. mem'[p][i] = entry
      BY <3>1, <3>2 DEF t
    <3> QED  BY <3>4, <3>5 DEF Attributed, Replayed, Evaluated
  <2>2. CASE i \notin 1 .. Len(s)
    <3>1. i \in Len(s) + 1 .. Len(s) + k
      BY <1>5, <1>7, <2>2
    <3>2. t[i] = EntryOf(h) /\ k # 0
      BY <1>5, <3>1
    <3>3. PICK entry : entry = EntryOf(h)
      OBVIOUS
    <3>4. entry.tx = h /\ entry.amount = ApproxAmountIn(txs'[h]) /\ h \in Sequenced'
      BY <1>1, <1>4, <3>3
    <3>5. Replayed(p, h)' \/ Evaluated(p, h)'
      BY <1>5, <3>2
    <3>6. Attributed(p, entry)'
      BY <3>4, <3>5 DEF Attributed, Replayed, Evaluated
    <3>7. mem'[p][i] = entry
      BY <3>2, <3>3 DEF t
    <3> QED  BY <3>6, <3>7 DEF Attributed, Replayed, Evaluated
  <2> QED  BY <2>1, <2>2
<1>11. Len(t) >= a - 1
  <2> HIDE DEF s, t, k, a
  <2> QED  BY <1>5, <1>6, <1>7
<1> QED  BY <1>8, <1>9, <1>10, <1>11

\* A message that changes no pool.
LEMMA PassKeepsApplied ==
    ASSUME Shapes, Shapes', TrackInv, AppliedInv, TakeMessage,
           UNCHANGED <<txs, mem, cut, fetched>>,
           (count = 0 /\ count' = count) \/ count' = count + 1
    PROVE  AppliedInv'
<1> DEFINE times == [p \in Pools |-> 0]
<1>1. \A p \in Pools : times[p] = 0
  OBVIOUS
<1>2. PICK h : h = Head(feedChan)
  OBVIOUS
<1> HIDE DEF times
<1>3. ASSUME NEW p \in Pools PROVE Grown(p, h, times[p])
  <2>1. mem[p] \in Seq([tx : 0 .. ChainHead, amount : Nat])
    BY DEF Shapes, PoolShape
  <2>2. Len(mem[p]) \in Nat
    BY <2>1
  <2> QED  BY <1>1, <2>2 DEF Grown
<1> QED  BY <1>1, <1>2, <1>3, TakeKeepsApplied

\* A pool the drain or the live loop attributes a message to.
LEMMA AttributionNamesPair ==
    ASSUME NEW p \in Pools, NEW n
    PROVE  /\ \A hop : ReplayPool(hop, txs[n], fetched) = p => hop = PairOf(p)
           /\ PoolA(n) = p => /\ Len(TokenPath(txs[n])) >= 2
                              /\ EndPair(txs[n]) = PairOf(p)
                              /\ MatchesAction(p, txs[n])
<1>1. p # NoPool
  BY RegistryTyped
<1>2. ASSUME NEW pair, NEW S \in SUBSET PoolsOf(pair), First[S] = p
      PROVE  p \in S /\ pair = PairOf(p)
  <2>1. S \in SUBSET Pools
    BY DEF PoolsOf, TokenGraph
  <2>2. p \in S
    BY <1>1, <1>2, <2>1, FirstIsOne
  <2>3. p \in PoolsOf(pair)
    BY <2>2
  <2> QED  BY <2>2, <2>3 DEF PoolsOf, TokenGraph
<1>3. ASSUME NEW hop, ReplayPool(hop, txs[n], fetched) = p PROVE hop = PairOf(p)
  <2> DEFINE S == { q \in PoolsOf(hop) : Simulates(q, txs[n], fetched) }
  <2>1. S \in SUBSET PoolsOf(hop) /\ First[S] = p
    BY <1>3 DEF ReplayPool
  <2> HIDE DEF S
  <2> QED  BY <1>2, <2>1
<1>4. ASSUME PoolA(n) = p
      PROVE  /\ Len(TokenPath(txs[n])) >= 2
             /\ EndPair(txs[n]) = PairOf(p)
             /\ MatchesAction(p, txs[n])
  <2> DEFINE S == { q \in PoolsOf(EndPair(txs[n])) : MatchesAction(q, txs[n]) }
  <2>1. FindMatchingPool(txs[n]) = p /\ Len(TokenPath(txs[n])) >= 2
    BY <1>1, <1>4 DEF PoolA
  <2>2. S \in SUBSET PoolsOf(EndPair(txs[n])) /\ First[S] = p
    BY <2>1 DEF FindMatchingPool
  <2>3. p \in S => MatchesAction(p, txs[n])
    OBVIOUS
  <2> HIDE DEF S
  <2> QED  BY <1>2, <2>1, <2>2, <2>3
<1> QED  BY <1>3, <1>4

LEMMA ReplayKeepsApplied ==
    ASSUME Shapes, Shapes', TrackInv, AppliedInv, DrainReplay
    PROVE  AppliedInv'
<1> DEFINE n      == Head(feedChan)
           hops   == Hops(txs[n])
           hit(p) == { i \in DOMAIN hops : ReplayPool(hops[i], txs[n], fetched) = p }
           times  == [p \in Pools |-> Cardinality(hit(p))]
<1>1. /\ TakeMessage /\ phase = "draining" /\ ApplyHops(n, times)
      /\ UNCHANGED <<txs, cut, fetched, count>>
  BY DEF DrainReplay
<1>2. /\ feedChan # <<>> /\ count = 0 /\ Len(TokenPath(txs[n])) \in Nat
  BY <1>1, MessageTyped DEF TrackInv, TakeMessage
<1>3. \A p \in Pools : times[p] \in Nat
  BY <1>2, HitsCounted
<1>4. ASSUME NEW p \in Pools, times[p] # 0
      PROVE  \E i \in DOMAIN hops : hops[i] = PairOf(p)
  <2>1. hit(p) # {}
    <3>1. hit(p) = {} => Cardinality(hit(p)) = 0
      <4> HIDE DEF hit
      <4> QED  BY FS_EmptySet
    <3> QED  BY <1>4, <3>1
  <2> QED  BY <2>1, AttributionNamesPair
<1>5. n \in TakenByDrain'
  BY <1>1, <1>2, TakenGrow
<1> HIDE DEF times
<1>6. PICK h : h = n
  OBVIOUS
<1>7. \A p \in Pools : Grown(p, h, times[p])
  BY <1>1, <1>3, <1>6, HopsGrow
<1>8. ASSUME NEW p \in Pools, times[p] # 0 PROVE Replayed(p, h)'
  BY <1>1, <1>4, <1>5, <1>6, <1>8 DEF Replayed
<1> QED  BY <1>1, <1>2, <1>6, <1>7, <1>8, TakeKeepsApplied

LEMMA UpdateKeepsApplied ==
    ASSUME Shapes, Shapes', TrackInv, AppliedInv, LiveMessage,
           UpdatePoolA(Head(feedChan), PoolA(Head(feedChan)))
    PROVE  AppliedInv'
<1> DEFINE n     == Head(feedChan)
           times == [p \in Pools |-> IF p = PoolA(n) THEN 1 ELSE 0]
<1>1. /\ TakeMessage /\ count' = count + 1 /\ ApplyHops(n, times)
      /\ UNCHANGED <<txs, cut, fetched>>
  BY DEF LiveMessage, UpdatePoolA
<1>2. \A p \in Pools : times[p] \in Nat /\ (times[p] # 0 => p = PoolA(n))
  OBVIOUS
<1>3. n \in TakenLive'
  BY <1>1, TakenGrow
<1> HIDE DEF times
<1>4. PICK h : h = n
  OBVIOUS
<1>5. \A p \in Pools : Grown(p, h, times[p])
  BY <1>1, <1>2, <1>4, HopsGrow
<1>6. ASSUME NEW p \in Pools, times[p] # 0 PROVE Evaluated(p, h)'
  <2>1. PoolA(h) = p
    BY <1>2, <1>4, <1>6
  <2>2. /\ Len(TokenPath(txs[h])) >= 2
        /\ EndPair(txs[h]) = PairOf(p)
        /\ MatchesAction(p, txs[h])
    BY <2>1, AttributionNamesPair
  <2> QED  BY <1>1, <1>3, <1>4, <2>2 DEF Evaluated
<1> QED  BY <1>1, <1>4, <1>5, <1>6, TakeKeepsApplied

LEMMA InitApplied == Init => AppliedInv
BY DEF Init, InitPools, AppliedInv

LEMMA NextApplied ==
    ASSUME Shapes, Shapes', FetchInv, TrackInv, AppliedInv, [Next]_vars
    PROVE  AppliedInv'
<1>1. ASSUME txs' = txs, mem' = mem, cut' = cut, fetched' = fetched,
             taken' = taken, count' = count
      PROVE  AppliedInv'
  <2>1. Sequenced' = Sequenced
    BY <1>1, ShapeFrames
  <2> QED  BY <1>1, <2>1, AppliedFrame
<1>2. CASE SequenceTx /\ UNCHANGED <<feedVars, poolVars, engineVars>>
  <2>1. PICK t \in TxShapes : txs' = Append(txs, t)
    BY <1>2 DEF SequenceTx
  <2>2. txs \in Seq(TxShapes) /\ Len(txs) \in Nat
    BY DEF Shapes, ChainShape
  <2>3. \A n \in Sequenced : txs'[n] = txs[n]
    BY <2>1, <2>2 DEF Sequenced, ChainHead
  <2>4. Sequenced \subseteq Sequenced'
    <3>1. Len(txs') = Len(txs) + 1
      BY <2>1, <2>2
    <3>2. 1 .. Len(txs) \subseteq 1 .. Len(txs')
      BY <2>2, <3>1
    <3> QED  BY <3>2 DEF Sequenced, ChainHead
  <2> QED  BY <1>2, <2>3, <2>4, AppliedFrame DEF poolVars, engineVars
<1>3. CASE FeedNext /\ UNCHANGED <<txs, poolVars, engineVars>>
  BY <1>1, <1>3 DEF poolVars, engineVars
<1>4. CASE FetchStep
  <2>1. UNCHANGED <<txs, feedVars, engineVars>>
    BY <1>4 DEF FetchStep
  <2>2. CASE StoreReserves
    BY <2>1, <2>2, StoreKeepsApplied
  <2>3. CASE SkipPool \/ CallReserves \/ FetchFails
    <3>1. mem' = mem /\ cut' = cut /\ fetched' = fetched
      BY <2>3 DEF SkipPool, CallReserves, FetchFails
    <3> QED  BY <1>1, <2>1, <3>1 DEF engineVars
  <2> QED  BY <1>4, <2>2, <2>3 DEF FetchStep, FetchNext
<1>5. CASE FetchDone \/ DrainDone \/ LeaveLoop \/ TakeSignal \/ UNCHANGED vars
  BY <1>1, <1>5
     DEF FetchDone, DrainDone, LeaveLoop, TakeSignal, vars, poolVars, engineVars
<1>6. CASE DrainDiscard
  <2>1. count = 0
    BY <1>6 DEF DrainDiscard, TrackInv
  <2> QED  BY <1>6, <2>1, PassKeepsApplied DEF DrainDiscard, poolVars
<1>7. CASE DrainReplay
  BY <1>7, ReplayKeepsApplied
<1>8. CASE EvaluateSkips \/ EvaluateFails
  BY <1>8, PassKeepsApplied DEF EvaluateSkips, EvaluateFails, LiveMessage, poolVars
<1>9. CASE EvaluateQuietly
  BY <1>9, UpdateKeepsApplied DEF EvaluateQuietly
<1>10. CASE \E signal \in EngineSignals : EvaluateSignals(signal)
  BY <1>10, UpdateKeepsApplied DEF EvaluateSignals
<1> QED
  BY <1>2, <1>3, <1>4, <1>5, <1>6, <1>7, <1>8, <1>9, <1>10
     DEF Next, EngineStep, EngineAlone

\* What Applied takes for the end of the snapshot is where it ends.
LEMMA AppliedIsPastSnapshot ==
    ASSUME Shapes, AppliedInv, NEW p \in fetched, NEW entry \in Applied(p)
    PROVE  Attributed(p, entry)
<1> DEFINE s == mem[p]
           E == [tx : 0 .. ChainHead, amount : Nat]
           hits == { i \in DOMAIN s : s[i].tx = 0 }
<1>1. s \in Seq(E)
  BY DEF Shapes, PoolShape
<1>2. DOMAIN s = 1 .. Len(s) /\ Len(s) \in Nat
  BY <1>1
<1>3. /\ \A i \in 1 .. Len(s) : s[i].tx = 0 => i = 1
      /\ \A i \in AppliedFrom(p) .. Len(s) : Attributed(p, s[i])
  BY DEF AppliedInv
<1>4. Reflected(p, 0) > 0 <=> Len(s) >= 1 /\ s[1].tx = 0
  <2>1. CASE Len(s) >= 1 /\ s[1].tx = 0
    <3>1. hits = {1}
      BY <1>2, <1>3, <2>1
    <3>2. Cardinality(hits) = 1
      <4> HIDE DEF hits
      <4> QED  BY <3>1, FS_Singleton
    <3> QED  BY <2>1, <3>2 DEF Reflected
  <2>2. CASE ~ (Len(s) >= 1 /\ s[1].tx = 0)
    <3>1. hits = {}
      BY <1>2, <1>3, <2>2
    <3>2. Cardinality(hits) = 0
      <4> HIDE DEF hits
      <4> QED  BY <3>1, FS_EmptySet
    <3> QED  BY <2>2, <3>2 DEF Reflected
  <2> QED  BY <2>1, <2>2
<1>5. PICK i \in AppliedFrom(p) .. Len(s) : entry = s[i]
  BY <1>4 DEF Applied, AppliedFrom
<1> HIDE DEF s
<1> QED  BY <1>3, <1>5

\* A call the parser knows keeps its path, fee and, but for ETH, amount.
LEMMA KnownCalls ==
    ASSUME NEW tx, Len(TokenPath(tx)) >= 2
    PROVE  /\ tx.call \in KnownSelectors
           /\ TokenPath(tx) = tx.path
           /\ Action(tx).call = tx.call
           /\ tx.call # "swapExactETHForTokens" => ApproxAmountIn(tx) = tx.amount
<1>1. TokenPath(tx) = Action(tx).path \/ TokenPath(tx) = <<>>
  BY DEF TokenPath
<1>2. Len(<<>>) = 0
  OBVIOUS
<1>3. tx.call \in KnownSelectors
  BY <1>1, <1>2 DEF TokenPath, Action, DecodeSwapAction, Unknown
<1>4. TokenPath(tx) # <<>>
  BY <1>2
<1> QED
  BY <1>1, <1>3, <1>4 DEF Action, DecodeSwapAction, ApproxAmountIn

\* The code's picture of a pool departs from the chain only as far as what it
\* can tell from a message does: for every registry, every transaction the
\* routers execute as called, and every fault, a swap is misattributed only
\* between pools the message cannot tell apart, and misjudged only upwards.
THEOREM DeviationsExplainedHolds == Spec => []DeviationsExplained
<1>1. Shapes /\ InertInv /\ AppliedInv => DeviationsExplained
  <2> SUFFICES ASSUME Shapes, InertInv, AppliedInv,
                      NEW p \in Pools, NEW entry \in Applied(p)
               PROVE
       LET tx        == txs[entry.tx]
           moved     == DOMAIN tx.route
           singleHop == Len(TokenPath(tx)) = 2
           live      == entry.tx \notin TakenByDrain
       IN  /\ singleHop /\ p \notin moved /\ moved \cap Rivals(p) # {} =>
                 (live /\ tx.call \in SingleCalls
                    => \A q \in moved \cap Rivals(p) : FeeTier[q] = FeeTier[p])
           /\ singleHop /\ moved = {p} =>
                 \/ entry.amount = tx.route[p]
                 \/ entry.amount > tx.route[p] /\ tx.call \in ExactOutputCalls
                 \/ tx.call = "swapExactETHForTokens"
           /\ ~IsPathMonitored(tx) => entry.tx \in TakenLive /\ Len(TokenPath(tx)) > 2
    BY DEF DeviationsExplained
  <2> DEFINE n  == entry.tx
             tx == txs[n]
  <2>1. p \in fetched
    <3> SUFFICES ASSUME p \notin fetched PROVE FALSE
      OBVIOUS
    <3>1. mem[p] = <<>>
      BY DEF InertInv
    <3>2. Len(mem[p]) = 0 /\ DOMAIN mem[p] = {}
      BY <3>1
    <3>3. ASSUME NEW c \in Nat PROVE Len(ChainHist(p, c)) \in Nat
      <4>1. SwapSeq(Swaps(txs, p, c), txs, p, c)
        BY <3>3, SwapsAreSwaps
      <4> DEFINE w == Swaps(txs, p, c)
                 E == { SwapOf(txs, p, j) : j \in 1 .. c }
      <4> HIDE DEF w
      <4>2. w \in Seq(E)
        BY <4>1 DEF SwapSeq, w
      <4>3. Len(w) \in Nat
        BY <4>2
      <4> QED  BY <4>3 DEF ChainHist, w
    <3>4. cut[p] \in Nat
      BY DEF Shapes, PoolShape, ChainHead
    <3>5. Len(ChainHist(p, cut[p])) \in Nat
      BY <3>3, <3>4
    <3> QED  BY <3>2, <3>5 DEF Applied
  <2>2. /\ n \in Sequenced /\ entry.amount = ApproxAmountIn(tx)
        /\ Replayed(p, n) \/ Evaluated(p, n)
    BY <2>1, AppliedIsPastSnapshot DEF Attributed
  <2>3. tx \in TxShapes /\ DOMAIN tx.route \subseteq Pools
    BY <2>2, ShapesTyped DEF Sequenced, Shapes, ChainShape, ChainHead
  <2>4. /\ Replayed(p, n) => /\ n \in TakenByDrain
                             /\ \E i \in DOMAIN Hops(tx) : Hops(tx)[i] = PairOf(p)
        /\ Evaluated(p, n) => /\ n \in TakenLive
                              /\ Len(TokenPath(tx)) >= 2
                              /\ EndPair(tx) = PairOf(p)
                              /\ MatchesAction(p, tx)
    BY DEF Replayed, Evaluated
  <2>5. Len(TokenPath(tx)) = 2 =>
           /\ Len(tx.path) = 2
           /\ Action(tx).call = tx.call
           /\ tx.call # "swapExactETHForTokens" => ApproxAmountIn(tx) = tx.amount
    BY KnownCalls
  <2>6. Len(TokenPath(tx)) \in Nat
    BY <2>3, ShapesTyped DEF TokenPath, Action, DecodeSwapAction, Unknown
  <2> HIDE DEF tx, n
  <2>7. ASSUME Len(TokenPath(tx)) = 2, n \notin TakenByDrain, tx.call \in SingleCalls,
               NEW q \in DOMAIN tx.route
        PROVE  FeeTier[q] = FeeTier[p]
    <3>1. MatchesAction(p, tx)
      BY <2>2, <2>4, <2>7
    <3>2. FeeTier[p] = tx.fee
      BY <2>5, <2>7, <3>1 DEF MatchesAction
    <3>3. FeeTier[q] = tx.fee
      BY <2>3, <2>5, <2>7, RoutersFollowCalls
    <3> QED  BY <3>2, <3>3
  <2>8. ASSUME Len(TokenPath(tx)) = 2, DOMAIN tx.route = {p},
               tx.call # "swapExactETHForTokens"
        PROVE  \/ entry.amount = tx.route[p]
               \/ entry.amount > tx.route[p] /\ tx.call \in ExactOutputCalls
    <3>1. entry.amount = tx.amount /\ tx.amount \in Nat /\ tx.route[p] \in Nat
      BY <2>2, <2>3, <2>5, <2>8, ShapesTyped
    <3>2. tx.route[p] = tx.amount \/ (tx.route[p] < tx.amount /\ tx.call \in ExactOutputCalls)
      BY <2>3, <2>5, <2>8, RoutersFollowCalls
    <3> QED  BY <3>1, <3>2
  <2>9. ASSUME ~ IsPathMonitored(tx)
        PROVE  n \in TakenLive /\ Len(TokenPath(tx)) > 2
    <3>1. \A i \in 1 .. Len(TokenPath(tx)) - 1 : Hops(tx)[i] # PairOf(p)
      BY <2>9 DEF IsPathMonitored
    <3>2. ~ Replayed(p, n)
      BY <2>4, <3>1 DEF Hops
    <3>3. Evaluated(p, n)
      BY <2>2, <3>2
    <3>4. Len(TokenPath(tx)) # 2
      <4> SUFFICES ASSUME Len(TokenPath(tx)) = 2 PROVE FALSE
        OBVIOUS
      <4>1. 1 \in 1 .. Len(TokenPath(tx)) - 1 /\ Hops(tx)[1] = EndPair(tx)
        BY DEF Hops, EndPair
      <4> QED  BY <2>4, <3>1, <3>3, <4>1
    <3>5. n \in TakenLive /\ Len(TokenPath(tx)) >= 2
      BY <2>4, <3>3
    <3>6. Len(TokenPath(tx)) > 2
      BY <2>6, <3>4, <3>5
    <3> QED  BY <3>5, <3>6
  <2> QED  BY <2>7, <2>8, <2>9 DEF tx, n
<1>2. Init => Shapes /\ FetchInv /\ InertInv /\ StreamInv /\ TrackInv /\ AppliedInv
  BY InitShapes, InitFetchInv, InitInertInv, InitStream, InitTrack, InitApplied
<1>3. Shapes /\ FetchInv /\ InertInv /\ StreamInv /\ TrackInv /\ AppliedInv /\ [Next]_vars
         => (Shapes /\ FetchInv /\ InertInv /\ StreamInv /\ TrackInv /\ AppliedInv)'
  BY NextShapes, NextFetchInv, NextInertInv, NextStream, NextTrack, NextApplied
<1> QED  BY <1>1, <1>2, <1>3, PTL DEF Spec

=============================================================================
