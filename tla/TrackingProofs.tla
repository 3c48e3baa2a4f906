---------------------------- MODULE TrackingProofs ----------------------------
(***************************************************************************)
(* The engine's memory follows the chain: the types of the whole engine,   *)
(* the order in which the feed gives messages, and what bootstrap and live *)
(* loop make of it, for any registry, transactions, feed faults, RPC       *)
(* failures and channel capacities.                                        *)
(***************************************************************************)
EXTENDS ArbitrageEngineProofs, InductionProofs, SequenceTheorems

-----------------------------------------------------------------------------
(* The swaps of a pool on a chain: Swaps is a recursive function, and these *)
(* are the facts the proofs need of it, for every chain.                   *)

\* What transaction n does to pool p.
SwapOf(chain, p, n) == [tx |-> n, amount |-> chain[n].route[p]]

\* The swaps of a pool are collected one transaction at a time.
LEMMA SwapsSteps ==
    ASSUME NEW chain, NEW p
    PROVE  /\ Swaps(chain, p, 0) = <<>>
           /\ \A n \in Nat :
                 Swaps(chain, p, n + 1) =
                    IF p \in DOMAIN chain[n + 1].route
                    THEN Append(Swaps(chain, p, n), SwapOf(chain, p, n + 1))
                    ELSE Swaps(chain, p, n)
<1> DEFINE V     == Seq({ SwapOf(chain, p, n) : n \in Nat })
           step  == [k \in Nat |-> [v \in V |->
                       IF p \in DOMAIN chain[k].route
                       THEN Append(v, SwapOf(chain, p, k)) ELSE v]]
           Is(h) == h = [k \in Nat |->
                       IF k = 0 THEN <<>>
                       ELSE IF p \in DOMAIN chain[k].route
                            THEN Append(h[k - 1], [tx |-> k, amount |-> chain[k].route[p]])
                            ELSE h[k - 1]]
           hist  == CHOOSE h : Is(h)
<1>1. <<>> \in V
  OBVIOUS
<1>2. step \in [Nat -> [V -> V]]
  <2>1. ASSUME NEW k \in Nat, NEW v \in V
        PROVE  Append(v, SwapOf(chain, p, k)) \in V
    <3>1. SwapOf(chain, p, k) \in { SwapOf(chain, p, n) : n \in Nat }
      OBVIOUS
    <3> QED  BY <3>1
  <2> HIDE DEF V
  <2> QED  BY <2>1
<1>3. PICK h : Recurs(h, V, <<>>, step)
  <2> HIDE DEF V, step
  <2> QED  BY <1>1, <1>2, RecursionSolved
<1>4. /\ h \in [Nat -> V] /\ h[0] = <<>>
      /\ \A n \in Nat \ {0} : h[n] = step[n][h[n - 1]]
  <2> HIDE DEF V, step
  <2> QED  BY <1>3 DEF Recurs
<1>5. Is(h)
  <2>1. ASSUME NEW n \in Nat, n # 0
        PROVE  step[n][h[n - 1]] =
                  IF p \in DOMAIN chain[n].route
                  THEN Append(h[n - 1], [tx |-> n, amount |-> chain[n].route[p]])
                  ELSE h[n - 1]
    <3>1. h[n - 1] \in V
      <4> HIDE DEF V, step
      <4>1. n - 1 \in Nat /\ h \in [Nat -> V]
        BY <1>4, <2>1
      <4> QED  BY <4>1
    <3> HIDE DEF V
    <3> QED  BY <3>1 DEF SwapOf
  <2> HIDE DEF step, V
  <2> QED  BY <1>4, <2>1
<1>6. Is(hist)
  <2> HIDE DEF Is
  <2> QED  BY <1>5
<1>7. \A n \in Nat : Swaps(chain, p, n) = hist[n]
  BY DEF Swaps
<1> HIDE DEF hist
<1>8. hist[0] = <<>>
  BY <1>6
<1>9. ASSUME NEW n \in Nat
      PROVE  hist[n + 1] = IF p \in DOMAIN chain[n + 1].route
                           THEN Append(hist[n], SwapOf(chain, p, n + 1))
                           ELSE hist[n]
  <2>1. n + 1 \in Nat /\ n + 1 # 0 /\ (n + 1) - 1 = n
    OBVIOUS
  <2>2. hist[n + 1] = IF p \in DOMAIN chain[n + 1].route
                      THEN Append(hist[(n + 1) - 1],
                                  [tx |-> n + 1, amount |-> chain[n + 1].route[p]])
                      ELSE hist[(n + 1) - 1]
    BY <1>6, <2>1
  <2> QED  BY <2>1, <2>2 DEF SwapOf
<1>10. ASSUME NEW n \in Nat
       PROVE  Swaps(chain, p, n + 1) =
                 IF p \in DOMAIN chain[n + 1].route
                 THEN Append(Swaps(chain, p, n), SwapOf(chain, p, n + 1))
                 ELSE Swaps(chain, p, n)
  <2>1. Swaps(chain, p, n + 1) = hist[n + 1] /\ Swaps(chain, p, n) = hist[n]
    <3>1. n + 1 \in Nat
      OBVIOUS
    <3> QED  BY <1>7, <3>1
  <2> QED  BY <1>9, <2>1
<1>11. Swaps(chain, p, 0) = <<>>
  BY <1>7, <1>8
<1> QED  BY <1>10, <1>11

\* Transactions that do not move the pool add nothing.
LEMMA SwapsQuiet ==
    ASSUME NEW chain, NEW p, NEW a \in Nat, NEW b \in Nat, a <= b,
           \A n \in a + 1 .. b : p \notin DOMAIN chain[n].route
    PROVE  Swaps(chain, p, b) = Swaps(chain, p, a)
<1> DEFINE T == { n \in Nat : a + n <= b => Swaps(chain, p, a + n) = Swaps(chain, p, a) }
<1>1. 0 \in T
  OBVIOUS
<1>2. ASSUME NEW n \in T PROVE n + 1 \in T
  <2>1. CASE a + (n + 1) <= b
    <3>1. a + n \in Nat /\ a + (n + 1) = (a + n) + 1 /\ (a + n) + 1 \in a + 1 .. b
      BY <2>1
    <3>2. Swaps(chain, p, (a + n) + 1) = Swaps(chain, p, a + n)
      BY <3>1, SwapsSteps
    <3> QED  BY <3>1, <3>2
  <2> QED  BY <2>1
<1>3. T = Nat
  <2> HIDE DEF T
  <2>1. T \in SUBSET Nat
    BY DEF T
  <2> QED  BY <1>1, <1>2, <2>1, NaturalsBySteps
<1>4. \A n \in Nat : a + n <= b => Swaps(chain, p, a + n) = Swaps(chain, p, a)
  BY <1>3
<1>5. b - a \in Nat /\ a + (b - a) = b
  OBVIOUS
<1> HIDE DEF T
<1> QED  BY <1>4, <1>5

\* Two chains do the same to pool p in their k-th transaction.
AgreeOn(chain, other, p, k) ==
    /\ p \in DOMAIN other[k].route <=> p \in DOMAIN chain[k].route
    /\ p \in DOMAIN chain[k].route => other[k].route[p] = chain[k].route[p]

\* The swaps depend on what the transactions up to n do to the pool only.
LEMMA SwapsAgree ==
    ASSUME NEW chain, NEW other, NEW p, NEW n \in Nat,
           \A k \in 1 .. n : AgreeOn(chain, other, p, k)
    PROVE  Swaps(other, p, n) = Swaps(chain, p, n)
<1> DEFINE T == { k \in Nat : k <= n => Swaps(other, p, k) = Swaps(chain, p, k) }
<1>1. 0 \in T
  BY SwapsSteps
<1>2. ASSUME NEW k \in T PROVE k + 1 \in T
  <2>1. CASE k + 1 <= n
    <3>1. /\ k \in Nat
          /\ AgreeOn(chain, other, p, k + 1)
          /\ Swaps(other, p, k) = Swaps(chain, p, k)
      BY <1>2, <2>1
    <3>2. /\ p \in DOMAIN other[k + 1].route <=> p \in DOMAIN chain[k + 1].route
          /\ p \in DOMAIN chain[k + 1].route =>
                SwapOf(other, p, k + 1) = SwapOf(chain, p, k + 1)
      BY <3>1 DEF AgreeOn, SwapOf
    <3>3. /\ Swaps(other, p, k + 1) =
                IF p \in DOMAIN other[k + 1].route
                THEN Append(Swaps(other, p, k), SwapOf(other, p, k + 1))
                ELSE Swaps(other, p, k)
          /\ Swaps(chain, p, k + 1) =
                IF p \in DOMAIN chain[k + 1].route
                THEN Append(Swaps(chain, p, k), SwapOf(chain, p, k + 1))
                ELSE Swaps(chain, p, k)
      BY <3>1, SwapsSteps
    <3> QED  BY <3>1, <3>2, <3>3
  <2> QED  BY <2>1
<1>3. T = Nat
  <2> HIDE DEF T
  <2>1. T \in SUBSET Nat
    BY DEF T
  <2> QED  BY <1>1, <1>2, <2>1, NaturalsBySteps
<1> QED  BY <1>3

\* They are those of any chain it is a prefix of.
LEMMA SwapsOfPrefix ==
    ASSUME NEW chain, NEW longer, NEW p, NEW n \in Nat,
           \A k \in 1 .. n : longer[k] = chain[k]
    PROVE  Swaps(longer, p, n) = Swaps(chain, p, n)
<1>1. \A k \in 1 .. n : AgreeOn(chain, longer, p, k)
  BY DEF AgreeOn
<1> QED  BY <1>1, SwapsAgree

\* A sequence of swaps of p among the first n transactions: each is one of
\* theirs, and none comes twice.
SwapSeq(s, chain, p, n) ==
    /\ s \in Seq({ SwapOf(chain, p, k) : k \in 1 .. n })
    /\ \A i \in 1 .. Len(s) : p \in DOMAIN chain[s[i].tx].route
    /\ \A i, j \in 1 .. Len(s) : i < j => s[i].tx < s[j].tx

LEMMA SwapsAreSwaps ==
    ASSUME NEW chain, NEW p, NEW n \in Nat
    PROVE  SwapSeq(Swaps(chain, p, n), chain, p, n)
<1> DEFINE E(k) == { SwapOf(chain, p, m) : m \in 1 .. k }
           T    == { k \in Nat : SwapSeq(Swaps(chain, p, k), chain, p, k) }
<1>1. 0 \in T
  <2>1. SwapSeq(<<>>, chain, p, 0)
    BY DEF SwapSeq
  <2> QED  BY <2>1, SwapsSteps
<1>2. ASSUME NEW k \in T PROVE k + 1 \in T
  <2> DEFINE s == Swaps(chain, p, k)
             t == Swaps(chain, p, k + 1)
  <2>1. /\ k \in Nat /\ s \in Seq(E(k))
        /\ \A i \in 1 .. Len(s) : p \in DOMAIN chain[s[i].tx].route
        /\ \A i, j \in 1 .. Len(s) : i < j => s[i].tx < s[j].tx
    BY <1>2 DEF SwapSeq
  <2>2. E(k) \subseteq E(k + 1) /\ SwapOf(chain, p, k + 1) \in E(k + 1)
    BY <2>1
  <2>3. \A i \in 1 .. Len(s) : s[i].tx \in 1 .. k
    BY <2>1 DEF SwapOf
  <2>4. CASE p \notin DOMAIN chain[k + 1].route
    <3>1. t = s
      BY <2>1, <2>4, SwapsSteps
    <3>2. s \in Seq(E(k + 1))
      <4> HIDE DEF s, E
      <4> QED  BY <2>1, <2>2
    <3> HIDE DEF s, t
    <3>3. SwapSeq(t, chain, p, k + 1)
      BY <2>1, <3>1, <3>2 DEF SwapSeq
    <3> QED  BY <2>1, <3>3 DEF t
  <2>5. CASE p \in DOMAIN chain[k + 1].route
    <3> DEFINE e == SwapOf(chain, p, k + 1)
    <3>1. t = Append(s, e) /\ e.tx = k + 1
      BY <2>1, <2>5, SwapsSteps DEF SwapOf
    <3> HIDE DEF s, t, e, E
    <3>2. /\ t \in Seq(E(k + 1))
          /\ Len(t) = Len(s) + 1 /\ Len(s) \in Nat
          /\ \A i \in 1 .. Len(s) : t[i] = s[i]
          /\ t[Len(s) + 1] = e
      BY <2>1, <2>2, <3>1 DEF e
    <3>3. \A i \in 1 .. Len(t) : p \in DOMAIN chain[t[i].tx].route
      BY <2>1, <2>5, <3>1, <3>2
    <3>4. ASSUME NEW i \in 1 .. Len(t), NEW j \in 1 .. Len(t), i < j
          PROVE  t[i].tx < t[j].tx
      BY <2>1, <2>3, <3>1, <3>2, <3>4
    <3>5. SwapSeq(t, chain, p, k + 1)
      BY <3>2, <3>3, <3>4 DEF SwapSeq, E
    <3> QED  BY <2>1, <3>5 DEF t
  <2> QED  BY <2>4, <2>5
<1>3. T = Nat
  <2> HIDE DEF T
  <2>1. T \in SUBSET Nat
    BY DEF T
  <2> QED  BY <1>1, <1>2, <2>1, NaturalsBySteps
<1> QED  BY <1>3

-----------------------------------------------------------------------------
(* Types.                                                                  *)
(*                                                                         *)
(* TypeOK bounds what the modules remember by the length the chain may     *)
(* reach; what is inductive bounds it by the length the chain has.         *)

Sequenced == 1 .. ChainHead

ChainShape == txs \in Seq(TxShapes) /\ Len(txs) <= MaxTxs

FeedShape ==
    /\ connected \in BOOLEAN
    /\ fed \in 0 .. ChainHead
    /\ feedChan \in Seq(Sequenced)
    /\ Len(feedChan) <= FeedCap
    /\ rxOpen \in BOOLEAN
    /\ lost \subseteq Sequenced
    /\ repeated \subseteq Sequenced

PoolShape ==
    /\ toFetch \in Seq(Pools)
    /\ DOMAIN reading \subseteq {"getReserves", "slot0", "liquidity"}
    /\ \A call \in DOMAIN reading : reading[call] \in 0 .. ChainHead
    /\ maxBlock \in Nat
    /\ fetched \subseteq Pools
    /\ mem \in [Pools -> Seq([tx : 0 .. ChainHead, amount : Nat])]
    /\ cut \in [Pools -> 0 .. ChainHead]

EngineShape ==
    /\ phase \in Phases
    /\ checkpoint \in Nat
    /\ count \in Nat
    /\ execChan \in Seq(EngineSignals)
    /\ Len(execChan) <= ExecCap
    /\ discarded \subseteq Sequenced
    /\ taken \in Seq(Sequenced)

Shapes == ChainShape /\ FeedShape /\ PoolShape /\ EngineShape

LEMMA ShapesAreTypes == Shapes => TypeOK
<1> SUFFICES ASSUME Shapes PROVE TypeOK
  OBVIOUS
<1>1. Len(txs) \in Nat /\ Len(txs) <= MaxTxs /\ MaxTxs \in Nat
  BY ChainTyped DEF Shapes, ChainShape
<1>2. Sequenced \subseteq SeqNos /\ 0 .. ChainHead \subseteq 0 .. MaxTxs
  BY <1>1 DEF Sequenced, SeqNos, ChainHead
<1>3. feedChan \in Seq(SeqNos) /\ taken \in Seq(SeqNos)
  <2>1. feedChan \in Seq(Sequenced) /\ taken \in Seq(Sequenced)
    BY DEF Shapes, FeedShape, EngineShape
  <2> QED  BY <1>2, <2>1
<1>4. mem \in [Pools -> Seq([tx : 0 .. MaxTxs, amount : Nat])]
  <2> DEFINE Old == [tx : 0 .. ChainHead, amount : Nat]
             New == [tx : 0 .. MaxTxs, amount : Nat]
  <2>1. Old \subseteq New
    BY <1>2
  <2>2. mem \in [Pools -> Seq(Old)]
    BY DEF Shapes, PoolShape
  <2> HIDE DEF Old, New
  <2>3. \A s \in Seq(Old) : s \in Seq(New)
    BY <2>1
  <2>4. mem \in [Pools -> Seq(New)]
    BY <2>2, <2>3
  <2> QED  BY <2>4 DEF New
<1>5. cut \in [Pools -> 0 .. MaxTxs]
  BY <1>2 DEF Shapes, PoolShape
<1> QED
  BY <1>1, <1>2, <1>3, <1>4, <1>5
     DEF TypeOK, Shapes, ChainShape, FeedShape, PoolShape, EngineShape

\* What a longer chain leaves of the shapes.
LEMMA ShapesGrow ==
    ASSUME Shapes, ChainShape', ChainHead <= ChainHead',
           UNCHANGED <<feedVars, poolVars, engineVars>>
    PROVE  Shapes'
<1>1. ChainHead \in Nat /\ ChainHead' \in Nat
  BY DEF Shapes, ChainShape, ChainHead
<1>2. Sequenced \subseteq Sequenced' /\ 0 .. ChainHead \subseteq 0 .. ChainHead'
  BY <1>1 DEF Sequenced
<1>3. FeedShape'
  <2>1. \A s \in Seq(Sequenced) : s \in Seq(Sequenced')
    BY <1>2
  <2> QED  BY <1>2, <2>1 DEF Shapes, FeedShape, feedVars
<1>4. PoolShape'
  <2> DEFINE Old == [tx : 0 .. ChainHead, amount : Nat]
             New == [tx : 0 .. ChainHead', amount : Nat]
  <2>1. Old \subseteq New
    BY <1>2
  <2>2. mem \in [Pools -> Seq(Old)]
    BY DEF Shapes, PoolShape
  <2>3. mem \in [Pools -> Seq(New)]
    <3> HIDE DEF Old, New
    <3>1. \A s \in Seq(Old) : s \in Seq(New)
      BY <2>1
    <3> QED  BY <2>2, <3>1
  <2>4. cut \in [Pools -> 0 .. ChainHead']
    BY <1>2 DEF Shapes, PoolShape
  <2>5. \A call \in DOMAIN reading : reading[call] \in 0 .. ChainHead'
    BY <1>2 DEF Shapes, PoolShape
  <2> QED  BY <2>3, <2>4, <2>5 DEF Shapes, PoolShape, poolVars
<1>5. EngineShape'
  <2>1. \A s \in Seq(Sequenced) : s \in Seq(Sequenced')
    BY <1>2
  <2> QED  BY <1>2, <2>1 DEF Shapes, EngineShape, engineVars
<1> QED  BY <1>3, <1>4, <1>5 DEF Shapes

\* The shapes of parts a step leaves alone.
LEMMA ShapeFrames ==
    ASSUME Shapes, UNCHANGED txs
    PROVE  /\ ChainHead \in Nat /\ ChainHead' = ChainHead /\ Sequenced' = Sequenced
           /\ ChainShape'
           /\ UNCHANGED feedVars => FeedShape'
           /\ UNCHANGED poolVars => PoolShape'
           /\ UNCHANGED engineVars => EngineShape'
<1>1. ChainHead \in Nat /\ ChainHead' = ChainHead /\ Sequenced' = Sequenced
  BY DEF Shapes, ChainShape, ChainHead, Sequenced
<1>2. ChainShape'
  BY DEF Shapes, ChainShape
<1>3. UNCHANGED feedVars => FeedShape'
  BY <1>1 DEF Shapes, FeedShape, feedVars
<1>4. UNCHANGED poolVars => PoolShape'
  BY <1>1 DEF Shapes, PoolShape, poolVars
<1>5. UNCHANGED engineVars => EngineShape'
  BY <1>1 DEF Shapes, EngineShape, engineVars, EngineSignals
<1> QED  BY <1>1, <1>2, <1>3, <1>4, <1>5

LEMMA SequenceKeepsShapes ==
    ASSUME Shapes, SequenceTx, UNCHANGED <<feedVars, poolVars, engineVars>>
    PROVE  Shapes'
<1>1. PICK t \in TxShapes : txs' = Append(txs, t)
  BY DEF SequenceTx
<1>2. txs' \in Seq(TxShapes) /\ Len(txs') = Len(txs) + 1 /\ Len(txs) \in Nat
  BY <1>1 DEF Shapes, ChainShape
<1>3. Len(txs) < MaxTxs /\ MaxTxs \in Nat
  BY ChainTyped DEF SequenceTx, ChainHead
<1>4. ChainShape' /\ ChainHead <= ChainHead'
  BY <1>2, <1>3 DEF ChainShape, ChainHead
<1> QED  BY <1>4, ShapesGrow

\* What the listener does: connections, and the messages they give.
LEMMA FeedKeepsShapes ==
    ASSUME Shapes, FeedNext, UNCHANGED <<txs, poolVars, engineVars>>
    PROVE  Shapes'
<1>1. /\ ChainHead \in Nat /\ ChainHead' = ChainHead /\ Sequenced' = Sequenced
      /\ ChainShape' /\ PoolShape' /\ EngineShape'
  BY ShapeFrames
<1>2. /\ connected \in BOOLEAN /\ fed \in 0 .. ChainHead
      /\ feedChan \in Seq(Sequenced) /\ Len(feedChan) <= FeedCap
      /\ rxOpen \in BOOLEAN
      /\ lost \subseteq Sequenced /\ repeated \subseteq Sequenced
  BY DEF Shapes, FeedShape
<1>3. CASE Connect
  <2>1. PICK start \in StartPoints :
           /\ fed' = start
           /\ lost' = lost \cup (fed + 1 .. start)
           /\ repeated' = repeated \cup (start + 1 .. fed)
    BY <1>3 DEF Connect
  <2>2. start \in 0 .. ChainHead
    BY <1>1, <1>2 DEF StartPoints
  <2>3. lost' \subseteq Sequenced /\ repeated' \subseteq Sequenced
    BY <1>1, <1>2, <2>1, <2>2 DEF Sequenced
  <2> QED
    BY <1>1, <1>2, <1>3, <2>1, <2>2, <2>3 DEF Connect, Shapes, FeedShape
<1>4. CASE Disconnect
  BY <1>1, <1>2, <1>4 DEF Disconnect, Shapes, FeedShape
<1>5. ASSUME fed < ChainHead
      PROVE  fed + 1 \in 0 .. ChainHead /\ fed + 1 \in Sequenced
  BY <1>1, <1>2, <1>5 DEF Sequenced
<1>6. CASE ProcessMessage
  <2>1. /\ fed < ChainHead /\ fed' = fed + 1
        /\ UNCHANGED <<connected, rxOpen, repeated>>
    BY <1>6 DEF ProcessMessage
  <2>2. \/ Len(feedChan) < FeedCap /\ feedChan' = Append(feedChan, fed + 1) /\ UNCHANGED lost
        \/ lost' = lost \cup {fed + 1} /\ UNCHANGED feedChan
        \/ UNCHANGED <<feedChan, lost>>
    BY <1>6 DEF ProcessMessage, Forward
  <2>3. /\ feedChan' \in Seq(Sequenced) /\ Len(feedChan') <= FeedCap
        /\ lost' \subseteq Sequenced
    BY <1>2, <1>5, <2>1, <2>2, FeedTyped
  <2> QED  BY <1>1, <1>2, <1>5, <2>1, <2>3 DEF Shapes, FeedShape
<1>7. CASE GarbledFrame
  BY <1>1, <1>2, <1>5, <1>7 DEF GarbledFrame, Shapes, FeedShape
<1> QED  BY <1>3, <1>4, <1>6, <1>7 DEF FeedNext

\* A snapshot is what the chain made of the pool, or a torn one.
LEMMA SnapshotIs ==
    ASSUME Shapes, NEW p, Oldest \in 0 .. ChainHead
    PROVE  /\ Snapshot(p) \in {Torn, ChainHist(p, Oldest)}
           /\ Snapshot(p) \in Seq([tx : 0 .. ChainHead, amount : Nat])
<1> DEFINE Entries == [tx : 0 .. ChainHead, amount : Nat]
<1>1. Snapshot(p) \in {Torn, ChainHist(p, Oldest)}
  BY DEF Snapshot
<1>2. ChainHead \in Nat /\ txs \in Seq(TxShapes) /\ Oldest \in Nat /\ Oldest <= ChainHead
  BY DEF Shapes, ChainShape, ChainHead
<1>3. Torn \in Seq(Entries)
  <2>1. [tx |-> 0, amount |-> 0] \in Entries
    BY <1>2
  <2> HIDE DEF Entries
  <2> QED  BY <2>1 DEF Torn
<1>4. Swaps(txs, p, Oldest) \in Seq(Entries)
  <2> DEFINE s == Swaps(txs, p, Oldest)
             E == { SwapOf(txs, p, k) : k \in 1 .. Oldest }
  <2>1. SwapSeq(s, txs, p, Oldest)
    BY <1>2, SwapsAreSwaps
  <2> HIDE DEF s
  <2>2. s \in Seq(E) /\ Len(s) \in Nat
    BY <2>1 DEF SwapSeq
  <2>3. ASSUME NEW i \in 1 .. Len(s) PROVE s[i] \in Entries
    <3>1. PICK k \in 1 .. Oldest : s[i] = SwapOf(txs, p, k)
      BY <2>2, <2>3
    <3>2. p \in DOMAIN txs[s[i].tx].route
      BY <2>1, <2>3 DEF SwapSeq
    <3>3. s[i].tx = k /\ s[i].amount = txs[k].route[p]
      BY <3>1 DEF SwapOf
    <3>4. k \in 1 .. Len(txs) /\ txs[k] \in TxShapes
      BY <1>2, <3>1 DEF ChainHead
    <3>5. txs[k].route[p] \in Nat
      BY <3>2, <3>3, <3>4, ShapesTyped
    <3> QED  BY <1>2, <3>1, <3>4, <3>5 DEF SwapOf, ChainHead
  <2> HIDE DEF E, Entries
  <2>4. s \in [1 .. Len(s) -> Entries]
    BY <2>2, <2>3
  <2>5. s \in Seq(Entries)
    BY <2>2, <2>4, SeqDef
  <2> QED  BY <2>5 DEF s
<1> HIDE DEF Entries
<1>5. Snapshot(p) \in Seq(Entries)
  BY <1>1, <1>3, <1>4 DEF ChainHist
<1> QED  BY <1>1, <1>5 DEF Entries

LEMMA FetchKeepsShapes ==
    ASSUME Shapes, FetchStep
    PROVE  Shapes'
<1>1. /\ ChainHead \in Nat /\ ChainHead' = ChainHead /\ Sequenced' = Sequenced
      /\ ChainShape' /\ FeedShape' /\ EngineShape'
  BY ShapeFrames DEF FetchStep
<1>2. /\ toFetch \in Seq(Pools)
      /\ DOMAIN reading \subseteq {"getReserves", "slot0", "liquidity"}
      /\ \A call \in DOMAIN reading : reading[call] \in 0 .. ChainHead
      /\ maxBlock \in Nat
      /\ fetched \subseteq Pools
      /\ mem \in [Pools -> Seq([tx : 0 .. ChainHead, amount : Nat])]
      /\ cut \in [Pools -> 0 .. ChainHead]
  BY DEF Shapes, PoolShape
<1>3. ASSUME toFetch # <<>> PROVE Head(toFetch) \in Pools /\ Tail(toFetch) \in Seq(Pools)
  BY <1>2, <1>3
<1>4. CASE SkipPool \/ FetchFails
  BY <1>1, <1>2, <1>3, <1>4 DEF SkipPool, FetchFails, NoAnswers, Shapes, PoolShape
<1>5. CASE CallReserves
  <2>1. PICK call \in CallsOf(Head(toFetch)) \ DOMAIN reading :
           reading' = [c \in DOMAIN reading \cup {call} |->
                          IF c = call THEN ChainHead ELSE reading[c]]
    BY <1>5 DEF CallReserves
  <2>2. call \in {"getReserves", "slot0", "liquidity"}
    BY DEF CallsOf
  <2>3. /\ DOMAIN reading' \subseteq {"getReserves", "slot0", "liquidity"}
        /\ \A c \in DOMAIN reading' : reading'[c] \in 0 .. ChainHead
    BY <1>1, <1>2, <2>1, <2>2
  <2>4. UNCHANGED <<toFetch, maxBlock, fetched, mem, cut>>
    BY <1>5 DEF CallReserves
  <2>5. PoolShape'
    BY <1>1, <1>2, <2>3, <2>4 DEF PoolShape
  <2> QED  BY <1>1, <2>5 DEF Shapes
<1>6. CASE StoreReserves
  <2> DEFINE p == Head(toFetch)
  <2>1. /\ p \in Pools /\ Tail(toFetch) \in Seq(Pools)
        /\ CallsOf(p) # {} /\ DOMAIN reading = CallsOf(p)
        /\ mem' = [mem EXCEPT ![p] = Snapshot(p)]
        /\ cut' = [cut EXCEPT ![p] = Oldest]
        /\ fetched' = fetched \cup {p}
        /\ maxBlock' = Later(BlockAt(ChainHead), maxBlock)
        /\ toFetch' = Tail(toFetch)
        /\ reading' = NoAnswers
    BY <1>3, <1>6 DEF StoreReserves
  <2> HIDE DEF p
  <2>2. Oldest \in 0 .. ChainHead
    BY <1>1, <1>2, <2>1, OldestRead
  <2>3. Snapshot(p) \in Seq([tx : 0 .. ChainHead, amount : Nat])
    BY <2>2, SnapshotIs
  <2>4. maxBlock' \in Nat
    BY <1>1, <1>2, <2>1, ChainTyped DEF Later, BlockAt
  <2>5. DOMAIN reading' = {}
    BY <2>1 DEF NoAnswers
  <2>6. mem' \in [Pools -> Seq([tx : 0 .. ChainHead, amount : Nat])]
    BY <1>2, <2>1, <2>3
  <2>7. cut' \in [Pools -> 0 .. ChainHead] /\ fetched' \subseteq Pools
    BY <1>2, <2>1, <2>2
  <2>8. PoolShape'
    BY <1>1, <2>1, <2>4, <2>5, <2>6, <2>7 DEF PoolShape
  <2> QED  BY <1>1, <2>8 DEF Shapes
<1> QED  BY <1>4, <1>5, <1>6 DEF FetchStep, FetchNext

\* approx_amount_in is an amount the transaction carries, or its gas price, or 0.
LEMMA AmountTyped ==
    ASSUME NEW t \in TxShapes
    PROVE  ApproxAmountIn(t) \in Nat
BY ShapesTyped DEF ApproxAmountIn, Action, DecodeSwapAction, Unknown

\* The message the engine is about to take.
LEMMA MessageTyped ==
    ASSUME Shapes, feedChan # <<>>
    PROVE  /\ Head(feedChan) \in Sequenced /\ Tail(feedChan) \in Seq(Sequenced)
           /\ Len(Tail(feedChan)) <= FeedCap
           /\ txs[Head(feedChan)] \in TxShapes
           /\ Len(TokenPath(txs[Head(feedChan)])) \in Nat
<1>1. feedChan \in Seq(Sequenced) /\ Len(feedChan) <= FeedCap /\ FeedCap \in Nat
  BY FeedTyped DEF Shapes, FeedShape
<1>2. /\ Head(feedChan) \in Sequenced /\ Tail(feedChan) \in Seq(Sequenced)
      /\ Len(Tail(feedChan)) <= FeedCap
  BY <1>1
<1>3. txs[Head(feedChan)] \in TxShapes
  BY <1>2 DEF Sequenced, Shapes, ChainShape, ChainHead
<1>4. Len(TokenPath(txs[Head(feedChan)])) \in Nat
  BY <1>3, ShapesTyped DEF TokenPath, Action, DecodeSwapAction, Unknown
<1> QED  BY <1>2, <1>3, <1>4

\* Updating pools with the input of a message leaves well-formed memories.
LEMMA HopsKeepMemory ==
    ASSUME Shapes, feedChan # <<>>, NEW times, \A p \in Pools : times[p] \in Nat,
           ApplyHops(Head(feedChan), times)
    PROVE  mem' \in [Pools -> Seq([tx : 0 .. ChainHead, amount : Nat])]
<1> DEFINE Entries == [tx : 0 .. ChainHead, amount : Nat]
           n == Head(feedChan)
           entry == [tx |-> n, amount |-> ApproxAmountIn(txs[n])]
<1>1. entry \in Entries
  BY MessageTyped, AmountTyped DEF Sequenced
<1>2. mem' = [p \in Pools |-> mem[p] \o [i \in 1 .. times[p] |-> entry]]
  BY DEF ApplyHops
<1>3. mem \in [Pools -> Seq(Entries)]
  BY DEF Shapes, PoolShape
<1> HIDE DEF Entries, entry
<1>4. ASSUME NEW p \in Pools PROVE mem[p] \o [i \in 1 .. times[p] |-> entry] \in Seq(Entries)
  <2>1. [i \in 1 .. times[p] |-> entry] \in Seq(Entries)
    <3>1. [i \in 1 .. times[p] |-> entry] \in [1 .. times[p] -> Entries]
      BY <1>1
    <3> QED  BY <3>1, SeqDef
  <2>2. mem[p] \in Seq(Entries)
    BY <1>3
  <2> HIDE DEF n
  <2> QED  BY <2>1, <2>2, ConcatProperties
<1>5. mem' \in [Pools -> Seq(Entries)]
  BY <1>2, <1>4
<1> QED  BY <1>5 DEF Entries

\* What taking a message leaves.
LEMMA TakeKeepsShapes ==
    ASSUME Shapes, TakeMessage, UNCHANGED <<txs, rxOpen>>
    PROVE  FeedShape' /\ taken' \in Seq(Sequenced) /\ feedChan # <<>>
<1>1. /\ feedChan # <<>> /\ feedChan' = Tail(feedChan)
      /\ taken' = Append(taken, Head(feedChan))
      /\ UNCHANGED <<connected, fed, lost, repeated>>
  BY DEF TakeMessage
<1>2. Sequenced' = Sequenced /\ ChainHead' = ChainHead
  BY ShapeFrames
<1>3. FeedShape'
  BY <1>1, <1>2, MessageTyped DEF Shapes, FeedShape
<1>4. taken' \in Seq(Sequenced)
  BY <1>1, MessageTyped DEF Shapes, EngineShape
<1> QED  BY <1>1, <1>3, <1>4

\* The number of hops a pool is hit by is one.
LEMMA HitsCounted ==
    ASSUME NEW tx, Len(TokenPath(tx)) \in Nat, NEW hit, hit \subseteq DOMAIN Hops(tx)
    PROVE  Cardinality(hit) \in Nat
<1>1. DOMAIN Hops(tx) = 1 .. Len(TokenPath(tx)) - 1
  BY DEF Hops
<1>2. IsFiniteSet(1 .. Len(TokenPath(tx)) - 1)
  BY FS_Interval
<1>3. IsFiniteSet(hit)
  BY <1>1, <1>2, FS_Subset
<1> QED  BY <1>3, FS_CardinalityType

LEMMA DrainKeepsShapes ==
    ASSUME Shapes, DrainDiscard \/ DrainReplay
    PROVE  Shapes'
<1>1. TakeMessage /\ UNCHANGED <<txs, rxOpen, phase, checkpoint, count, execChan>>
  BY DEF DrainDiscard, DrainReplay
<1>2. FeedShape' /\ taken' \in Seq(Sequenced) /\ feedChan # <<>>
  BY <1>1, TakeKeepsShapes
<1>3. /\ ChainHead' = ChainHead /\ Sequenced' = Sequenced /\ ChainShape'
      /\ UNCHANGED poolVars => PoolShape'
  BY <1>1, ShapeFrames
<1>4. Head(feedChan) \in Sequenced /\ Len(TokenPath(txs[Head(feedChan)])) \in Nat
  BY <1>2, MessageTyped
<1>5. PoolShape' /\ discarded' \subseteq Sequenced
  <2>1. CASE DrainDiscard
    BY <1>3, <1>4, <2>1 DEF DrainDiscard, Shapes, EngineShape
  <2>2. CASE DrainReplay
    <3> DEFINE n      == Head(feedChan)
               hops   == Hops(txs[n])
               hit(p) == { i \in DOMAIN hops : ReplayPool(hops[i], txs[n], fetched) = p }
               times  == [p \in Pools |-> Cardinality(hit(p))]
    <3>1. ApplyHops(n, times) /\ UNCHANGED <<toFetch, reading, maxBlock, fetched, cut, discarded>>
      BY <2>2 DEF DrainReplay
    <3>2. \A p \in Pools : times[p] \in Nat
      BY <1>4, HitsCounted
    <3> HIDE DEF times
    <3>3. mem' \in [Pools -> Seq([tx : 0 .. ChainHead, amount : Nat])]
      BY <1>2, <3>1, <3>2, HopsKeepMemory
    <3> QED  BY <1>3, <3>1, <3>3 DEF Shapes, PoolShape, EngineShape
  <2> QED  BY <2>1, <2>2
<1> QED
  BY <1>1, <1>2, <1>3, <1>5 DEF Shapes, EngineShape, EngineSignals

\* A message of the live loop, whatever evaluate makes of the pools and sends.
LEMMA LiveKeepsShapes ==
    ASSUME Shapes, LiveMessage,
           UNCHANGED poolVars \/ \E a : UpdatePoolA(Head(feedChan), a),
           execChan' \in Seq(EngineSignals), Len(execChan') <= ExecCap
    PROVE  Shapes'
<1>1. TakeMessage /\ count' = count + 1 /\ UNCHANGED <<txs, rxOpen, phase, checkpoint, discarded>>
  BY DEF LiveMessage
<1>2. FeedShape' /\ taken' \in Seq(Sequenced) /\ feedChan # <<>>
  BY <1>1, TakeKeepsShapes
<1>3. /\ ChainHead' = ChainHead /\ Sequenced' = Sequenced /\ ChainShape'
      /\ UNCHANGED poolVars => PoolShape'
  BY <1>1, ShapeFrames
<1>4. ASSUME NEW a, UpdatePoolA(Head(feedChan), a) PROVE PoolShape'
  <2> DEFINE times == [p \in Pools |-> IF p = a THEN 1 ELSE 0]
  <2>1. ApplyHops(Head(feedChan), times) /\ UNCHANGED <<toFetch, reading, maxBlock, fetched, cut>>
    BY <1>4 DEF UpdatePoolA
  <2>2. \A p \in Pools : times[p] \in Nat
    OBVIOUS
  <2> HIDE DEF times
  <2>3. mem' \in [Pools -> Seq([tx : 0 .. ChainHead, amount : Nat])]
    BY <1>2, <2>1, <2>2, HopsKeepMemory
  <2> QED  BY <1>3, <2>1, <2>3 DEF Shapes, PoolShape
<1>5. PoolShape'
  BY <1>3, <1>4
<1>6. EngineShape'
  BY <1>1, <1>2, <1>3 DEF Shapes, EngineShape, EngineSignals
<1> QED  BY <1>2, <1>3, <1>5, <1>6 DEF Shapes

LEMMA EngineKeepsShapes ==
    ASSUME Shapes, EngineStep \/ TakeSignal
    PROVE  Shapes'
<1>1. execChan \in Seq(EngineSignals) /\ Len(execChan) <= ExecCap /\ ExecCap \in Nat
  BY EngineTyped DEF Shapes, EngineShape
<1>2. ASSUME UNCHANGED txs
      PROVE  /\ ChainHead' = ChainHead /\ Sequenced' = Sequenced /\ ChainShape'
             /\ UNCHANGED feedVars => FeedShape'
             /\ UNCHANGED poolVars => PoolShape'
  BY <1>2, ShapeFrames
<1>3. CASE FetchDone
  BY <1>2, <1>3 DEF FetchDone, Shapes, EngineShape, PoolShape, Phases, EngineSignals
<1>4. CASE DrainDiscard \/ DrainReplay
  BY <1>4, DrainKeepsShapes
<1>5. CASE DrainDone
  BY <1>2, <1>5 DEF DrainDone, Shapes, EngineShape, Phases, EngineSignals
<1>6. CASE EvaluateSkips \/ EvaluateFails
  BY <1>1, <1>6, LiveKeepsShapes DEF EvaluateSkips, EvaluateFails
<1>7. CASE EvaluateQuietly
  BY <1>1, <1>7, LiveKeepsShapes DEF EvaluateQuietly
<1>8. CASE \E signal \in EngineSignals : EvaluateSignals(signal)
  <2>1. PICK signal \in EngineSignals : EvaluateSignals(signal)
    BY <1>8
  <2>2. /\ LiveMessage /\ UpdatePoolA(Head(feedChan), signal.poolA)
        /\ SendSignal(signal)
    BY <2>1 DEF EvaluateSignals
  <2>3. execChan' \in Seq(EngineSignals) /\ Len(execChan') <= ExecCap
    <3>1. CASE Len(execChan) < ExecCap
      <4>1. execChan' = Append(execChan, signal)
        BY <2>2, <3>1 DEF SendSignal
      <4>2. execChan' \in Seq(EngineSignals)
        BY <1>1, <4>1
      <4>3. Len(execChan') = Len(execChan) + 1
        BY <1>1, <4>1
      <4> QED  BY <1>1, <3>1, <4>2, <4>3
    <3>2. CASE ~ (Len(execChan) < ExecCap)
      BY <1>1, <2>2, <3>2 DEF SendSignal
    <3> QED  BY <3>1, <3>2
  <2> QED  BY <2>2, <2>3, LiveKeepsShapes
<1>9. CASE LeaveLoop
  <2>1. FeedShape'
    BY <1>2, <1>9 DEF LeaveLoop, Shapes, FeedShape
  <2>2. EngineShape'
    BY <1>2, <1>9 DEF LeaveLoop, Shapes, EngineShape, Phases, EngineSignals
  <2> QED  BY <1>2, <1>9, <2>1, <2>2 DEF LeaveLoop, Shapes
<1>10. CASE TakeSignal
  <2>1. execChan' \in Seq(EngineSignals) /\ Len(execChan') <= ExecCap
    BY <1>1, <1>10 DEF TakeSignal
  <2> QED  BY <1>2, <1>10, <2>1 DEF TakeSignal, Shapes, EngineShape, EngineSignals
<1> QED
  BY <1>3, <1>4, <1>5, <1>6, <1>7, <1>8, <1>9, <1>10 DEF EngineStep, EngineAlone

LEMMA InitShapes == Init => Shapes
<1> SUFFICES ASSUME Init PROVE Shapes
  OBVIOUS
<1>1. txs = <<>> /\ Len(txs) = 0
  BY DEF Init
<1>2. ChainShape
  BY <1>1, ChainTyped DEF ChainShape
<1>3. FeedShape
  <2>1. connected \in BOOLEAN /\ rxOpen \in BOOLEAN
    BY DEF Init, InitFeed
  <2>2. fed \in 0 .. ChainHead
    BY <1>1 DEF Init, InitFeed, ChainHead
  <2>3. feedChan \in Seq(Sequenced) /\ Len(feedChan) <= FeedCap
    BY FeedTyped DEF Init, InitFeed
  <2> QED  BY <2>1, <2>2, <2>3 DEF Init, InitFeed, FeedShape
<1>4. PoolShape
  <2>1. mem \in [Pools -> Seq([tx : 0 .. ChainHead, amount : Nat])]
    <3> DEFINE Entries == [tx : 0 .. ChainHead, amount : Nat]
    <3> HIDE DEF Entries
    <3>1. <<>> \in Seq(Entries)
      OBVIOUS
    <3>2. mem \in [Pools -> Seq(Entries)]
      BY <3>1 DEF Init, InitPools
    <3> QED  BY <3>2 DEF Entries
  <2>2. DOMAIN reading = {}
    BY DEF Init, InitPools, NoAnswers
  <2> QED
    BY <1>1, <2>1, <2>2, RegistryOrdered DEF Init, InitPools, PoolShape, ChainHead
<1>5. EngineShape
  BY <1>1, EngineTyped DEF Init, EngineShape, Phases, Sequenced
<1> QED  BY <1>2, <1>3, <1>4, <1>5 DEF Shapes

LEMMA NextShapes == Shapes /\ [Next]_vars => Shapes'
<1> SUFFICES ASSUME Shapes, [Next]_vars PROVE Shapes'
  OBVIOUS
<1>1. CASE SequenceTx /\ UNCHANGED <<feedVars, poolVars, engineVars>>
  BY <1>1, SequenceKeepsShapes
<1>2. CASE FeedNext /\ UNCHANGED <<txs, poolVars, engineVars>>
  BY <1>2, FeedKeepsShapes
<1>3. CASE FetchStep
  BY <1>3, FetchKeepsShapes
<1>4. CASE EngineStep \/ TakeSignal
  BY <1>4, EngineKeepsShapes
<1>5. CASE UNCHANGED vars
  BY <1>5, ShapeFrames DEF vars, Shapes
<1> QED  BY <1>1, <1>2, <1>3, <1>4, <1>5 DEF Next

\* Types of the whole bootstrap and live loop, for any registry, transactions
\* and faults: every remembered sequence number is of a sequenced transaction,
\* every reserve reflects natural amounts of such transactions, and neither
\* channel is ever over its capacity.
THEOREM EngineTypeCorrect == Spec => []TypeOK
<1> QED  BY InitShapes, NextShapes, ShapesAreTypes, PTL DEF Spec

-----------------------------------------------------------------------------
(* The order of the feed.                                                  *)
(*                                                                         *)
(* StreamInOrder speaks of what was given; why the next message fits in is *)
(* a matter of where the connection stands: everything up to fed was given *)
(* or has a reason not to have been, and what was given past fed is being  *)
(* given again.                                                            *)

Missed(n) == n \in lost \cup repeated \/ \E j \in 1 .. Len(Given) : Given[j] = n

StreamInv ==
    /\ StreamInOrder
    /\ \A n \in 1 .. fed : Parsed(txs[n]) => Missed(n)
    /\ \A i \in 1 .. Len(Given) : \A n \in fed + 1 .. Given[i] : n \in repeated

LEMMA GivenTyped ==
    ASSUME Shapes
    PROVE  /\ Given \in Seq(Sequenced)
           /\ Len(Given) = Len(taken) + Len(feedChan)
           /\ \A i \in 1 .. Len(taken) : Given[i] = taken[i]
           /\ feedChan # <<>> => Given[Len(taken) + 1] = Head(feedChan)
<1>1. taken \in Seq(Sequenced) /\ feedChan \in Seq(Sequenced)
  BY DEF Shapes, FeedShape, EngineShape
<1>2. /\ Given \in Seq(Sequenced)
      /\ Len(Given) = Len(taken) + Len(feedChan)
      /\ \A i \in 1 .. Len(taken) + Len(feedChan) :
            Given[i] = IF i <= Len(taken) THEN taken[i] ELSE feedChan[i - Len(taken)]
  BY <1>1, ConcatProperties DEF Given
<1>3. Len(taken) \in Nat /\ Len(feedChan) \in Nat
  BY <1>1
<1>4. \A i \in 1 .. Len(taken) : Given[i] = taken[i]
  BY <1>2, <1>3
<1>5. ASSUME feedChan # <<>> PROVE Given[Len(taken) + 1] = Head(feedChan)
  <2>1. Len(feedChan) >= 1 /\ Head(feedChan) = feedChan[1]
    BY <1>1, <1>5
  <2> QED  BY <1>2, <1>3, <2>1
<1> QED  BY <1>2, <1>4, <1>5

\* The first element of b may as well be the last one before it.
LEMMA HeadMoves ==
    ASSUME NEW S, NEW a \in Seq(S), NEW b \in Seq(S), b # <<>>
    PROVE  Append(a, Head(b)) \o Tail(b) = a \o b
<1> DEFINE h == Head(b)
           d == Tail(b)
<1>1. h \in S /\ d \in Seq(S) /\ <<h>> \in Seq(S)
  OBVIOUS
<1>2. <<h>> \o d = b
  <2>1. /\ Len(<<h>>) = 1 /\ <<h>>[1] = h /\ Len(b) \in Nat /\ Len(b) >= 1
        /\ Len(d) = Len(b) - 1 /\ b[1] = h
        /\ \A i \in 1 .. Len(d) : d[i] = b[i + 1]
    OBVIOUS
  <2> DEFINE c == <<h>> \o d
  <2> HIDE DEF h, d
  <2>2. /\ c \in Seq(S) /\ Len(c) = 1 + Len(d)
        /\ \A i \in 1 .. 1 + Len(d) : c[i] = IF i <= 1 THEN <<h>>[1] ELSE d[i - 1]
    <3>1. /\ c \in Seq(S) /\ Len(c) = Len(<<h>>) + Len(d)
          /\ \A i \in 1 .. Len(<<h>>) + Len(d) :
                c[i] = IF i <= Len(<<h>>) THEN <<h>>[i] ELSE d[i - Len(<<h>>)]
      BY <1>1, ConcatProperties
    <3> HIDE DEF c
    <3>2. Len(d) \in Nat
      BY <2>1
    <3> QED  BY <2>1, <3>1, <3>2
  <2> HIDE DEF c
  <2>3. ASSUME NEW i \in 1 .. Len(c) PROVE c[i] = b[i]
    <3>1. CASE i = 1
      BY <2>1, <2>2, <3>1
    <3>2. CASE i # 1
      <4>1. i - 1 \in 1 .. Len(d) /\ (i - 1) + 1 = i
        BY <2>1, <2>2, <3>2
      <4>2. c[i] = d[i - 1]
        BY <2>1, <2>2, <3>2
      <4> QED  BY <2>1, <4>1, <4>2
    <3> QED  BY <3>1, <3>2
  <2>4. Len(c) = Len(b)
    BY <2>1, <2>2
  <2>5. c = b
    BY <2>2, <2>3, <2>4, SeqEqual
  <2> QED  BY <2>5 DEF c
<1> HIDE DEF h, d
<1>3. Append(a, h) = a \o <<h>>
  BY <1>1, AppendIsConcat
<1>4. (a \o <<h>>) \o d = a \o (<<h>> \o d)
  BY <1>1, ConcatAssociative
<1>5. Append(a, h) \o d = a \o b
  BY <1>2, <1>3, <1>4
<1> QED  BY <1>5 DEF h, d

LEMMA AppendMoves ==
    ASSUME NEW S, NEW a \in Seq(S), NEW b \in Seq(S), NEW e \in S
    PROVE  a \o Append(b, e) = Append(a \o b, e)
<1>1. Append(b, e) = b \o <<e>>
  BY AppendIsConcat
<1>2. a \o b \in Seq(S) /\ <<e>> \in Seq(S)
  BY ConcatProperties
<1>3. Append(a \o b, e) = (a \o b) \o <<e>>
  BY <1>2, AppendIsConcat
<1>4. (a \o b) \o <<e>> = a \o (b \o <<e>>)
  BY <1>2, ConcatAssociative
<1> QED  BY <1>1, <1>3, <1>4

\* Taking a message moves it from one part of Given to the other.
LEMMA TakingKeepsGiven ==
    ASSUME Shapes, TakeMessage
    PROVE  Given' = Given
<1>1. taken \in Seq(Sequenced) /\ feedChan \in Seq(Sequenced)
  BY DEF Shapes, FeedShape, EngineShape
<1>2. /\ feedChan # <<>> /\ feedChan' = Tail(feedChan)
      /\ taken' = Append(taken, Head(feedChan))
  BY DEF TakeMessage
<1>3. Append(taken, Head(feedChan)) \o Tail(feedChan) = taken \o feedChan
  BY <1>1, <1>2, HeadMoves
<1> QED  BY <1>2, <1>3 DEF Given

\* What the listener forwards comes last.
LEMMA ForwardingExtendsGiven ==
    ASSUME Shapes, NEW n \in Sequenced, UNCHANGED taken,
           feedChan' = Append(feedChan, n)
    PROVE  Given' = Append(Given, n)
<1>1. taken \in Seq(Sequenced) /\ feedChan \in Seq(Sequenced)
  BY DEF Shapes, FeedShape, EngineShape
<1>2. taken \o Append(feedChan, n) = Append(taken \o feedChan, n)
  BY <1>1, AppendMoves
<1> QED  BY <1>2 DEF Given

\* A step that gives nothing, where the connection stands or a later one starts.
LEMMA StreamFrame ==
    ASSUME Shapes, StreamInv, Given' = Given,
           \A n \in Sequenced : txs'[n] = txs[n],
           lost \subseteq lost', repeated \subseteq repeated',
           NEW next \in Nat, fed' = next,
           \A n \in fed + 1 .. next : n \in lost' \/ ~ Parsed(txs'[n]),
           \A n \in next + 1 .. fed : n \in repeated'
    PROVE  StreamInv'
<1>1. /\ fed \in 0 .. ChainHead /\ ChainHead \in Nat
      /\ Given \in Seq(Sequenced) /\ Len(Given) \in Nat
  BY GivenTyped DEF Shapes, FeedShape, ChainShape, ChainHead
<1>2. ASSUME NEW i \in 1 .. Len(Given) PROVE Given[i] \in 1 .. ChainHead
  BY <1>1, <1>2 DEF Sequenced
<1>4. ASSUME NEW n \in 1 .. ChainHead PROVE Parsed(txs'[n]) <=> Parsed(txs[n])
  BY <1>4 DEF Sequenced
<1>5. StreamInOrder'
  <2>1. ASSUME NEW i \in 1 .. Len(Given)
        PROVE  \A j \in 1 .. i - 1 : Given[j] < Given[i] \/ Given[i] \in repeated'
    BY <2>1 DEF StreamInv, StreamInOrder
  <2>2. ASSUME NEW i \in 1 .. Len(Given), NEW n \in 1 .. Given[i] - 1, Parsed(txs'[n])
        PROVE  n \in lost' \cup repeated' \/ \E j \in 1 .. i - 1 : Given[j] = n
    <3>1. n \in 1 .. ChainHead
      BY <1>1, <1>2, <2>2
    <3>2. Parsed(txs[n])
      BY <1>4, <2>2, <3>1
    <3> QED  BY <2>2, <3>2 DEF StreamInv, StreamInOrder
  <2> QED  BY <2>1, <2>2 DEF StreamInOrder
<1>6. ASSUME NEW n \in 1 .. next, Parsed(txs'[n])
      PROVE  n \in lost' \cup repeated' \/ \E j \in 1 .. Len(Given) : Given[j] = n
  <2>1. CASE n <= fed
    <3>1. n \in 1 .. fed /\ n \in 1 .. ChainHead
      BY <1>1, <2>1
    <3>2. Parsed(txs[n])
      BY <1>4, <1>6, <3>1
    <3> QED  BY <3>1, <3>2 DEF StreamInv, Missed
  <2>2. CASE n > fed
    <3>1. n \in fed + 1 .. next
      BY <1>1, <2>2
    <3> QED  BY <1>6, <3>1
  <2> QED  BY <1>1, <2>1, <2>2
<1>7. ASSUME NEW i \in 1 .. Len(Given), NEW n, n \in next + 1 .. Given[i]
      PROVE  n \in repeated'
  <2>1. CASE n <= fed
    <3>1. Given[i] \in Nat /\ next \in Nat /\ fed \in Nat
      BY <1>1, <1>2
    <3>2. n \in next + 1 .. fed
      BY <1>7, <2>1, <3>1
    <3> QED  BY <3>2
  <2>2. CASE n > fed
    <3>1. n \in fed + 1 .. Given[i]
      BY <1>1, <1>2, <1>7, <2>2
    <3> QED  BY <3>1 DEF StreamInv
  <2> QED  BY <1>1, <1>2, <1>7, <2>1, <2>2
<1> QED  BY <1>5, <1>6, <1>7 DEF StreamInv, Missed

\* The next message, forwarded.
LEMMA ForwardKeepsStream ==
    ASSUME Shapes, StreamInv, UNCHANGED <<txs, taken, lost, repeated>>,
           fed < ChainHead, fed' = fed + 1,
           feedChan' = Append(feedChan, fed + 1)
    PROVE  StreamInv'
<1>1. /\ fed \in Nat /\ ChainHead \in Nat /\ fed + 1 \in Sequenced
      /\ Given \in Seq(Sequenced) /\ Len(Given) \in Nat
  BY GivenTyped DEF Shapes, FeedShape, ChainShape, ChainHead, Sequenced
<1>2. Given' = Append(Given, fed + 1)
  BY <1>1, ForwardingExtendsGiven
<1> DEFINE g == Given
           h == Given'
<1>3. /\ Len(h) = Len(g) + 1
      /\ \A i \in 1 .. Len(g) : h[i] = g[i] /\ g[i] \in Nat
      /\ h[Len(g) + 1] = fed + 1
  BY <1>1, <1>2 DEF Sequenced
<1>4. /\ \A i \in 1 .. Len(g) : \A j \in 1 .. i - 1 : g[j] < g[i] \/ g[i] \in repeated
      /\ \A i \in 1 .. Len(g) : \A n \in 1 .. g[i] - 1 :
            Parsed(txs[n]) => n \in lost \cup repeated \/ \E j \in 1 .. i - 1 : g[j] = n
      /\ \A n \in 1 .. fed :
            Parsed(txs[n]) => n \in lost \cup repeated \/ \E j \in 1 .. Len(g) : g[j] = n
      /\ \A i \in 1 .. Len(g) : \A n \in fed + 1 .. g[i] : n \in repeated
  BY DEF StreamInv, StreamInOrder, Missed
<1>5. /\ Len(g) \in Nat
      /\ \A i \in 1 .. Len(h) : i \in 1 .. Len(g) \/ i = Len(g) + 1
  <2>1. Len(g) \in Nat /\ Len(h) = Len(g) + 1
    BY <1>1, <1>3
  <2> HIDE DEF g, h
  <2> QED  BY <2>1
<1> HIDE DEF g, h
<1>6. ASSUME NEW i \in 1 .. Len(h), NEW j \in 1 .. i - 1
      PROVE  h[j] < h[i] \/ h[i] \in repeated
  <2>1. CASE i \in 1 .. Len(g)
    <3>1. i \in 1 .. Len(g) /\ j \in 1 .. Len(g)
      BY <1>5, <2>1
    <3> QED  BY <1>3, <1>4, <3>1
  <2>2. CASE i = Len(g) + 1
    <3>1. j \in 1 .. Len(g) /\ h[i] = fed + 1 /\ h[j] = g[j] /\ g[j] \in Nat
      BY <1>3, <1>5, <2>2
    <3>2. g[j] >= fed + 1 => fed + 1 \in fed + 1 .. g[j]
      BY <1>1, <3>1
    <3>3. g[j] >= fed + 1 => fed + 1 \in repeated
      BY <1>4, <3>1, <3>2
    <3> QED  BY <1>1, <3>1, <3>3
  <2> QED  BY <1>5, <2>1, <2>2
<1>7. ASSUME NEW i \in 1 .. Len(h), NEW n \in 1 .. h[i] - 1, Parsed(txs[n])
      PROVE  n \in lost \cup repeated \/ \E j \in 1 .. i - 1 : h[j] = n
  <2>1. CASE i \in 1 .. Len(g)
    <3>1. i \in 1 .. Len(g) /\ n \in 1 .. g[i] - 1
      BY <1>3, <1>5, <2>1
    <3>2. n \in lost \cup repeated \/ \E j \in 1 .. i - 1 : g[j] = n
      BY <1>4, <1>7, <3>1
    <3>3. \A j \in 1 .. i - 1 : j \in 1 .. Len(g)
      BY <1>5, <2>1
    <3>4. \A j \in 1 .. i - 1 : h[j] = g[j]
      BY <1>3, <3>3
    <3> QED  BY <3>2, <3>4
  <2>2. CASE i = Len(g) + 1
    <3>1. n \in 1 .. fed
      BY <1>1, <1>3, <2>2
    <3>2. n \in lost \cup repeated \/ \E j \in 1 .. Len(g) : g[j] = n
      BY <1>4, <1>7, <3>1
    <3> QED  BY <1>3, <1>5, <2>2, <3>2
  <2> QED  BY <1>5, <2>1, <2>2
<1>8. ASSUME NEW n \in 1 .. fed + 1, Parsed(txs[n])
      PROVE  n \in lost \cup repeated \/ \E j \in 1 .. Len(h) : h[j] = n
  <2>1. CASE n = fed + 1
    BY <1>3, <1>5, <2>1
  <2>2. CASE n # fed + 1
    <3>1. n \in 1 .. fed
      BY <1>1, <2>2
    <3>2. n \in lost \cup repeated \/ \E j \in 1 .. Len(g) : g[j] = n
      BY <1>4, <1>8, <3>1
    <3> QED  BY <1>3, <1>5, <3>2
  <2> QED  BY <2>1, <2>2
<1>9. ASSUME NEW i \in 1 .. Len(h), NEW n \in (fed + 1) + 1 .. h[i]
      PROVE  n \in repeated
  <2>1. CASE i \in 1 .. Len(g)
    <3>1. i \in 1 .. Len(g) /\ n \in fed + 1 .. g[i]
      BY <1>1, <1>3, <1>5, <2>1
    <3> QED  BY <1>4, <3>1
  <2>2. CASE i = Len(g) + 1
    BY <1>1, <1>3, <2>2
  <2> QED  BY <1>5, <2>1, <2>2
<1> QED
  BY <1>6, <1>7, <1>8, <1>9 DEF StreamInv, StreamInOrder, Missed, h

LEMMA FeedKeepsStream ==
    ASSUME Shapes, StreamInv, FeedNext, UNCHANGED <<txs, poolVars, engineVars>>
    PROVE  StreamInv'
<1>1. /\ fed \in Nat /\ fed <= ChainHead /\ ChainHead \in Nat
      /\ UNCHANGED txs /\ UNCHANGED taken
  BY DEF Shapes, FeedShape, ChainShape, ChainHead, engineVars
<1>2. ASSUME UNCHANGED feedChan PROVE Given' = Given
  BY <1>1, <1>2 DEF Given
<1>3. CASE Connect
  <2>1. PICK start \in StartPoints :
           /\ fed' = start
           /\ lost' = lost \cup (fed + 1 .. start)
           /\ repeated' = repeated \cup (start + 1 .. fed)
    BY <1>3 DEF Connect
  <2>2. start \in Nat /\ UNCHANGED feedChan
    BY <1>1, <1>3 DEF StartPoints, Connect
  <2> QED  BY <1>1, <1>2, <2>1, <2>2, StreamFrame
<1>4. CASE Disconnect
  BY <1>1, <1>2, <1>4, StreamFrame DEF Disconnect
<1>5. CASE GarbledFrame
  <2>1. /\ fed + 1 \in Nat /\ fed' = fed + 1 /\ UNCHANGED <<feedChan, repeated>>
        /\ lost' = lost \cup {fed + 1}
    BY <1>1, <1>5 DEF GarbledFrame
  <2>2. /\ \A n \in fed + 1 .. fed + 1 : n \in lost'
        /\ \A n \in (fed + 1) + 1 .. fed : n \in repeated'
    BY <1>1, <2>1
  <2> QED  BY <1>1, <1>2, <2>1, <2>2, StreamFrame
<1>6. CASE ProcessMessage
  <2>1. /\ fed + 1 \in Nat /\ fed < ChainHead /\ fed' = fed + 1 /\ UNCHANGED repeated
        /\ \/ feedChan' = Append(feedChan, fed + 1) /\ UNCHANGED lost
           \/ lost' = lost \cup {fed + 1} /\ UNCHANGED feedChan
           \/ ~ Parsed(txs[fed + 1]) /\ UNCHANGED <<feedChan, lost>>
    BY <1>1, <1>6 DEF ProcessMessage, Forward
  <2>2. CASE feedChan' = Append(feedChan, fed + 1) /\ UNCHANGED lost
    BY <1>1, <2>1, <2>2, ForwardKeepsStream
  <2>3. CASE ~ (feedChan' = Append(feedChan, fed + 1) /\ UNCHANGED lost)
    <3>1. /\ UNCHANGED feedChan /\ lost \subseteq lost'
          /\ fed + 1 \in lost' \/ ~ Parsed(txs'[fed + 1])
      BY <1>1, <2>1, <2>3
    <3>2. \A n \in fed + 1 .. fed + 1 : n \in lost' \/ ~ Parsed(txs'[n])
      BY <1>1, <3>1
    <3>3. \A n \in (fed + 1) + 1 .. fed : n \in repeated'
      BY <1>1
    <3> QED  BY <1>1, <1>2, <2>1, <3>1, <3>2, <3>3, StreamFrame
  <2> QED  BY <2>2, <2>3
<1> QED  BY <1>3, <1>4, <1>5, <1>6 DEF FeedNext

LEMMA InitStream == Init => StreamInv
<1> SUFFICES ASSUME Init PROVE StreamInv
  OBVIOUS
<1>1. Given = <<>> /\ Len(Given) = 0
  BY DEF Init, InitFeed, Given
<1>2. fed = 0
  BY DEF Init, InitFeed
<1> QED  BY <1>1, <1>2 DEF StreamInv, StreamInOrder

LEMMA NextStream == Shapes /\ StreamInv /\ [Next]_vars => StreamInv'
<1> SUFFICES ASSUME Shapes, StreamInv, [Next]_vars PROVE StreamInv'
  OBVIOUS
<1>1. fed \in Nat
  BY DEF Shapes, FeedShape, ChainShape, ChainHead
<1>2. ASSUME Given' = Given, \A n \in Sequenced : txs'[n] = txs[n],
             UNCHANGED <<fed, lost, repeated>>
      PROVE  StreamInv'
  <2>1. /\ \A n \in fed + 1 .. fed : n \in lost' \/ ~ Parsed(txs'[n])
        /\ \A n \in fed + 1 .. fed : n \in repeated'
    BY <1>1
  <2> QED  BY <1>1, <1>2, <2>1, StreamFrame
<1>3. ASSUME UNCHANGED <<txs, taken, feedVars>> PROVE StreamInv'
  BY <1>2, <1>3 DEF Given, feedVars
<1>4. ASSUME TakeMessage, UNCHANGED txs PROVE StreamInv'
  <2>1. Given' = Given
    BY <1>4, TakingKeepsGiven
  <2> QED  BY <1>2, <1>4, <2>1 DEF TakeMessage
<1>5. CASE SequenceTx /\ UNCHANGED <<feedVars, poolVars, engineVars>>
  <2>1. PICK t \in TxShapes : txs' = Append(txs, t)
    BY <1>5 DEF SequenceTx
  <2>2. \A n \in Sequenced : txs'[n] = txs[n]
    BY <2>1 DEF Sequenced, ChainHead, Shapes, ChainShape
  <2>3. Given' = Given /\ UNCHANGED <<fed, lost, repeated>>
    BY <1>5 DEF Given, feedVars, engineVars
  <2> QED  BY <1>2, <2>2, <2>3
<1>6. CASE FeedNext /\ UNCHANGED <<txs, poolVars, engineVars>>
  BY <1>6, FeedKeepsStream
<1>7. CASE FetchStep \/ TakeSignal \/ FetchDone \/ DrainDone \/ UNCHANGED vars
  BY <1>3, <1>7 DEF FetchStep, TakeSignal, FetchDone, DrainDone, vars, engineVars
<1>8. CASE DrainDiscard \/ DrainReplay
  BY <1>4, <1>8 DEF DrainDiscard, DrainReplay
<1>9. CASE EvaluateSkips \/ EvaluateFails \/ EvaluateQuietly
  BY <1>4, <1>9 DEF EvaluateSkips, EvaluateFails, EvaluateQuietly, LiveMessage
<1>10. CASE \E signal \in EngineSignals : EvaluateSignals(signal)
  BY <1>4, <1>10 DEF EvaluateSignals, LiveMessage
<1>11. CASE LeaveLoop
  BY <1>2, <1>11 DEF LeaveLoop, Given
<1> QED
  BY <1>5, <1>6, <1>7, <1>8, <1>9, <1>10, <1>11 DEF Next, EngineStep, EngineAlone

\* Whatever the connection, the channel and the frames did, the messages the
\* engine handles and finds buffered are the feed's, in its order, with nothing
\* left out that was neither dropped, skipped nor given again.
THEOREM StreamInOrderHolds == Spec => []StreamInOrder
<1>1. StreamInv => StreamInOrder
  BY DEF StreamInv
<1> QED  BY <1>1, InitShapes, NextShapes, InitStream, NextStream, PTL DEF Spec

-----------------------------------------------------------------------------
(* The newest message handled.                                             *)

IsLargest(s, n) == /\ \A i \in DOMAIN s : s[i] <= n
                   /\ n = 0 \/ \E i \in DOMAIN s : s[i] = n

LEMMA LargestExists ==
    ASSUME NEW h \in Nat, NEW s \in Seq(1 .. h)
    PROVE  /\ \E n \in 0 .. h : IsLargest(s, n)
           /\ \A m, n \in Nat : IsLargest(s, m) /\ IsLargest(s, n) => m = n
<1> DEFINE Bounds == { n \in Nat : \A i \in DOMAIN s : s[i] <= n }
<1>1. \A i \in DOMAIN s : s[i] \in 1 .. h
  OBVIOUS
<1>2. h \in Bounds
  BY <1>1
<1>3. PICK n \in Bounds : \A m \in Bounds : n <= m
  <2>1. Bounds \in SUBSET Nat /\ Bounds # {}
    BY <1>2
  <2> HIDE DEF Bounds
  <2> QED  BY <2>1, LeastNatural
<1>4. n \in 0 .. h
  BY <1>2, <1>3
<1>5. n = 0 \/ \E i \in DOMAIN s : s[i] = n
  <2> SUFFICES ASSUME n # 0, \A i \in DOMAIN s : s[i] # n PROVE FALSE
    OBVIOUS
  <2>1. n - 1 \in Bounds
    BY <1>1, <1>3
  <2> QED  BY <1>3, <2>1
<1>6. IsLargest(s, n)
  BY <1>3, <1>5 DEF IsLargest
<1>7. ASSUME NEW m \in Nat, NEW k \in Nat, IsLargest(s, m), IsLargest(s, k)
      PROVE  m = k
  BY <1>1, <1>7 DEF IsLargest
<1> QED  BY <1>4, <1>6, <1>7

LEMMA TakenMaxIs ==
    ASSUME Shapes
    PROVE  TakenMax \in 0 .. ChainHead /\ IsLargest(taken, TakenMax)
<1>1. /\ ChainHead \in Nat /\ ChainHead <= MaxTxs /\ MaxTxs \in Nat
      /\ taken \in Seq(1 .. ChainHead)
  BY ChainTyped DEF Shapes, ChainShape, ChainHead, EngineShape, Sequenced
<1>2. PICK n \in 0 .. ChainHead : IsLargest(taken, n)
  BY <1>1, LargestExists
<1>3. n \in 0 .. MaxTxs
  BY <1>1
<1>4. TakenMax \in 0 .. MaxTxs /\ IsLargest(taken, TakenMax)
  BY <1>2, <1>3 DEF TakenMax, IsLargest
<1>5. TakenMax = n
  BY <1>1, <1>2, <1>3, <1>4, LargestExists
<1> QED  BY <1>4, <1>5

\* Each message handled moves it to itself, or leaves it.
LEMMA TakenMaxMoves ==
    ASSUME Shapes, UNCHANGED txs, NEW n \in Sequenced, taken' = Append(taken, n)
    PROVE  TakenMax' = Later(n, TakenMax)
<1> DEFINE x == Later(n, TakenMax)
           t == Append(taken, n)
<1>1. /\ ChainHead \in Nat /\ ChainHead <= MaxTxs /\ MaxTxs \in Nat
      /\ taken \in Seq(1 .. ChainHead) /\ n \in 1 .. ChainHead
  BY ChainTyped DEF Shapes, ChainShape, ChainHead, EngineShape, Sequenced
<1>2. TakenMax \in 0 .. ChainHead /\ IsLargest(taken, TakenMax)
  BY TakenMaxIs
<1>3. /\ t \in Seq(1 .. ChainHead) /\ Len(taken) \in Nat
      /\ Len(t) = Len(taken) + 1 /\ DOMAIN t = 1 .. Len(t) /\ DOMAIN taken = 1 .. Len(taken)
      /\ \A i \in 1 .. Len(taken) : t[i] = taken[i]
      /\ t[Len(taken) + 1] = n
  BY <1>1
<1>4. x \in Nat /\ x <= MaxTxs /\ x >= n /\ x >= TakenMax /\ x \in {n, TakenMax}
  BY <1>1, <1>2 DEF Later
<1> HIDE DEF t, x
<1>5. IsLargest(t, x)
  <2>1. ASSUME NEW i \in DOMAIN t PROVE t[i] <= x
    <3>1. CASE i \in 1 .. Len(taken)
      <4>1. t[i] = taken[i] /\ taken[i] <= TakenMax /\ taken[i] \in Nat
        BY <1>1, <1>2, <1>3, <3>1 DEF IsLargest
      <4> QED  BY <1>2, <1>4, <4>1
    <3>2. CASE i = Len(taken) + 1
      BY <1>3, <1>4, <3>2
    <3> QED  BY <1>3, <2>1, <3>1, <3>2
  <2>2. x = 0 \/ \E i \in DOMAIN t : t[i] = x
    <3>1. CASE x = n
      BY <1>3, <3>1
    <3>2. CASE x = TakenMax
      BY <1>2, <1>3, <3>2 DEF IsLargest
    <3> QED  BY <1>4, <3>1, <3>2
  <2> QED  BY <2>1, <2>2 DEF IsLargest
<1>6. TakenMax' \in 0 .. MaxTxs /\ IsLargest(t, TakenMax')
  <2>1. x \in 0 .. MaxTxs
    BY <1>1, <1>4
  <2>2. TakenMax' = CHOOSE m \in 0 .. MaxTxs : IsLargest(t, m)
    BY DEF TakenMax, IsLargest, t
  <2> QED  BY <1>5, <2>1, <2>2
<1>7. TakenMax' \in Nat
  BY <1>1, <1>6
<1>8. TakenMax' = x
  BY <1>1, <1>3, <1>4, <1>5, <1>6, <1>7, LargestExists
<1> QED  BY <1>8 DEF x

\* A message not given again is newer than all handled before it.
LEMMA FreshIsNewest ==
    ASSUME Shapes, StreamInv, feedChan # <<>>, Head(feedChan) \notin repeated
    PROVE  Head(feedChan) > TakenMax
<1>1. TakenMax \in 0 .. ChainHead /\ IsLargest(taken, TakenMax)
  BY TakenMaxIs
<1>2. Head(feedChan) \in Nat /\ Head(feedChan) >= 1
  BY MessageTyped DEF Sequenced
<1>3. CASE TakenMax = 0
  BY <1>2, <1>3
<1>4. CASE TakenMax # 0
  <2>1. taken \in Seq(Sequenced) /\ feedChan \in Seq(Sequenced)
    BY DEF Shapes, FeedShape, EngineShape
  <2>2. PICK i \in 1 .. Len(taken) : taken[i] = TakenMax
    BY <1>1, <1>4, <2>1 DEF IsLargest
  <2>3. /\ Len(taken) \in Nat /\ Len(taken) + 1 \in 1 .. Len(Given)
        /\ Given[i] = TakenMax /\ Given[Len(taken) + 1] = Head(feedChan)
    <3>1. Len(taken) \in Nat /\ Len(feedChan) \in Nat /\ Len(feedChan) >= 1
      BY <2>1
    <3> QED  BY <2>2, <3>1, GivenTyped
  <2>4. i \in 1 .. (Len(taken) + 1) - 1
    BY <2>2, <2>3
  <2>5. Given[i] < Given[Len(taken) + 1] \/ Given[Len(taken) + 1] \in repeated
    BY <2>3, <2>4 DEF StreamInv, StreamInOrder
  <2> QED  BY <1>1, <1>2, <2>3, <2>5
<1> QED  BY <1>3, <1>4

\* What came before it and is not accounted for was handled before it.
LEMMA NothingBetween ==
    ASSUME Shapes, StreamInv, feedChan # <<>>, NEW n \in 1 .. Head(feedChan) - 1,
           Parsed(txs[n]), n \notin lost \cup repeated
    PROVE  n <= TakenMax
<1>1. taken \in Seq(Sequenced) /\ feedChan \in Seq(Sequenced)
  BY DEF Shapes, FeedShape, EngineShape
<1>2. /\ Len(taken) \in Nat /\ Len(taken) + 1 \in 1 .. Len(Given)
      /\ Given[Len(taken) + 1] = Head(feedChan)
  <2>1. Len(taken) \in Nat /\ Len(feedChan) \in Nat /\ Len(feedChan) >= 1
    BY <1>1
  <2> QED  BY <2>1, GivenTyped
<1>3. PICK j \in 1 .. (Len(taken) + 1) - 1 : Given[j] = n
  BY <1>2 DEF StreamInv, StreamInOrder
<1>4. j \in 1 .. Len(taken)
  BY <1>2
<1>5. taken[j] = n
  BY <1>3, <1>4, GivenTyped
<1> QED  BY <1>1, <1>4, <1>5, TakenMaxIs DEF IsLargest

-----------------------------------------------------------------------------
(* Where a swap is attributed.                                             *)

\* Of fewer candidates, the first of all of them is still the first.
LEMMA FirstOfFewer ==
    ASSUME NEW S \in SUBSET Pools, NEW T \in SUBSET S, NEW p \in T, First[S] = p
    PROVE  First[T] = p
<1> DEFINE firsts(Q) == { i \in DOMAIN PoolOrder :
                             /\ PoolOrder[i] \in Q
                             /\ \A j \in 1 .. i - 1 : PoolOrder[j] \notin Q }
<1>1. DOMAIN PoolOrder = 1 .. Len(PoolOrder) /\ Len(PoolOrder) \in Nat
  BY RegistryOrdered
<1>2. \A Q \in SUBSET Pools :
         First[Q] = IF firsts(Q) = {} THEN NoPool
                    ELSE PoolOrder[CHOOSE i \in firsts(Q) : TRUE]
  BY DEF First
<1>3. p \in Pools /\ p # NoPool /\ T \in SUBSET Pools
  BY RegistryTyped
<1> HIDE DEF firsts
<1>4. firsts(S) # {} /\ p = PoolOrder[CHOOSE i \in firsts(S) : TRUE]
  BY <1>2, <1>3
<1>5. PICK c \in firsts(S) : PoolOrder[c] = p
  BY <1>4
<1>6. c \in firsts(T)
  BY <1>5 DEF firsts
<1>7. ASSUME NEW d \in firsts(T) PROVE d = c
  <2>1. /\ c \in Nat /\ d \in Nat /\ c >= 1 /\ d >= 1
        /\ PoolOrder[c] \in T /\ PoolOrder[d] \in T
        /\ \A j \in 1 .. c - 1 : PoolOrder[j] \notin T
        /\ \A j \in 1 .. d - 1 : PoolOrder[j] \notin T
    BY <1>1, <1>6 DEF firsts
  <2>2. ~ (c < d)
    <3>1. c < d => c \in 1 .. d - 1
      BY <2>1
    <3> QED  BY <2>1, <3>1
  <2>3. ~ (d < c)
    <3>1. d < c => d \in 1 .. c - 1
      BY <2>1
    <3> QED  BY <2>1, <3>1
  <2> QED  BY <2>1, <2>2, <2>3
<1>8. (CHOOSE i \in firsts(T) : TRUE) = c
  BY <1>6, <1>7
<1> QED  BY <1>2, <1>3, <1>5, <1>6, <1>8

\* A clear swap of a fetched pool ends up at the pool, in the live loop as in
\* the drain, once.
LEMMA ClearSwapsArrive ==
    ASSUME NEW p \in Pools, p \in fetched, Protocol[p] # "Other",
           NEW n, ClearSwap(p, n)
    PROVE  /\ PoolA(n) = p
           /\ DOMAIN Hops(txs[n]) = {1}
           /\ ReplayPool(Hops(txs[n])[1], txs[n], fetched) = p
<1>1. /\ Len(TokenPath(txs[n])) = 2
      /\ ApproxAmountIn(txs[n]) <= MaxAmount
      /\ FindMatchingPool(txs[n]) = p
      /\ First[PoolsOf(EndPair(txs[n]))] = p
  BY DEF ClearSwap
<1>2. Simulates(p, txs[n], fetched) /\ p # NoPool
  BY <1>1, RegistryTyped DEF Simulates
<1>3. PoolA(n) = p
  BY <1>1, <1>2 DEF PoolA
<1>4. /\ DOMAIN Hops(txs[n]) = {1}
      /\ Hops(txs[n])[1] = EndPair(txs[n])
  BY <1>1 DEF Hops, EndPair
<1> DEFINE all  == PoolsOf(EndPair(txs[n]))
           able == { q \in all : Simulates(q, txs[n], fetched) }
<1>5. all \in SUBSET Pools
  BY DEF PoolsOf, TokenGraph
<1>6. p \in all
  <2> HIDE DEF all
  <2> QED  BY <1>1, <1>2, <1>5, FirstIsOne DEF all
<1>7. able \in SUBSET all /\ p \in able
  BY <1>2, <1>6
<1>8. First[able] = p
  <2> HIDE DEF all, able
  <2> QED  BY <1>1, <1>5, <1>7, FirstOfFewer DEF all
<1> QED  BY <1>3, <1>4, <1>8 DEF ReplayPool

\* What does not concern a pool does not arrive at it.
LEMMA OthersStayAway ==
    ASSUME NEW p \in Pools, NEW n, ~ Concerns(p, n)
    PROVE  /\ PoolA(n) # p
           /\ \A i \in DOMAIN Hops(txs[n]) :
                 ReplayPool(Hops(txs[n])[i], txs[n], fetched) # p
<1>1. p # NoPool
  BY RegistryTyped
<1>2. ASSUME NEW pair, NEW S \in SUBSET PoolsOf(pair), First[S] = p
      PROVE  pair = PairOf(p)
  <2>1. S \in SUBSET Pools
    BY DEF PoolsOf, TokenGraph
  <2>2. p \in S
    BY <1>1, <1>2, <2>1, FirstIsOne
  <2>3. p \in PoolsOf(pair)
    BY <2>2
  <2> QED  BY <2>3 DEF PoolsOf, TokenGraph
<1>3. PoolA(n) # p
  <2> SUFFICES ASSUME PoolA(n) = p PROVE FALSE
    OBVIOUS
  <2>1. FindMatchingPool(txs[n]) = p /\ Len(TokenPath(txs[n])) >= 2
    BY <1>1 DEF PoolA
  <2> DEFINE S == { q \in PoolsOf(EndPair(txs[n])) : MatchesAction(q, txs[n]) }
  <2>2. S \in SUBSET PoolsOf(EndPair(txs[n])) /\ First[S] = p
    BY <2>1 DEF FindMatchingPool
  <2> HIDE DEF S
  <2>3. EndPair(txs[n]) = PairOf(p)
    BY <1>2, <2>2
  <2> QED  BY <2>1, <2>3 DEF Concerns
<1>4. ASSUME NEW i \in DOMAIN Hops(txs[n]),
             ReplayPool(Hops(txs[n])[i], txs[n], fetched) = p
      PROVE  FALSE
  <2> DEFINE hop == Hops(txs[n])[i]
             S   == { q \in PoolsOf(hop) : Simulates(q, txs[n], fetched) }
  <2>1. S \in SUBSET PoolsOf(hop) /\ First[S] = p
    BY <1>4 DEF ReplayPool
  <2> HIDE DEF S
  <2>2. hop = PairOf(p)
    BY <1>2, <2>1
  <2> QED  BY <2>2 DEF Concerns
<1> QED  BY <1>3, <1>4

\* Updating a pool zero times leaves it, and once appends the swap.
LEMMA HopsOnce ==
    ASSUME Shapes, NEW p \in Pools, NEW n, NEW times, ApplyHops(n, times)
    PROVE  /\ times[p] = 0 => mem'[p] = mem[p]
           /\ times[p] = 1 =>
                 mem'[p] = Append(mem[p], [tx |-> n, amount |-> ApproxAmountIn(txs[n])])
<1> DEFINE entry == [tx |-> n, amount |-> ApproxAmountIn(txs[n])]
           E     == [tx : 0 .. ChainHead, amount : Nat] \cup {entry}
<1>1. mem'[p] = mem[p] \o [i \in 1 .. times[p] |-> entry]
  BY DEF ApplyHops
<1>2. mem[p] \in Seq(E) /\ entry \in E
  <2> DEFINE Old == [tx : 0 .. ChainHead, amount : Nat]
  <2>1. mem[p] \in Seq(Old)
    BY DEF Shapes, PoolShape
  <2>2. Old \subseteq E
    OBVIOUS
  <2> HIDE DEF Old, E
  <2>3. mem[p] \in Seq(E)
    BY <2>1, <2>2
  <2> QED  BY <2>3 DEF E
<1> HIDE DEF entry, E
<1>3. ASSUME times[p] = 0 PROVE mem'[p] = mem[p]
  <2>1. [i \in 1 .. 0 |-> entry] = <<>>
    OBVIOUS
  <2> QED  BY <1>1, <1>2, <1>3, <2>1, ConcatEmptySeq
<1>4. ASSUME times[p] = 1 PROVE mem'[p] = Append(mem[p], entry)
  <2>1. [i \in 1 .. 1 |-> entry] = <<entry>>
    OBVIOUS
  <2> QED  BY <1>1, <1>2, <1>4, <2>1, AppendIsConcat
<1> QED  BY <1>3, <1>4 DEF entry

-----------------------------------------------------------------------------
(* Memory and chain.                                                       *)
(*                                                                         *)
(* A transaction that names no path the code can use leaves memory alone   *)
(* whatever it moves: memory tracks the chain without such transactions.   *)

Readable(n) == Len(TokenPath(txs[n])) >= 2

\* The chain as the code can read it.
ReadChain == [n \in Sequenced |->
                 IF Readable(n) THEN txs[n] ELSE [route |-> [p \in {} |-> 0]]]

ReadMoves(n, p) == Readable(n) /\ Moves(n, p)

\* What can be read and concerns p is a clear swap, and what cannot be read and
\* moves p is in no snapshot.
Clear(p) ==
    /\ NeverFails(p)
    /\ \A n \in Sequenced :
          /\ Readable(n) /\ Concerns(p, n) => \E q \in fetched : ClearSwap(q, n)
          /\ Moves(n, p) /\ ~ Readable(n) => n > cut[p]
    /\ Undisturbed(p)

Tracked(p) == mem[p] = Swaps(ReadChain, p, Later(cut[p], TakenMax))

\* Tracks, in every phase, with what it needs: nothing is handled while
\* reserves are fetched, a fetch leaves a snapshot, torn or not, of a protocol
\* that can be simulated, and the live loop counts what it handles.
TrackInv ==
    /\ phase = "fetching" =>
          taken = <<>> /\ \A p \in fetched : mem[p] \in {Torn, ChainHist(p, cut[p])}
    /\ phase \in {"fetching", "draining"} => count = 0
    /\ count <= Len(taken)
    /\ \A p \in fetched : Protocol[p] # "Other"
    /\ \A p \in fetched : Clear(p) => Tracked(p)

LEMMA NoneReflected ==
    ASSUME NEW S, NEW s \in Seq(S), NEW n
    PROVE  Cardinality({ i \in DOMAIN s : s[i].tx = n }) = 0
              <=> \A i \in 1 .. Len(s) : s[i].tx # n
<1> DEFINE hits == { i \in DOMAIN s : s[i].tx = n }
<1>1. DOMAIN s = 1 .. Len(s) /\ Len(s) \in Nat
  OBVIOUS
<1>2. IsFiniteSet(DOMAIN s)
  BY <1>1, FS_Interval
<1>3. IsFiniteSet(hits)
  BY <1>2, FS_Subset
<1>4. Cardinality(hits) = 0 <=> hits = {}
  <2> HIDE DEF hits
  <2> QED  BY <1>3, FS_EmptySet
<1> QED  BY <1>1, <1>4

\* What a transaction is to a pool depends on the transaction alone.
LEMMA SwapsKept ==
    ASSUME NEW p, NEW n, txs'[n] = txs[n]
    PROVE  /\ ClearSwap(p, n)' <=> ClearSwap(p, n)
           /\ Concerns(p, n)' <=> Concerns(p, n)
           /\ Moves(n, p)' <=> Moves(n, p)
           /\ Readable(n)' <=> Readable(n)
BY DEF ClearSwap, Concerns, Moves, Readable

\* What moves a pool on the chain as read.
LEMMA ReadChainMoves ==
    ASSUME NEW n \in Sequenced, NEW p
    PROVE  /\ p \in DOMAIN ReadChain[n].route <=> ReadMoves(n, p)
           /\ ReadMoves(n, p) => SwapOf(ReadChain, p, n) = SwapOf(txs, p, n)
<1>1. ReadChain[n] = IF Readable(n) THEN txs[n] ELSE [route |-> [q \in {} |-> 0]]
  BY DEF ReadChain
<1>2. CASE Readable(n)
  BY <1>1, <1>2 DEF ReadMoves, Moves, SwapOf
<1>3. CASE ~ Readable(n)
  BY <1>1, <1>3 DEF ReadMoves
<1> QED  BY <1>2, <1>3

\* Where all that moves the pool can be read, that is the chain.
LEMMA ReadAsIs ==
    ASSUME NEW p, NEW n \in Nat, n <= ChainHead, ChainHead \in Nat,
           \A k \in 1 .. n : Moves(k, p) => Readable(k)
    PROVE  Swaps(ReadChain, p, n) = ChainHist(p, n)
<1>1. ASSUME NEW k \in 1 .. n PROVE AgreeOn(txs, ReadChain, p, k)
  <2>1. k \in Sequenced
    BY DEF Sequenced
  <2>2. ReadMoves(k, p) <=> p \in DOMAIN txs[k].route
    BY DEF ReadMoves, Moves
  <2>3. ReadMoves(k, p) => ReadChain[k] = txs[k]
    BY <2>1 DEF ReadChain, ReadMoves
  <2> QED  BY <2>1, <2>2, <2>3, ReadChainMoves DEF AgreeOn
<1>2. Swaps(ReadChain, p, n) = Swaps(txs, p, n)
  <2> HIDE DEF AgreeOn
  <2> QED  BY <1>1, SwapsAgree
<1> QED  BY <1>2 DEF ChainHist

\* A longer chain reads the same up to where it was.
LEMMA ReadOfPrefix ==
    ASSUME NEW p, NEW n \in 0 .. ChainHead, ChainHead \in Nat,
           Sequenced \subseteq Sequenced', \A k \in Sequenced : txs'[k] = txs[k]
    PROVE  Swaps(ReadChain', p, n) = Swaps(ReadChain, p, n)
<1>1. ASSUME NEW k \in 1 .. n PROVE ReadChain'[k] = ReadChain[k]
  <2>1. k \in Sequenced /\ k \in Sequenced'
    BY DEF Sequenced
  <2>2. (Readable(k)' <=> Readable(k)) /\ txs'[k] = txs[k]
    BY <2>1 DEF Readable
  <2> QED  BY <2>1, <2>2 DEF ReadChain
<1>2. n \in Nat
  OBVIOUS
<1> QED  BY <1>1, <1>2, SwapsOfPrefix

\* A pool that is clear after a step was clear before it.
LEMMA ClearEarlier ==
    ASSUME Shapes, Shapes', NEW p \in Pools,
           \A n \in Sequenced : txs'[n] = txs[n], Sequenced \subseteq Sequenced',
           UNCHANGED fetched, cut'[p] = cut[p],
           lost \subseteq lost', repeated \subseteq repeated', discarded \subseteq discarded',
           TakenLive \subseteq TakenLive',
           \A i \in 1 .. Len(mem[p]) : i \in 1 .. Len(mem'[p]) /\ mem'[p][i] = mem[p][i],
           Clear(p)'
    PROVE  Clear(p)
<1>1. \A n \in Sequenced : /\ Concerns(p, n)' <=> Concerns(p, n)
                           /\ Moves(n, p)' <=> Moves(n, p)
                           /\ Readable(n)' <=> Readable(n)
                           /\ \A q : ClearSwap(q, n)' <=> ClearSwap(q, n)
  BY SwapsKept
<1>2. /\ NeverFails(p)
      /\ \A n \in Sequenced :
            /\ Readable(n) /\ Concerns(p, n) => \E q \in fetched : ClearSwap(q, n)
            /\ Moves(n, p) /\ ~ Readable(n) => n > cut[p]
  <2>1. NeverFails(p)
    BY DEF Clear, NeverFails, Counterparties
  <2>2. \A n \in Sequenced' :
           /\ Readable(n)' /\ Concerns(p, n)' => \E q \in fetched' : ClearSwap(q, n)'
           /\ Moves(n, p)' /\ ~ Readable(n)' => n > cut'[p]
    BY DEF Clear
  <2>3. \A n \in Sequenced :
           /\ Readable(n) /\ Concerns(p, n) => \E q \in fetched : ClearSwap(q, n)
           /\ Moves(n, p) /\ ~ Readable(n) => n > cut[p]
    BY <1>1, <2>2
  <2> QED  BY <2>1, <2>3
<1>3. Undisturbed(p)
  <2>1. Reflected(p, 0) = 0
    <3> DEFINE s == mem[p]
               t == mem'[p]
    <3>1. s \in Seq([tx : 0 .. ChainHead, amount : Nat])
      BY DEF Shapes, PoolShape
    <3>2. t \in Seq([tx : 0 .. ChainHead', amount : Nat])
      BY DEF Shapes, PoolShape
    <3>3. Cardinality({ i \in DOMAIN t : t[i].tx = 0 }) = 0
      BY DEF Clear, Undisturbed, Reflected
    <3>4. \A i \in 1 .. Len(s) : i \in 1 .. Len(t) /\ t[i] = s[i]
      OBVIOUS
    <3> HIDE DEF s, t
    <3>5. \A i \in 1 .. Len(t) : t[i].tx # 0
      BY <3>2, <3>3, NoneReflected
    <3>6. \A i \in 1 .. Len(s) : s[i].tx # 0
      BY <3>4, <3>5
    <3>7. Cardinality({ i \in DOMAIN s : s[i].tx = 0 }) = 0
      <4>1. Cardinality({ i \in DOMAIN s : s[i].tx = 0 }) = 0
               <=> \A i \in 1 .. Len(s) : s[i].tx # 0
        BY <3>1, NoneReflected
      <4> QED  BY <3>6, <4>1
    <3> QED  BY <3>7 DEF Reflected, s
  <2>2. \A n \in Sequenced' : Moves(n, p)' =>
           /\ n > cut[p] => n \notin lost' \cup discarded'
           /\ n \notin repeated'
           /\ n <= cut[p] => n \notin TakenLive'
    BY DEF Clear, Undisturbed, Sequenced
  <2>3. \A n \in Sequenced : Moves(n, p) =>
           /\ n > cut[p] => n \notin lost \cup discarded
           /\ n \notin repeated
           /\ n <= cut[p] => n \notin TakenLive
    BY <1>1, <2>2
  <2> QED  BY <2>1, <2>3 DEF Undisturbed, Sequenced
<1> QED  BY <1>2, <1>3 DEF Clear

\* The history of a pool grows by the swap of the message handled, or not at
\* all, whatever was handled before it.
LEMMA HistoryMoves ==
    ASSUME Shapes, StreamInv, feedChan # <<>>, NEW p \in Pools, cut[p] \in 0 .. ChainHead,
           \A m \in Sequenced : ReadMoves(m, p) =>
              /\ Parsed(txs[m])
              /\ m \notin repeated
              /\ m > cut[p] => m \notin lost
    PROVE  LET n      == Head(feedChan)
               before == Swaps(ReadChain, p, Later(cut[p], TakenMax))
               after  == Swaps(ReadChain, p, Later(cut[p], Later(n, TakenMax)))
           IN  /\ (ReadMoves(n, p) => n <= cut[p]) => after = before
               /\ ReadMoves(n, p) /\ n > cut[p] => after = Append(before, SwapOf(txs, p, n))
<1> DEFINE n      == Head(feedChan)
           h      == Later(cut[p], TakenMax)
           k      == Later(cut[p], Later(n, TakenMax))
<1>1. /\ ChainHead \in Nat /\ TakenMax \in Nat /\ cut[p] \in Nat
      /\ n \in 1 .. ChainHead
  BY MessageTyped, TakenMaxIs DEF Shapes, ChainShape, ChainHead, Sequenced
<1>2. /\ h \in Nat /\ h >= cut[p] /\ h >= TakenMax /\ h \in {cut[p], TakenMax}
      /\ k = IF n > h THEN n ELSE h
  BY <1>1 DEF Later
<1>3. ASSUME NEW m \in h + 1 .. n - 1 PROVE p \notin DOMAIN ReadChain[m].route
  <2> SUFFICES ASSUME p \in DOMAIN ReadChain[m].route PROVE FALSE
    OBVIOUS
  <2>1. m \in Sequenced /\ m \in 1 .. n - 1 /\ m > cut[p] /\ m > TakenMax
    BY <1>1, <1>2 DEF Sequenced
  <2>2. Parsed(txs[m]) /\ m \notin lost \cup repeated
    BY <2>1, ReadChainMoves
  <2> QED  BY <1>1, <2>1, <2>2, NothingBetween
<1>r. n \in Sequenced /\ (p \in DOMAIN ReadChain[n].route <=> ReadMoves(n, p))
  BY <1>1, ReadChainMoves DEF Sequenced
<1> HIDE DEF h, k
<1>4. CASE ReadMoves(n, p) => n <= cut[p]
  <2>1. CASE n > h
    <3>1. ~ ReadMoves(n, p)
      BY <1>1, <1>2, <1>4, <2>1
    <3>2. \A m \in h + 1 .. n : p \notin DOMAIN ReadChain[m].route
      BY <1>1, <1>2, <1>3, <1>r, <3>1
    <3>3. Swaps(ReadChain, p, n) = Swaps(ReadChain, p, h)
      <4>1. h <= n /\ n \in Nat
        BY <1>1, <1>2, <2>1
      <4> QED  BY <1>2, <3>2, <4>1, SwapsQuiet
    <3> QED  BY <1>1, <1>2, <1>4, <2>1, <3>3 DEF h, k
  <2>2. CASE ~ (n > h)
    BY <1>1, <1>2, <1>4, <2>2 DEF h, k
  <2> QED  BY <2>1, <2>2
<1>5. CASE ReadMoves(n, p) /\ n > cut[p]
  <2>1. n > TakenMax
    BY <1>1, <1>5, FreshIsNewest DEF Sequenced
  <2>2. n > h /\ k = n /\ n - 1 \in Nat /\ h <= n - 1 /\ (n - 1) + 1 = n
    BY <1>1, <1>2, <1>5, <2>1
  <2>3. Swaps(ReadChain, p, n - 1) = Swaps(ReadChain, p, h)
    BY <1>2, <1>3, <2>2, SwapsQuiet
  <2>4. Swaps(ReadChain, p, n) = Append(Swaps(ReadChain, p, n - 1), SwapOf(ReadChain, p, n))
    <3>1. Swaps(ReadChain, p, (n - 1) + 1) =
             IF p \in DOMAIN ReadChain[(n - 1) + 1].route
             THEN Append(Swaps(ReadChain, p, n - 1), SwapOf(ReadChain, p, (n - 1) + 1))
             ELSE Swaps(ReadChain, p, n - 1)
      BY <2>2, SwapsSteps
    <3> QED  BY <1>5, <1>r, <2>2, <3>1
  <2>5. SwapOf(ReadChain, p, n) = SwapOf(txs, p, n)
    BY <1>5, <1>r, ReadChainMoves
  <2>6. Swaps(ReadChain, p, k) = Append(Swaps(ReadChain, p, h), SwapOf(txs, p, n))
    BY <2>2, <2>3, <2>4, <2>5
  <2> QED  BY <1>1, <1>5, <2>6 DEF h, k
<1>6. (ReadMoves(n, p) => n <= cut[p]) \/ (ReadMoves(n, p) /\ n > cut[p])
  BY <1>1
<1> HIDE DEF n
<1> QED  BY <1>4, <1>5, <1>6 DEF n

\* Steps that neither handle a message nor store reserves: the chain may grow,
\* messages be lost or given again.
LEMMA TrackFrame ==
    ASSUME Shapes, Shapes', TrackInv,
           \A n \in Sequenced : txs'[n] = txs[n], Sequenced \subseteq Sequenced',
           UNCHANGED <<mem, cut, fetched, taken, count, discarded>>,
           lost \subseteq lost', repeated \subseteq repeated',
           phase' = "fetching" => phase = "fetching",
           phase' \in {"fetching", "draining"} => phase \in {"fetching", "draining"}
    PROVE  TrackInv'
<1>1. TakenMax' = TakenMax /\ TakenLive' = TakenLive
  BY DEF TakenMax, TakenLive
<1>2. /\ ChainHead \in Nat /\ TakenMax \in 0 .. ChainHead /\ fetched \subseteq Pools
      /\ \A p \in Pools : cut[p] \in 0 .. ChainHead
  <2>1. TakenMax \in 0 .. ChainHead
    BY TakenMaxIs
  <2>2. ChainHead \in Nat
    BY DEF Shapes, ChainShape, ChainHead
  <2> QED  BY <2>1, <2>2 DEF Shapes, PoolShape
<1>3. ASSUME NEW p, NEW n \in 0 .. ChainHead PROVE ChainHist(p, n)' = ChainHist(p, n)
  <2>1. n \in Nat /\ \A k \in 1 .. n : txs'[k] = txs[k]
    BY <1>2 DEF Sequenced
  <2>2. Swaps(txs', p, n) = Swaps(txs, p, n)
    BY <2>1, SwapsOfPrefix
  <2> QED  BY <2>2 DEF ChainHist
<1>4. ASSUME NEW p \in fetched', Clear(p)' PROVE Tracked(p)'
  <2>1. p \in fetched /\ p \in Pools /\ cut[p] \in 0 .. ChainHead
    BY <1>2
  <2>2. Clear(p)
    BY <1>1, <1>4, <2>1, ClearEarlier
  <2>3. Tracked(p) /\ Later(cut[p], TakenMax) \in 0 .. ChainHead
    BY <1>2, <2>1, <2>2 DEF TrackInv, Later
  <2>4. Swaps(ReadChain', p, Later(cut[p], TakenMax)')
           = Swaps(ReadChain, p, Later(cut[p], TakenMax))
    <3> DEFINE n == Later(cut[p], TakenMax)
    <3>1. n \in 0 .. ChainHead /\ n' = n
      BY <1>1, <2>3 DEF Later
    <3> HIDE DEF n
    <3>2. Swaps(ReadChain', p, n) = Swaps(ReadChain, p, n)
      BY <1>2, <3>1, ReadOfPrefix
    <3>3. Swaps(ReadChain', p, n') = Swaps(ReadChain, p, n)
      BY <3>1, <3>2
    <3> QED  BY <3>3 DEF n
  <2> QED  BY <2>3, <2>4 DEF Tracked
<1>5. phase' = "fetching" =>
         taken' = <<>> /\ \A p \in fetched' : mem'[p] \in {Torn, ChainHist(p, cut[p])'}
  BY <1>2, <1>3 DEF TrackInv
<1> QED  BY <1>4, <1>5 DEF TrackInv

\* Storing a pool's reserves.
LEMMA StoreKeepsTracking ==
    ASSUME Shapes, Shapes', FetchInv, TrackInv,
           StoreReserves, UNCHANGED <<txs, feedVars, engineVars>>
    PROVE  TrackInv'
<1> DEFINE q == Head(toFetch)
<1>1. /\ toFetch # <<>> /\ CallsOf(q) # {} /\ DOMAIN reading = CallsOf(q)
      /\ mem' = [mem EXCEPT ![q] = Snapshot(q)]
      /\ cut' = [cut EXCEPT ![q] = Oldest]
      /\ fetched' = fetched \cup {q}
      /\ UNCHANGED <<txs, phase, count, taken>>
  BY DEF StoreReserves, engineVars
<1>2. /\ q \in Pools /\ ChainHead \in Nat /\ fetched \subseteq Pools
      /\ \A c \in DOMAIN reading : reading[c] \in 0 .. ChainHead
      /\ DOMAIN mem = Pools /\ DOMAIN cut = Pools
  BY <1>1 DEF Shapes, ChainShape, ChainHead, PoolShape
<1> HIDE DEF q
<1>3. Oldest \in 0 .. ChainHead
  BY <1>1, <1>2, OldestRead
<1>4. Snapshot(q) \in {Torn, ChainHist(q, Oldest)}
  BY <1>3, SnapshotIs
<1>5. phase = "fetching" /\ taken = <<>> /\ count = 0
  BY <1>1 DEF FetchInv, FetchOrder, TrackInv
<1>6. ASSUME NEW p \in fetched'
      PROVE  /\ p \in Pools /\ Protocol[p] # "Other"
             /\ mem'[p] \in {Torn, ChainHist(p, cut'[p])}
  <2>1. CASE p = q
    BY <1>1, <1>2, <1>4, <2>1 DEF CallsOf, V2Like
  <2>2. CASE p # q
    BY <1>1, <1>2, <1>5, <2>2 DEF TrackInv
  <2> QED  BY <2>1, <2>2
<1>7. TakenMax' = 0
  <2>1. TakenMax = 0
    BY <1>5, TakenMaxIs DEF IsLargest
  <2> QED  BY <1>1, <2>1 DEF TakenMax
<1>8. ASSUME NEW p \in fetched', Clear(p)' PROVE Tracked(p)'
  <2>1. Cardinality({ i \in DOMAIN mem'[p] : mem'[p][i].tx = 0 }) = 0
    BY <1>8 DEF Clear, Undisturbed, Reflected
  <2>2. mem'[p] # Torn
    <3> SUFFICES ASSUME mem'[p] = Torn PROVE FALSE
      OBVIOUS
    <3> DEFINE S == {[tx |-> 0, amount |-> 0]}
    <3>1. Torn \in Seq(S) /\ Len(Torn) = 1 /\ Torn[1].tx = 0
      BY DEF Torn
    <3> HIDE DEF S
    <3>2. \A s \in Seq(S) : Cardinality({ i \in DOMAIN s : s[i].tx = 0 }) = 0
                               => \A i \in 1 .. Len(s) : s[i].tx # 0
      BY NoneReflected
    <3>3. \A i \in 1 .. Len(mem'[p]) : mem'[p][i].tx # 0
      BY <2>1, <3>1, <3>2
    <3> QED  BY <3>1, <3>3
  <2>3. cut'[p] \in Nat
    BY <1>6 DEF Shapes, PoolShape, ChainHead
  <2>4. Later(cut'[p], 0) = cut'[p]
    BY <2>3 DEF Later
  <2>5. mem'[p] = Swaps(txs, p, cut'[p])
    BY <1>6, <2>2 DEF ChainHist
  <2>6. cut'[p] <= ChainHead /\ Sequenced' = Sequenced /\ ReadChain' = ReadChain
    <3>1. cut'[p] \in 0 .. ChainHead' /\ ChainHead' = ChainHead /\ Sequenced' = Sequenced
      BY <1>1, <1>6 DEF Shapes, PoolShape, ChainHead, Sequenced
    <3>2. ReadChain' = ReadChain
      BY <1>1 DEF ReadChain, Readable, Sequenced, ChainHead
    <3> QED  BY <1>2, <3>1, <3>2
  <2>7. ASSUME NEW k \in 1 .. cut'[p], Moves(k, p) PROVE Readable(k)
    <3>1. k \in 1 .. ChainHead /\ ~ (k > cut'[p])
      BY <1>2, <2>3, <2>6
    <3>2. Moves(k, p)' /\ (Readable(k)' <=> Readable(k))
      BY <1>1, <2>7 DEF Moves, Readable
    <3>3. k \in Sequenced'
      BY <2>6, <3>1 DEF Sequenced
    <3> QED  BY <1>8, <3>1, <3>2, <3>3 DEF Clear
  <2>8. Swaps(ReadChain, p, cut'[p]) = ChainHist(p, cut'[p])
    BY <1>2, <2>3, <2>6, <2>7, ReadAsIs
  <2> QED  BY <1>1, <1>7, <2>4, <2>5, <2>6, <2>8 DEF Tracked, ChainHist
<1>9. \A p \in fetched' : mem'[p] \in {Torn, ChainHist(p, cut[p])'}
  BY <1>1, <1>6 DEF ChainHist
<1> QED  BY <1>1, <1>5, <1>6, <1>8, <1>9 DEF TrackInv

\* Updating pools leaves the swaps they reflect in place.
LEMMA HopsExtend ==
    ASSUME Shapes, NEW p \in Pools, NEW n, NEW times, times[p] \in Nat, ApplyHops(n, times)
    PROVE  \A i \in 1 .. Len(mem[p]) : i \in 1 .. Len(mem'[p]) /\ mem'[p][i] = mem[p][i]
<1> DEFINE entry == [tx |-> n, amount |-> ApproxAmountIn(txs[n])]
           Old   == [tx : 0 .. ChainHead, amount : Nat]
           E     == Old \cup {entry}
           more  == [i \in 1 .. times[p] |-> entry]
<1>1. mem'[p] = mem[p] \o more
  BY DEF ApplyHops
<1>2. mem[p] \in Seq(E)
  <2>1. mem[p] \in Seq(Old)
    BY DEF Shapes, PoolShape
  <2>2. Old \subseteq E
    OBVIOUS
  <2> HIDE DEF Old, E
  <2> QED  BY <2>1, <2>2
<1>3. more \in Seq(E)
  <2>1. more \in [1 .. times[p] -> E]
    OBVIOUS
  <2> HIDE DEF more, E
  <2> QED  BY <2>1, SeqDef
<1> HIDE DEF more, E
<1>4. /\ Len(mem[p]) \in Nat /\ Len(more) \in Nat
      /\ Len(mem[p] \o more) = Len(mem[p]) + Len(more)
      /\ \A i \in 1 .. Len(mem[p]) + Len(more) :
            (mem[p] \o more)[i] = IF i <= Len(mem[p]) THEN mem[p][i] ELSE more[i - Len(mem[p])]
  BY <1>2, <1>3, ConcatProperties, LenProperties
<1> QED  BY <1>1, <1>4

\* The messages the live loop took stay taken by it.
LEMMA TakenLiveGrows ==
    ASSUME Shapes, TrackInv, TakeMessage,
           (count = 0 /\ count' = count) \/ count' = count + 1
    PROVE  /\ TakenLive \subseteq TakenLive'
           /\ count' = count + 1 => Head(feedChan) \in TakenLive'
<1>1. /\ taken \in Seq(Sequenced) /\ count \in Nat /\ count <= Len(taken)
      /\ taken' = Append(taken, Head(feedChan))
  BY DEF Shapes, EngineShape, TrackInv, TakeMessage
<1>2. /\ Len(taken) \in Nat /\ Len(taken') = Len(taken) + 1
      /\ \A i \in 1 .. Len(taken) : taken'[i] = taken[i]
      /\ taken'[Len(taken) + 1] = Head(feedChan)
  BY <1>1
<1>3. CASE count = 0 /\ count' = count
  BY <1>1, <1>2, <1>3 DEF TakenLive
<1>4. CASE count' = count + 1
  <2>1. TakenLive' = { taken'[i] : i \in Len(taken) - count + 1 .. Len(taken) + 1 }
    <3>1. Len(taken') - count' + 1 = Len(taken) - count + 1
      BY <1>1, <1>2, <1>4
    <3> QED  BY <1>2, <3>1 DEF TakenLive
  <2>2. \A i \in Len(taken) - count + 1 .. Len(taken) :
           i \in 1 .. Len(taken) /\ i \in Len(taken) - count + 1 .. Len(taken) + 1
    BY <1>1, <1>2
  <2>3. Len(taken) + 1 \in Len(taken) - count + 1 .. Len(taken) + 1
    BY <1>1, <1>2
  <2> QED  BY <1>2, <2>1, <2>2, <2>3 DEF TakenLive
<1> QED  BY <1>1, <1>3, <1>4

\* A pool tracked before its message is tracked after, if the message changed
\* it exactly when it should.
LEMMA TrackedAfter ==
    ASSUME Shapes, StreamInv, TakeMessage, UNCHANGED <<txs, cut>>,
           NEW p \in Pools, Clear(p), Tracked(p),
           ReadMoves(Head(feedChan), p) /\ Head(feedChan) > cut[p] =>
              mem'[p] = Append(mem[p], SwapOf(txs, p, Head(feedChan))),
           ~ (ReadMoves(Head(feedChan), p) /\ Head(feedChan) > cut[p]) =>
              mem'[p] = mem[p]
    PROVE  Tracked(p)'
<1> DEFINE n == Head(feedChan)
<1>1. /\ feedChan # <<>> /\ taken' = Append(taken, n) /\ n \in Sequenced
      /\ cut[p] \in 0 .. ChainHead /\ ChainHead \in Nat
  <2>1. feedChan # <<>> /\ taken' = Append(taken, n)
    BY DEF TakeMessage
  <2>2. n \in Sequenced
    BY <2>1, MessageTyped
  <2>3. cut[p] \in 0 .. ChainHead
    BY DEF Shapes, PoolShape
  <2>4. ChainHead \in Nat
    BY DEF Shapes, ChainShape, ChainHead
  <2> QED  BY <2>1, <2>2, <2>3, <2>4
<1>2. TakenMax' = Later(n, TakenMax)
  BY <1>1, TakenMaxMoves
<1>3. \A m \in Sequenced : ReadMoves(m, p) =>
         /\ Parsed(txs[m]) /\ m \notin repeated
         /\ m > cut[p] => m \notin lost
  BY DEF Clear, ReadMoves, Undisturbed, ClearSwap, Concerns, Sequenced
<1> DEFINE before == Swaps(ReadChain, p, Later(cut[p], TakenMax))
           after  == Swaps(ReadChain, p, Later(cut[p], Later(n, TakenMax)))
<1>4. /\ (ReadMoves(n, p) => n <= cut[p]) => after = before
      /\ ReadMoves(n, p) /\ n > cut[p] => after = Append(before, SwapOf(txs, p, n))
  BY <1>1, <1>3, HistoryMoves
<1>5. mem[p] = before
  BY DEF Tracked
<1>6. n \in Nat /\ cut[p] \in Nat
  BY <1>1 DEF Sequenced
<1> HIDE DEF n, before, after
<1>7. mem'[p] = after
  <2>1. CASE ReadMoves(n, p) /\ n > cut[p]
    BY <1>4, <1>5, <2>1 DEF n
  <2>2. CASE ~ (ReadMoves(n, p) /\ n > cut[p])
    <3>1. ReadMoves(n, p) => n <= cut[p]
      BY <1>6, <2>2
    <3> QED  BY <1>4, <1>5, <2>2, <3>1 DEF n
  <2> QED  BY <2>1, <2>2
<1>8. ReadChain' = ReadChain
  BY DEF ReadChain, Readable, Sequenced, ChainHead
<1>9. Tracked(p)' <=> mem'[p] = Swaps(ReadChain, p, Later(cut[p], TakenMax'))
  BY <1>8 DEF Tracked
<1> QED  BY <1>2, <1>7, <1>9 DEF after

\* Every message, drained or live: what is left to show of each action is that
\* it changes a clear pool exactly when it should.
LEMMA TakeKeepsTracking ==
    ASSUME Shapes, Shapes', StreamInv, TrackInv, TakeMessage,
           UNCHANGED <<txs, cut, fetched, phase>>, phase # "fetching",
           (count = 0 /\ count' = count) \/ (phase # "draining" /\ count' = count + 1),
           discarded \subseteq discarded',
           UNCHANGED mem
              \/ \E times : /\ \A p \in Pools : times[p] \in Nat
                            /\ ApplyHops(Head(feedChan), times),
           \A p \in fetched : Clear(p) /\ Clear(p)' =>
              /\ ReadMoves(Head(feedChan), p) /\ Head(feedChan) > cut[p] =>
                    mem'[p] = Append(mem[p], SwapOf(txs, p, Head(feedChan)))
              /\ ~ (ReadMoves(Head(feedChan), p) /\ Head(feedChan) > cut[p]) =>
                    mem'[p] = mem[p]
    PROVE  TrackInv'
<1>1. /\ UNCHANGED <<lost, repeated>> /\ fetched \subseteq Pools
      /\ taken' = Append(taken, Head(feedChan)) /\ Sequenced' = Sequenced
  BY ShapeFrames DEF TakeMessage, Shapes, PoolShape
<1>2. TakenLive \subseteq TakenLive'
  BY TakenLiveGrows
<1>3. ASSUME NEW p \in fetched, Clear(p)' PROVE Tracked(p)'
  <2>1. \A i \in 1 .. Len(mem[p]) : i \in 1 .. Len(mem'[p]) /\ mem'[p][i] = mem[p][i]
    <3>1. CASE UNCHANGED mem
      BY <3>1
    <3>2. CASE \E times : /\ \A r \in Pools : times[r] \in Nat
                          /\ ApplyHops(Head(feedChan), times)
      BY <1>1, <3>2, HopsExtend
    <3> QED  BY <3>1, <3>2
  <2>2. Clear(p)
    BY <1>1, <1>2, <1>3, <2>1, ClearEarlier
  <2>3. Tracked(p)
    BY <2>2 DEF TrackInv
  <2> QED  BY <1>1, <1>3, <2>2, <2>3, TrackedAfter
<1>4. count' <= Len(taken')
  <2>1. taken \in Seq(Sequenced) /\ count \in Nat /\ count <= Len(taken)
    BY DEF Shapes, EngineShape, TrackInv
  <2>2. Len(taken') = Len(taken) + 1 /\ Len(taken) \in Nat
    BY <1>1, <2>1
  <2> QED  BY <2>1, <2>2
<1> QED  BY <1>3, <1>4 DEF TrackInv

\* What a clear pool's swaps are to the code, and what other transactions are.
LEMMA ClearPool ==
    ASSUME Shapes, TrackInv, NEW p \in fetched, Clear(p), NEW n \in Sequenced
    PROVE  /\ ReadMoves(n, p) =>
                 /\ ClearSwap(p, n)
                 /\ PoolA(n) = p
                 /\ DOMAIN Hops(txs[n]) = {1}
                 /\ ReplayPool(Hops(txs[n])[1], txs[n], fetched) = p
                 /\ SwapOf(txs, p, n) = [tx |-> n, amount |-> ApproxAmountIn(txs[n])]
           /\ ~ ReadMoves(n, p) =>
                 /\ PoolA(n) # p
                 /\ \A i \in DOMAIN Hops(txs[n]) :
                       ReplayPool(Hops(txs[n])[i], txs[n], fetched) # p
<1>1. /\ p \in Pools /\ p # NoPool
      /\ \A q \in fetched : q \in Pools /\ Protocol[q] # "Other"
  BY RegistryTyped DEF Shapes, PoolShape, TrackInv
<1>2. Readable(n) /\ Concerns(p, n) => \E q \in fetched : ClearSwap(q, n)
  BY DEF Clear
<1>3. \A q : ClearSwap(q, n) => /\ Readable(n) /\ txs[n].route[q] = ApproxAmountIn(txs[n])
                               /\ \A r : Moves(n, r) <=> r = q
  BY DEF ClearSwap, Moves, Readable
<1>4. CASE ReadMoves(n, p)
  <2>1. ClearSwap(p, n)
    BY <1>2, <1>3, <1>4 DEF ReadMoves, Concerns
  <2> QED  BY <1>1, <1>3, <1>4, <2>1, ClearSwapsArrive DEF SwapOf
<1>5. CASE Readable(n) /\ ~ Moves(n, p)
  <2>1. CASE Concerns(p, n)
    <3>1. PICK q \in fetched : ClearSwap(q, n)
      BY <1>2, <1>5, <2>1
    <3>2. q # p /\ q \in Pools /\ Protocol[q] # "Other"
      BY <1>1, <1>3, <1>5, <3>1
    <3>3. /\ PoolA(n) = q /\ DOMAIN Hops(txs[n]) = {1}
          /\ ReplayPool(Hops(txs[n])[1], txs[n], fetched) = q
      BY <3>1, <3>2, ClearSwapsArrive
    <3> QED  BY <1>5, <3>2, <3>3 DEF ReadMoves
  <2>2. CASE ~ Concerns(p, n)
    BY <1>1, <1>5, <2>2, OthersStayAway DEF ReadMoves
  <2> QED  BY <2>1, <2>2
<1>6. CASE ~ Readable(n)
  <2>1. Len(TokenPath(txs[n])) \in Nat
    <3>1. txs[n] \in TxShapes
      BY DEF Sequenced, Shapes, ChainShape, ChainHead
    <3> QED  BY <3>1, ShapesTyped DEF TokenPath, Action, DecodeSwapAction, Unknown
  <2>2. DOMAIN Hops(txs[n]) = {}
    BY <1>6, <2>1 DEF Readable, Hops
  <2>3. PoolA(n) = NoPool
    BY <1>6 DEF Readable, PoolA
  <2> QED  BY <1>1, <1>6, <2>2, <2>3 DEF ReadMoves
<1> QED  BY <1>4, <1>5, <1>6 DEF ReadMoves

LEMMA DiscardKeepsTracking ==
    ASSUME Shapes, Shapes', StreamInv, TrackInv, DrainDiscard
    PROVE  TrackInv'
<1>1. /\ TakeMessage /\ phase = "draining"
      /\ discarded' = discarded \cup {Head(feedChan)}
      /\ UNCHANGED <<txs, mem, cut, fetched, phase, count>>
  BY DEF DrainDiscard, poolVars
<1>2. count = 0 /\ Head(feedChan) \in Sequenced /\ Sequenced' = Sequenced
  BY <1>1, MessageTyped, ShapeFrames DEF TrackInv, TakeMessage
<1>3. ASSUME NEW p \in fetched, Clear(p)'
      PROVE  ~ (ReadMoves(Head(feedChan), p) /\ Head(feedChan) > cut[p])
  <2>1. \A n \in Sequenced' : Moves(n, p)' =>
           (n > cut'[p] => n \notin lost' \cup discarded')
    BY <1>3 DEF Clear, Undisturbed, Sequenced
  <2>2. \A n \in Sequenced : Moves(n, p) /\ n > cut[p] => n \notin discarded'
    BY <1>1, <1>2, <2>1 DEF Moves
  <2> QED  BY <1>1, <1>2, <2>2 DEF ReadMoves
<1> QED  BY <1>1, <1>2, <1>3, TakeKeepsTracking

LEMMA ReplayKeepsTracking ==
    ASSUME Shapes, Shapes', FetchInv, StreamInv, TrackInv, DrainReplay
    PROVE  TrackInv'
<1> DEFINE n      == Head(feedChan)
           hops   == Hops(txs[n])
           hit(p) == { i \in DOMAIN hops : ReplayPool(hops[i], txs[n], fetched) = p }
           times  == [p \in Pools |-> Cardinality(hit(p))]
<1>1. /\ TakeMessage /\ phase = "draining" /\ ApplyHops(n, times) /\ ~ Covered(n)
      /\ UNCHANGED <<txs, cut, fetched, phase, count, discarded>>
  BY DEF DrainReplay
<1>2. /\ count = 0 /\ feedChan # <<>> /\ n \in Sequenced /\ fetched \subseteq Pools
      /\ Len(TokenPath(txs[n])) \in Nat
  BY <1>1, MessageTyped DEF TrackInv, TakeMessage, Shapes, PoolShape
<1>3. \A p \in Pools : times[p] \in Nat
  BY <1>2, HitsCounted
<1>4. ASSUME NEW p \in fetched PROVE n > cut[p]
  <2>1. cut[p] + BlockOffset <= maxBlock /\ checkpoint = maxBlock
    BY <1>1 DEF FetchInv, CheckpointDominates, BlockAt
  <2>2. cut[p] \in Nat /\ maxBlock \in Nat /\ BlockOffset \in Nat /\ n \in Nat
    BY <1>2, ChainTyped DEF FetchInv, FetchTypes, Sequenced
  <2>3. ~ (n <= checkpoint)
    BY <1>1 DEF Covered
  <2> HIDE DEF n
  <2> QED  BY <2>1, <2>2, <2>3
<1>5. ASSUME NEW p \in fetched, Clear(p)
      PROVE  /\ ReadMoves(n, p) => mem'[p] = Append(mem[p], SwapOf(txs, p, n))
             /\ ~ ReadMoves(n, p) => mem'[p] = mem[p]
  <2>1. p \in Pools
    BY <1>2
  <2>2. CASE ReadMoves(n, p)
    <3>1. /\ DOMAIN hops = {1} /\ ReplayPool(hops[1], txs[n], fetched) = p
          /\ SwapOf(txs, p, n) = [tx |-> n, amount |-> ApproxAmountIn(txs[n])]
      BY <1>2, <1>5, <2>2, ClearPool
    <3>2. hit(p) = {1}
      BY <3>1
    <3>3. times[p] = 1
      <4> HIDE DEF hit
      <4> QED  BY <2>1, <3>2, FS_Singleton
    <3> HIDE DEF times, n
    <3> QED  BY <1>1, <2>1, <2>2, <3>1, <3>3, HopsOnce
  <2>3. CASE ~ ReadMoves(n, p)
    <3>1. hit(p) = {}
      BY <1>2, <1>5, <2>3, ClearPool
    <3>2. times[p] = 0
      <4> HIDE DEF hit
      <4> QED  BY <2>1, <3>1, FS_EmptySet
    <3> HIDE DEF times, n
    <3> QED  BY <1>1, <2>1, <2>3, <3>2, HopsOnce
  <2> QED  BY <2>2, <2>3
<1> HIDE DEF times
<1>6. \E counts : (\A p \in Pools : counts[p] \in Nat) /\ ApplyHops(n, counts)
  BY <1>1, <1>3
<1> QED  BY <1>1, <1>2, <1>4, <1>5, <1>6, TakeKeepsTracking

\* A live message the pools are not updated for.
LEMMA SkipKeepsTracking ==
    ASSUME Shapes, Shapes', StreamInv, TrackInv, EvaluateSkips \/ EvaluateFails
    PROVE  TrackInv'
<1> DEFINE n == Head(feedChan)
<1>1. /\ TakeMessage /\ phase = "live" /\ count' = count + 1
      /\ UNCHANGED <<txs, mem, cut, fetched, phase, discarded>>
  BY DEF EvaluateSkips, EvaluateFails, LiveMessage, poolVars
<1>2. n \in Sequenced /\ fetched \subseteq Pools
  BY <1>1, MessageTyped DEF TakeMessage, Shapes, PoolShape
<1>3. ASSUME NEW p \in fetched, Clear(p) PROVE ~ ReadMoves(n, p)
  <2> SUFFICES ASSUME ReadMoves(n, p) PROVE FALSE
    OBVIOUS
  <2>1. PoolA(n) = p /\ p # NoPool
    BY <1>2, <1>3, ClearPool, RegistryTyped
  <2>2. CASE EvaluateSkips
    BY <2>1, <2>2 DEF EvaluateSkips
  <2>3. CASE EvaluateFails
    <3>1. OptimizerFails /\ Counterparties(p) # {}
      BY <2>1, <2>3 DEF EvaluateFails
    <3> QED  BY <1>3, <3>1 DEF Clear, NeverFails
  <2> QED  BY <2>2, <2>3
<1> QED  BY <1>1, <1>2, <1>3, TakeKeepsTracking

\* A live message pool A is updated for.
LEMMA UpdateKeepsTracking ==
    ASSUME Shapes, Shapes', StreamInv, TrackInv, LiveMessage,
           UpdatePoolA(Head(feedChan), PoolA(Head(feedChan)))
    PROVE  TrackInv'
<1> DEFINE n     == Head(feedChan)
           times == [p \in Pools |-> IF p = PoolA(n) THEN 1 ELSE 0]
<1>1. /\ TakeMessage /\ phase = "live" /\ count' = count + 1 /\ ApplyHops(n, times)
      /\ UNCHANGED <<txs, cut, fetched, phase, discarded>>
  BY DEF LiveMessage, UpdatePoolA
<1>2. n \in Sequenced /\ fetched \subseteq Pools /\ Sequenced' = Sequenced
  BY <1>1, MessageTyped, ShapeFrames DEF TakeMessage, Shapes, PoolShape
<1>3. \A p \in Pools : times[p] \in Nat /\ times[p] = IF p = PoolA(n) THEN 1 ELSE 0
  OBVIOUS
<1>4. n \in TakenLive'
  BY <1>1, TakenLiveGrows
<1> HIDE DEF n, times
<1>5. ASSUME NEW p \in fetched, Clear(p), Clear(p)'
      PROVE  /\ ReadMoves(n, p) => n > cut[p] /\ mem'[p] = Append(mem[p], SwapOf(txs, p, n))
             /\ ~ ReadMoves(n, p) => mem'[p] = mem[p]
  <2>1. p \in Pools
    BY <1>2
  <2>2. CASE ReadMoves(n, p)
    <3>1. /\ PoolA(n) = p
          /\ SwapOf(txs, p, n) = [tx |-> n, amount |-> ApproxAmountIn(txs[n])]
      BY <1>2, <1>5, <2>2, ClearPool
    <3>2. mem'[p] = Append(mem[p], SwapOf(txs, p, n))
      BY <1>1, <1>3, <2>1, <3>1, HopsOnce
    <3>3. \A m \in Sequenced' : Moves(m, p)' => (m <= cut'[p] => m \notin TakenLive')
      BY <1>5 DEF Clear, Undisturbed, Sequenced
    <3>4. \A m \in Sequenced : Moves(m, p) => (m <= cut[p] => m \notin TakenLive')
      BY <1>1, <1>2, <3>3 DEF Moves
    <3>5. cut[p] \in Nat /\ n \in Nat
      BY <1>2, <2>1 DEF Shapes, ChainShape, PoolShape, Sequenced, ChainHead
    <3>6. n > cut[p]
      BY <1>2, <1>4, <2>2, <3>4, <3>5 DEF ReadMoves
    <3> QED  BY <2>2, <3>2, <3>6
  <2>3. CASE ~ ReadMoves(n, p)
    <3>1. PoolA(n) # p
      BY <1>2, <1>5, <2>3, ClearPool
    <3> QED  BY <1>1, <1>3, <2>1, <2>3, <3>1, HopsOnce
  <2> QED  BY <2>2, <2>3
<1>6. \E counts : (\A p \in Pools : counts[p] \in Nat) /\ ApplyHops(n, counts)
  BY <1>1, <1>3
<1> QED  BY <1>1, <1>2, <1>5, <1>6, TakeKeepsTracking DEF n

LEMMA InitTrack == Init => TrackInv
<1> SUFFICES ASSUME Init PROVE TrackInv
  OBVIOUS
<1>1. taken = <<>> /\ Len(taken) = 0 /\ count = 0 /\ fetched = {}
  BY DEF Init, InitPools
<1> QED  BY <1>1 DEF TrackInv

LEMMA NextTrack ==
    ASSUME Shapes, Shapes', FetchInv, StreamInv, TrackInv, [Next]_vars
    PROVE  TrackInv'
<1>1. ASSUME txs' = txs, mem' = mem, cut' = cut, fetched' = fetched,
             taken' = taken, count' = count, discarded' = discarded,
             lost \subseteq lost', repeated \subseteq repeated',
             phase' = "fetching" => phase = "fetching",
             phase' = "draining" => phase \in {"fetching", "draining"}
      PROVE  TrackInv'
  <2>1. Sequenced' = Sequenced
    BY <1>1, ShapeFrames
  <2> QED  BY <1>1, <2>1, TrackFrame
<1>2. CASE SequenceTx /\ UNCHANGED <<feedVars, poolVars, engineVars>>
  <2>1. PICK t \in TxShapes : txs' = Append(txs, t)
    BY <1>2 DEF SequenceTx
  <2>2. txs \in Seq(TxShapes) /\ Len(txs) \in Nat
    BY DEF Shapes, ChainShape
  <2>3. \A n \in Sequenced : txs'[n] = txs[n]
    BY <2>1, <2>2 DEF Sequenced, ChainHead
  <2>4. Sequenced \subseteq Sequenced'
    <3>1. Len(txs') = Len(txs) + 1
      BY <2>1, <2>2
    <3>2. 1 .. Len(txs) \subseteq 1 .. Len(txs')
      BY <2>2, <3>1
    <3> QED  BY <3>2 DEF Sequenced, ChainHead
  <2> QED
    BY <1>2, <2>3, <2>4, TrackFrame DEF feedVars, poolVars, engineVars
<1>3. CASE FeedNext /\ UNCHANGED <<txs, poolVars, engineVars>>
  <2>1. lost \subseteq lost' /\ repeated \subseteq repeated'
    BY <1>3 DEF FeedNext, Connect, Disconnect, ProcessMessage, GarbledFrame, Forward
  <2>2. /\ txs' = txs /\ mem' = mem /\ cut' = cut /\ fetched' = fetched
        /\ taken' = taken /\ count' = count /\ discarded' = discarded /\ phase' = phase
    BY <1>3 DEF poolVars, engineVars
  <2> QED  BY <1>1, <2>1, <2>2
<1>4. CASE FetchStep
  <2>1. UNCHANGED <<txs, feedVars, engineVars>>
    BY <1>4 DEF FetchStep
  <2>2. CASE StoreReserves
    BY <2>1, <2>2, StoreKeepsTracking
  <2>3. CASE SkipPool \/ CallReserves \/ FetchFails
    <3>1. mem' = mem /\ cut' = cut /\ fetched' = fetched
      BY <2>3 DEF SkipPool, CallReserves, FetchFails
    <3>2. /\ txs' = txs /\ lost' = lost /\ repeated' = repeated /\ phase' = phase
          /\ taken' = taken /\ count' = count /\ discarded' = discarded
      BY <2>1 DEF feedVars, engineVars
    <3> QED  BY <1>1, <3>1, <3>2
  <2> QED  BY <1>4, <2>2, <2>3 DEF FetchStep, FetchNext
<1>5. CASE FetchDone \/ DrainDone \/ LeaveLoop \/ TakeSignal \/ UNCHANGED vars
  <2>1. /\ txs' = txs /\ mem' = mem /\ cut' = cut /\ fetched' = fetched
        /\ taken' = taken /\ count' = count /\ discarded' = discarded
        /\ lost' = lost /\ repeated' = repeated
    BY <1>5
       DEF FetchDone, DrainDone, LeaveLoop, TakeSignal, vars, feedVars, poolVars, engineVars
  <2>2. /\ phase' = "fetching" => phase = "fetching"
        /\ phase' = "draining" => phase \in {"fetching", "draining"}
    BY <1>5 DEF FetchDone, DrainDone, LeaveLoop, TakeSignal, vars, engineVars
  <2> QED  BY <1>1, <2>1, <2>2
<1>6. CASE DrainDiscard
  BY <1>6, DiscardKeepsTracking
<1>7. CASE DrainReplay
  BY <1>7, ReplayKeepsTracking
<1>8. CASE EvaluateSkips \/ EvaluateFails
  BY <1>8, SkipKeepsTracking
<1>9. CASE EvaluateQuietly
  BY <1>9, UpdateKeepsTracking DEF EvaluateQuietly
<1>10. CASE \E signal \in EngineSignals : EvaluateSignals(signal)
  BY <1>10, UpdateKeepsTracking DEF EvaluateSignals
<1> QED
  BY <1>2, <1>3, <1>4, <1>5, <1>6, <1>7, <1>8, <1>9, <1>10
     DEF Next, EngineStep, EngineAlone

\* The bot's picture of a pool is the chain's, for any registry, transactions,
\* interleaving of blocks, fetches and feed, and any faults: once bootstrap has
\* fetched, a pool whose swaps the code can understand and none of whose swaps
\* a fault took away or doubled reflects exactly the swaps up to the newest
\* message handled, each once, with its amount and in the chain's order.
THEOREM TracksHolds == Spec => []Tracks
<1>1. Shapes /\ TrackInv => Tracks
  <2> SUFFICES ASSUME Shapes, TrackInv, NEW p \in fetched, OnlyClearSwaps(p), Undisturbed(p)
               PROVE  mem[p] = ChainHist(p, Later(cut[p], TakenMax))
    BY DEF Tracks
  <2>1. /\ ChainHead \in Nat /\ TakenMax \in 0 .. ChainHead
        /\ p \in Pools /\ cut[p] \in 0 .. ChainHead
    <3>1. TakenMax \in 0 .. ChainHead
      BY TakenMaxIs
    <3>2. ChainHead \in Nat
      BY DEF Shapes, ChainShape, ChainHead
    <3> QED  BY <3>1, <3>2 DEF Shapes, PoolShape
  <2>2. \A n \in Sequenced : Concerns(p, n) => /\ \E q \in fetched : ClearSwap(q, n)
                                             /\ Readable(n)
    BY DEF OnlyClearSwaps, ClearSwap, Readable, Sequenced
  <2>3. \A n \in Sequenced : Moves(n, p) => Readable(n)
    BY <2>2 DEF Concerns
  <2>4. Tracked(p)
    BY <2>2, <2>3 DEF TrackInv, Clear, OnlyClearSwaps
  <2> DEFINE k == Later(cut[p], TakenMax)
  <2>5. k \in Nat /\ k <= ChainHead
    BY <2>1 DEF Later
  <2> HIDE DEF k
  <2>6. Swaps(ReadChain, p, k) = ChainHist(p, k)
    BY <2>1, <2>3, <2>5, ReadAsIs DEF Sequenced
  <2> QED  BY <2>4, <2>6 DEF Tracked, k
<1>2. Init => Shapes /\ FetchInv /\ StreamInv /\ TrackInv
  BY InitShapes, InitFetchInv, InitStream, InitTrack
<1>3. Shapes /\ FetchInv /\ StreamInv /\ TrackInv /\ [Next]_vars
         => (Shapes /\ FetchInv /\ StreamInv /\ TrackInv)'
  BY NextShapes, NextFetchInv, NextStream, NextTrack
<1> QED  BY <1>1, <1>2, <1>3, PTL DEF Spec

=============================================================================
