------------------------- MODULE ArbitrageEngineProofs -------------------------
(***************************************************************************)
(* Bootstrap safety for any registry, chain, feed behaviour and RPC        *)
(* failures: the checkpoint dominates every snapshot.                      *)
(*                                                                         *)
(* CheckpointDominates is not inductive: StoreReserves stores a snapshot   *)
(* answered in earlier steps under a block number read now.  FetchOrder    *)
(* adds what relates the two, that the chain only grows between them, and  *)
(* that fetching is over once the checkpoint is taken.                     *)
(***************************************************************************)
EXTENDS ArbitrageEngine, FiniteSetTheorems, TLAPS

\* The types the argument needs.
FetchTypes ==
    /\ txs \in Seq(TxShapes)
    /\ maxBlock \in Nat
    /\ cut \in [Pools -> Nat]
    /\ fetched \subseteq Pools
    /\ toFetch \in Seq(Pools)

\* An answered call read a block that exists; a checkpoint is taken only when
\* no pool is left to fetch.
FetchOrder ==
    /\ \A c \in DOMAIN reading : reading[c] \in 0 .. ChainHead
    /\ phase # "fetching" => toFetch = <<>>

FetchInv == FetchTypes /\ FetchOrder /\ CheckpointDominates

fetchState == <<txs, maxBlock, reading, cut, fetched, toFetch, phase, checkpoint>>

-----------------------------------------------------------------------------
\* A step that touches neither the chain nor the fetch keeps the invariant.
LEMMA FetchFrame ==
    ASSUME FetchInv, UNCHANGED fetchState
    PROVE  FetchInv'
BY DEF FetchInv, FetchTypes, FetchOrder, CheckpointDominates, fetchState,
       ChainHead, BlockAt

\* The calls of a fetched pool have all been answered, at one or two positions
\* of the chain: the oldest is one of them.
LEMMA OldestRead ==
    ASSUME NEW p, CallsOf(p) # {}, DOMAIN reading = CallsOf(p),
           ChainHead \in Nat, \A c \in DOMAIN reading : reading[c] \in 0 .. ChainHead
    PROVE  Oldest \in 0 .. ChainHead
<1> DEFINE Answers == { reading[c] : c \in DOMAIN reading }
<1>1. \/ DOMAIN reading = {"getReserves"}
      \/ DOMAIN reading = {"slot0", "liquidity"}
  BY DEF CallsOf
<1>2. \E n \in Answers : \A c \in DOMAIN reading : n <= reading[c]
  <2>1. CASE DOMAIN reading = {"getReserves"}
    <3>1. reading["getReserves"] \in Answers
      BY <2>1
    <3> QED  BY <2>1, <3>1
  <2>2. CASE DOMAIN reading = {"slot0", "liquidity"}
    <3>1. reading["slot0"] \in Answers /\ reading["liquidity"] \in Answers
      BY <2>2
    <3>2. reading["slot0"] <= reading["liquidity"] \/ reading["liquidity"] <= reading["slot0"]
      BY <2>2
    <3> QED  BY <2>2, <3>1, <3>2
  <2> QED  BY <1>1, <2>1, <2>2
<1>3. Oldest \in Answers
  BY <1>2 DEF Oldest
<1> QED  BY <1>3

\* The chain grows: what was read stays behind its head.
LEMMA SequenceKeepsFetch ==
    ASSUME FetchInv, SequenceTx, UNCHANGED <<feedVars, poolVars, engineVars>>
    PROVE  FetchInv'
<1>1. UNCHANGED <<maxBlock, reading, cut, fetched, toFetch, phase, checkpoint>>
  BY DEF poolVars, engineVars
<1>2. PICK t \in TxShapes : txs' = Append(txs, t)
  BY DEF SequenceTx
<1>3. txs' \in Seq(TxShapes) /\ Len(txs) \in Nat /\ Len(txs') = Len(txs) + 1
  BY <1>2 DEF FetchInv, FetchTypes
<1>4. FetchTypes'
  BY <1>1, <1>3 DEF FetchInv, FetchTypes
<1>5. FetchOrder'
  BY <1>1, <1>3 DEF FetchInv, FetchOrder, ChainHead
<1>6. CheckpointDominates'
  BY <1>1 DEF FetchInv, CheckpointDominates, BlockAt
<1> QED  BY <1>4, <1>5, <1>6 DEF FetchInv

\* One step of the sequential fetch.
LEMMA FetchKeepsFetch ==
    ASSUME FetchInv, FetchStep
    PROVE  FetchInv'
<1> USE DEF FetchInv, FetchTypes
<1>1. UNCHANGED <<txs, phase, checkpoint>>
  BY DEF FetchStep, engineVars
<1>2. Len(txs) \in Nat /\ ChainHead' = ChainHead /\ ChainHead = Len(txs)
  BY <1>1 DEF ChainHead
<1>3. ASSUME toFetch # <<>>
      PROVE  phase = "fetching" /\ Head(toFetch) \in Pools
             /\ Tail(toFetch) \in Seq(Pools)
  BY <1>3 DEF FetchOrder
<1>4. CASE SkipPool
  BY <1>1, <1>2, <1>3, <1>4 DEF SkipPool, FetchOrder, CheckpointDominates, BlockAt
<1>5. CASE CallReserves
  <2>1. /\ toFetch # <<>>
        /\ UNCHANGED <<toFetch, maxBlock, fetched, cut>>
    BY <1>5 DEF CallReserves
  <2>2. PICK call \in CallsOf(Head(toFetch)) \ DOMAIN reading :
           reading' = [c \in DOMAIN reading \cup {call} |->
                          IF c = call THEN ChainHead ELSE reading[c]]
    BY <1>5 DEF CallReserves
  <2>3. \A c \in DOMAIN reading' : reading'[c] \in 0 .. ChainHead'
    BY <1>2, <2>2 DEF FetchOrder
  <2> QED
    BY <1>1, <1>3, <2>1, <2>3 DEF FetchOrder, CheckpointDominates, BlockAt
<1>6. CASE StoreReserves
  <2>1. /\ toFetch # <<>>
        /\ CallsOf(Head(toFetch)) # {}
        /\ DOMAIN reading = CallsOf(Head(toFetch))
    BY <1>6 DEF StoreReserves
  <2>2. phase = "fetching" /\ Head(toFetch) \in Pools /\ Tail(toFetch) \in Seq(Pools)
    BY <1>3, <2>1
  <2>3. Oldest \in 0 .. Len(txs)
    BY <1>2, <2>1, OldestRead DEF FetchOrder
  <2>4. /\ maxBlock' \in Nat
        /\ maxBlock' >= BlockAt(Len(txs))
        /\ maxBlock' >= maxBlock
    BY <1>2, <1>6, ChainTyped DEF StoreReserves, Later, BlockAt
  <2>5. /\ cut' = [cut EXCEPT ![Head(toFetch)] = Oldest]
        /\ fetched' = fetched \cup {Head(toFetch)}
        /\ toFetch' = Tail(toFetch)
        /\ reading' = NoAnswers
    BY <1>6 DEF StoreReserves
  <2>6. FetchTypes'
    BY <1>1, <2>2, <2>3, <2>4, <2>5
  <2>7. FetchOrder'
    BY <1>1, <2>2, <2>5 DEF FetchOrder, NoAnswers
  <2>8. \A p \in fetched' : cut'[p] + BlockOffset <= maxBlock'
    BY <1>2, <2>2, <2>3, <2>4, <2>5, ChainTyped DEF CheckpointDominates, BlockAt
  <2>9. CheckpointDominates'
    BY <1>1, <2>2, <2>8 DEF CheckpointDominates, BlockAt
  <2> QED  BY <2>6, <2>7, <2>9
<1>7. CASE FetchFails
  BY <1>1, <1>2, <1>3, <1>7
     DEF FetchFails, FetchOrder, NoAnswers, CheckpointDominates, BlockAt
<1> QED  BY <1>4, <1>5, <1>6, <1>7 DEF FetchStep, FetchNext

\* The engine's own steps: only FetchDone concerns the fetch, and it takes
\* the largest block seen as the checkpoint.
LEMMA EngineKeepsFetch ==
    ASSUME FetchInv, EngineStep
    PROVE  FetchInv'
<1> USE DEF FetchInv, FetchTypes, poolVars, TakeMessage, ApplyHops
<1>1. CASE FetchDone
  BY <1>1 DEF FetchDone, FetchOrder, CheckpointDominates, ChainHead, BlockAt
<1>2. CASE DrainDiscard \/ DrainReplay
  BY <1>2, FetchFrame DEF DrainDiscard, DrainReplay, fetchState
<1>3. CASE DrainDone
  BY <1>3 DEF DrainDone, FetchOrder, CheckpointDominates, ChainHead, BlockAt
<1>4. CASE EvaluateSkips \/ EvaluateFails \/ EvaluateQuietly
  BY <1>4, FetchFrame
     DEF EvaluateSkips, EvaluateFails, EvaluateQuietly, LiveMessage, UpdatePoolA, fetchState
<1>5. CASE \E signal \in EngineSignals : EvaluateSignals(signal)
  BY <1>5, FetchFrame DEF EvaluateSignals, LiveMessage, UpdatePoolA, fetchState
<1>6. CASE LeaveLoop
  BY <1>6 DEF LeaveLoop, FetchOrder, CheckpointDominates, ChainHead, BlockAt
<1> QED  BY <1>1, <1>2, <1>3, <1>4, <1>5, <1>6 DEF EngineStep, EngineAlone

-----------------------------------------------------------------------------
LEMMA InitFetchInv == Init => FetchInv
BY RegistryOrdered
   DEF Init, InitPools, NoAnswers, FetchInv, FetchTypes, FetchOrder, CheckpointDominates

LEMMA NextFetchInv == FetchInv /\ [Next]_vars => FetchInv'
<1> SUFFICES ASSUME FetchInv, [Next]_vars PROVE FetchInv'
  OBVIOUS
<1>1. CASE SequenceTx /\ UNCHANGED <<feedVars, poolVars, engineVars>>
  BY <1>1, SequenceKeepsFetch
<1>2. CASE FeedNext /\ UNCHANGED <<txs, poolVars, engineVars>>
  BY <1>2, FetchFrame DEF fetchState, poolVars, engineVars
<1>3. CASE FetchStep
  BY <1>3, FetchKeepsFetch
<1>4. CASE EngineStep
  BY <1>4, EngineKeepsFetch
<1>5. CASE TakeSignal
  BY <1>5, FetchFrame DEF TakeSignal, fetchState, poolVars
<1>6. CASE UNCHANGED vars
  BY <1>6, FetchFrame DEF vars, fetchState, poolVars, engineVars
<1> QED  BY <1>1, <1>2, <1>3, <1>4, <1>5, <1>6 DEF Next

\* Whatever blocks appear during fetch_all_reserves and whichever fetches
\* fail, the block number bootstrap compares feed messages with is no smaller
\* than the block of any reserves it stored: what it replays is in none of
\* them.
THEOREM CheckpointDominatesHolds == Spec => []CheckpointDominates
<1>1. FetchInv => CheckpointDominates
  BY DEF FetchInv
<1> QED  BY <1>1, InitFetchInv, NextFetchInv, PTL DEF Spec

-----------------------------------------------------------------------------
(* The live loop's limit.                                                  *)

\* The loop counts one message at a time and compares after each, so it never
\* passes the limit; it is left only there.
CountInv ==
    /\ count \in Nat
    /\ MaxTransactions # Unlimited => count <= MaxTransactions
    /\ phase = "exited" => AtLimit

LEMMA CountSteps ==
    ASSUME MaxTransactions # 0, CountInv, [Next]_vars
    PROVE  CountInv'
<1> USE EngineTyped DEF CountInv, AtLimit
<1>1. CASE UNCHANGED <<phase, count>>
  BY <1>1
<1>2. CASE LiveMessage
  BY <1>2 DEF LiveMessage
<1>3. CASE FetchDone \/ DrainDone \/ LeaveLoop
  BY <1>3 DEF FetchDone, DrainDone, LeaveLoop
<1>4. CASE EvaluateSkips \/ EvaluateFails \/ EvaluateQuietly
  BY <1>2, <1>4 DEF EvaluateSkips, EvaluateFails, EvaluateQuietly
<1>5. CASE \E signal \in EngineSignals : EvaluateSignals(signal)
  BY <1>2, <1>5 DEF EvaluateSignals
<1>6. CASE DrainDiscard \/ DrainReplay \/ TakeSignal
  BY <1>1, <1>6 DEF DrainDiscard, DrainReplay, TakeSignal
<1>7. CASE \/ SequenceTx /\ UNCHANGED <<feedVars, poolVars, engineVars>>
           \/ FeedNext /\ UNCHANGED <<txs, poolVars, engineVars>>
           \/ FetchStep
  BY <1>1, <1>7 DEF FetchStep, engineVars
<1>8. CASE UNCHANGED vars
  BY <1>1, <1>8 DEF vars, engineVars
<1> QED
  BY <1>3, <1>4, <1>5, <1>6, <1>7, <1>8 DEF Next, EngineStep, EngineAlone

\* run(config, Some(n)) with n of at least one: the live loop of
\* src/engine/mod.rs ends having handled exactly n messages, whatever they
\* were and however evaluate answered.
THEOREM ExactlyNHolds ==
    ASSUME MaxTransactions # 0
    PROVE  Spec => []ExactlyN
<1>1. Init => CountInv
  BY EngineTyped DEF Init, CountInv
<1>2. CountInv /\ [Next]_vars => CountInv'
  BY CountSteps
<1>3. CountInv => ExactlyN
  BY EngineTyped DEF CountInv, AtLimit, ExactlyN
<1> QED  BY <1>1, <1>2, <1>3, PTL DEF Spec

-----------------------------------------------------------------------------
(* Pools that were never fetched.                                          *)
(*                                                                         *)
(* UnfetchedInert is inductive once the domain of mem is known: a pool is  *)
(* changed or signalled only if a simulation or the optimizer saw reserves *)
(* in it, and only a completed fetch gives it any.                         *)

InertInv ==
    /\ DOMAIN mem = Pools
    /\ fetched \subseteq Pools
    /\ \A p \in Pools \ fetched : mem[p] = <<>>
    /\ execChan \in Seq(EngineSignals)
    /\ \A i \in 1 .. Len(execChan) :
          execChan[i].poolA \in fetched /\ execChan[i].poolB \in fetched

\* A scan answers a pool it accepts, or None.
LEMMA FirstIsOne ==
    ASSUME NEW pools \in SUBSET Pools
    PROVE  First[pools] \in pools \cup {NoPool}
BY DEF First

\* find_matching_pool and simulate_user_swap, and apply_swap_to_lpm, end at a
\* pool with reserves; so does the choice of the counterparties.
LEMMA RoutedIsFetched ==
    ASSUME NEW n
    PROVE  /\ PoolA(n) # NoPool => PoolA(n) \in fetched
           /\ \A hop : ReplayPool(hop, txs[n], fetched) \in fetched \cup {NoPool}
           /\ \A a : Counterparties(a) \subseteq fetched
<1>1. PoolA(n) # NoPool => PoolA(n) \in fetched
  BY DEF PoolA, Simulates
<1>2. ASSUME NEW hop
      PROVE  ReplayPool(hop, txs[n], fetched) \in fetched \cup {NoPool}
  <2> DEFINE accepted == { p \in PoolsOf(hop) : Simulates(p, txs[n], fetched) }
  <2>1. First[accepted] \in accepted \cup {NoPool}
    BY FirstIsOne DEF PoolsOf, TokenGraph
  <2>2. accepted \subseteq fetched
    BY DEF Simulates
  <2> QED  BY <2>1, <2>2 DEF ReplayPool
<1>3. ASSUME NEW a PROVE Counterparties(a) \subseteq fetched
  BY DEF Counterparties
<1> QED  BY <1>1, <1>2, <1>3

\* A message that names fetched pools only leaves the others as they were.
LEMMA HopsKeepInert ==
    ASSUME InertInv, NEW n, NEW times,
           \A p \in Pools \ fetched : times[p] = 0,
           ApplyHops(n, times)
    PROVE  DOMAIN mem' = Pools /\ \A p \in Pools \ fetched : mem'[p] = <<>>
<1>1. DOMAIN mem' = Pools
  BY DEF ApplyHops
<1>2. ASSUME NEW p \in Pools \ fetched PROVE mem'[p] = <<>>
  <2> DEFINE entry == [tx |-> n, amount |-> ApproxAmountIn(txs[n])]
  <2>1. mem'[p] = mem[p] \o [i \in 1 .. times[p] |-> entry]
    BY DEF ApplyHops
  <2>2. mem[p] = <<>> /\ times[p] = 0
    BY DEF InertInv
  <2> HIDE DEF entry
  <2>3. [i \in 1 .. 0 |-> entry] = <<>>
    OBVIOUS
  <2> QED  BY <2>1, <2>2, <2>3
<1> QED  BY <1>1, <1>2

\* The steps that change neither a pool nor the signal channel.
LEMMA InertFrame ==
    ASSUME InertInv, UNCHANGED <<mem, fetched, execChan>>
    PROVE  InertInv'
BY DEF InertInv, EngineSignals

\* A fetch gives reserves to the pool it fetched.
LEMMA FetchKeepsInert ==
    ASSUME InertInv, toFetch \in Seq(Pools), FetchNext, UNCHANGED execChan
    PROVE  InertInv'
<1>1. CASE SkipPool \/ CallReserves \/ FetchFails
  BY <1>1, InertFrame DEF SkipPool, CallReserves, FetchFails
<1>2. CASE StoreReserves
  <2>1. /\ toFetch # <<>>
        /\ mem' = [mem EXCEPT ![Head(toFetch)] = Snapshot(Head(toFetch))]
        /\ fetched' = fetched \cup {Head(toFetch)}
    BY <1>2 DEF StoreReserves
  <2>2. Head(toFetch) \in Pools
    BY <2>1
  <2> QED  BY <2>1, <2>2 DEF InertInv, EngineSignals
<1> QED  BY <1>1, <1>2 DEF FetchNext

LEMMA ReplayKeepsInert ==
    ASSUME InertInv, DrainReplay
    PROVE  InertInv'
<1> DEFINE n        == Head(feedChan)
           hops     == Hops(txs[n])
           hit(p)   == { i \in DOMAIN hops : ReplayPool(hops[i], txs[n], fetched) = p }
           times    == [p \in Pools |-> Cardinality(hit(p))]
<1>1. ApplyHops(n, times) /\ UNCHANGED <<fetched, execChan>>
  BY DEF DrainReplay
<1>2. ASSUME NEW p \in Pools \ fetched PROVE times[p] = 0
  <2>1. p # NoPool
    BY RegistryTyped
  <2>2. \A hop : ReplayPool(hop, txs[n], fetched) # p
    BY <2>1, RoutedIsFetched
  <2>3. hit(p) = {}
    BY <2>2
  <2> QED  BY <2>3, FS_EmptySet
<1> HIDE DEF times, n
<1>3. DOMAIN mem' = Pools /\ \A p \in Pools \ fetched : mem'[p] = <<>>
  BY <1>1, <1>2, HopsKeepInert
<1> QED  BY <1>1, <1>3 DEF InertInv, EngineSignals

\* Step 6 of evaluate, for a pool the swap was simulated on.
LEMMA UpdateKeepsInert ==
    ASSUME InertInv, NEW n, PoolA(n) # NoPool, UpdatePoolA(n, PoolA(n))
    PROVE  /\ DOMAIN mem' = Pools /\ fetched' = fetched
           /\ \A p \in Pools \ fetched : mem'[p] = <<>>
<1> DEFINE a     == PoolA(n)
           times == [p \in Pools |-> IF p = a THEN 1 ELSE 0]
<1>1. ApplyHops(n, times) /\ fetched' = fetched
  BY DEF UpdatePoolA
<1>2. a \in fetched
  BY RoutedIsFetched
<1> HIDE DEF a
<1>3. \A p \in Pools \ fetched : times[p] = 0
  BY <1>2
<1> HIDE DEF times
<1> QED  BY <1>1, <1>3, HopsKeepInert

LEMMA SignalKeepsInert ==
    ASSUME InertInv, NEW signal \in EngineSignals, EvaluateSignals(signal)
    PROVE  InertInv'
<1>1. /\ signal.poolA = PoolA(signal.trigger)
      /\ PoolA(signal.trigger) # NoPool
      /\ signal.poolB \in Counterparties(signal.poolA)
      /\ UpdatePoolA(signal.trigger, PoolA(signal.trigger))
      /\ SendSignal(signal)
  BY DEF EvaluateSignals
<1>2. signal.poolA \in fetched /\ signal.poolB \in fetched
  BY <1>1, RoutedIsFetched
<1>3. /\ DOMAIN mem' = Pools /\ fetched' = fetched
      /\ \A p \in Pools \ fetched : mem'[p] = <<>>
  BY <1>1, UpdateKeepsInert
<1>4. /\ execChan' \in Seq(EngineSignals)
      /\ \A i \in 1 .. Len(execChan') :
            execChan'[i].poolA \in fetched /\ execChan'[i].poolB \in fetched
  <2>1. CASE execChan' = Append(execChan, signal)
    <3>1. /\ execChan' \in Seq(EngineSignals)
          /\ Len(execChan') = Len(execChan) + 1 /\ Len(execChan) \in Nat
          /\ \A i \in 1 .. Len(execChan) : execChan'[i] = execChan[i]
          /\ execChan'[Len(execChan) + 1] = signal
      BY <2>1 DEF InertInv
    <3> QED  BY <1>2, <3>1 DEF InertInv
  <2>2. CASE UNCHANGED execChan
    BY <2>2 DEF InertInv
  <2> QED  BY <1>1, <2>1, <2>2 DEF SendSignal
<1> QED  BY <1>3, <1>4 DEF InertInv, EngineSignals

\* The consumer takes the oldest signal.
LEMMA TakeKeepsInert ==
    ASSUME InertInv, TakeSignal
    PROVE  InertInv'
<1>1. execChan # <<>> /\ execChan' = Tail(execChan) /\ UNCHANGED <<mem, fetched>>
  BY DEF TakeSignal, poolVars
<1>2. /\ execChan' \in Seq(EngineSignals)
      /\ Len(execChan') = Len(execChan) - 1 /\ Len(execChan) \in Nat
      /\ \A i \in 1 .. Len(execChan') : execChan'[i] = execChan[i + 1]
  BY <1>1 DEF InertInv
<1> QED  BY <1>1, <1>2 DEF InertInv, EngineSignals

LEMMA InitInertInv == Init => InertInv
BY DEF Init, InitPools, InertInv

LEMMA NextInertInv == FetchInv /\ InertInv /\ [Next]_vars => InertInv'
<1> SUFFICES ASSUME FetchInv, InertInv, [Next]_vars PROVE InertInv'
  OBVIOUS
<1>1. CASE UNCHANGED <<poolVars, execChan>>
  BY <1>1, InertFrame DEF poolVars
<1>2. CASE FetchStep
  BY <1>2, FetchKeepsInert DEF FetchStep, engineVars, FetchInv, FetchTypes
<1>3. CASE DrainReplay
  BY <1>3, ReplayKeepsInert
<1>4. CASE EvaluateQuietly
  <2>1. /\ DOMAIN mem' = Pools /\ fetched' = fetched
        /\ \A p \in Pools \ fetched : mem'[p] = <<>>
    BY <1>4, UpdateKeepsInert DEF EvaluateQuietly
  <2> QED  BY <1>4, <2>1 DEF EvaluateQuietly, InertInv, EngineSignals
<1>5. CASE \E signal \in EngineSignals : EvaluateSignals(signal)
  BY <1>5, SignalKeepsInert
<1>6. CASE TakeSignal
  BY <1>6, TakeKeepsInert
<1>7. CASE FetchDone \/ DrainDiscard \/ DrainDone \/ EvaluateSkips \/ EvaluateFails
           \/ LeaveLoop
  BY <1>1, <1>7
     DEF FetchDone, DrainDiscard, DrainDone, EvaluateSkips, EvaluateFails, LeaveLoop
<1>8. CASE \/ SequenceTx /\ UNCHANGED <<feedVars, poolVars, engineVars>>
           \/ FeedNext /\ UNCHANGED <<txs, poolVars, engineVars>>
           \/ UNCHANGED vars
  BY <1>1, <1>8 DEF engineVars, vars
<1> QED
  BY <1>2, <1>3, <1>4, <1>5, <1>6, <1>7, <1>8 DEF Next, EngineStep, EngineAlone

\* A pool whose fetch failed is never changed by a feed message and never part
\* of a signal, for any registry, feed and failures: the zero-reserve guards of
\* src/pool/mod.rs and src/engine/optimizer.rs keep it out.
THEOREM UnfetchedInertHolds == Spec => []UnfetchedInert
<1>1. InertInv => UnfetchedInert
  BY DEF InertInv, UnfetchedInert, EngineSignals
<1>2. Init => FetchInv /\ InertInv
  BY InitFetchInv, InitInertInv
<1>3. FetchInv /\ InertInv /\ [Next]_vars => (FetchInv /\ InertInv)'
  BY NextFetchInv, NextInertInv
<1> QED  BY <1>1, <1>2, <1>3, PTL DEF Spec

=============================================================================
