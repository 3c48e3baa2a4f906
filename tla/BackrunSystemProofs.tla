-------------------------- MODULE BackrunSystemProofs --------------------------
(***************************************************************************)
(* The process of src/lib.rs implements the specification of each of its   *)
(* halves, for any registry, transactions, channel capacities and faults:  *)
(* what is proved of the engine alone, and of the manager alone, holds of  *)
(* the two running together.                                               *)
(***************************************************************************)
EXTENDS BackrunSystem, TrackingProofs

-----------------------------------------------------------------------------
(* The engine's half.                                                      *)

LEMMA SystemStepIsEngineStep == [SystemNext]_systemVars => [Next]_vars
<1> SUFFICES ASSUME [SystemNext]_systemVars PROVE [Next]_vars
  OBVIOUS
<1>1. CASE UserSwap
  BY <1>1 DEF UserSwap, Next
<1>2. CASE Listen
  BY <1>2 DEF Listen, Next
<1>3. CASE Fetch
  BY <1>3 DEF Fetch, Next
<1>4. CASE EngineMoves
  <2>1. CASE EngineAlone
    BY <2>1 DEF EngineStep, Next
  <2>2. ASSUME NEW s \in TradeSignals, Signal(s)
        PROVE  Next
    BY <2>2 DEF TradeSignals, Signal, EngineStep, Next
  <2>3. CASE Leave
    BY <2>3 DEF Leave, EngineStep, Next
  <2> QED  BY <1>4, <2>1, <2>2, <2>3 DEF EngineMoves
<1>5. CASE Receive
  BY <1>5 DEF Receive, Next
<1>6. CASE ManagerExit
  BY <1>6 DEF ManagerExit
<1>7. ASSUME NEW s \in TradeSignals, FireMoves(s) \/ CallFails(s) \/ Refused(s)
      PROVE  UNCHANGED vars
  BY <1>7 DEF FireMoves, CallFails, Refused
<1>8. ASSUME NEW s \in TradeSignals, Land(s)
      PROVE  Next
  BY <1>8 DEF Land, Next
<1>9. CASE UNCHANGED systemVars
  BY <1>9 DEF systemVars
<1> QED
  BY <1>1, <1>2, <1>3, <1>4, <1>5, <1>6, <1>7, <1>8, <1>9 DEF SystemNext

\* Whatever the manager, the wallet and the sequencer do, the engine of the
\* running process behaves as ArbitrageEngine says; the bot's own trades are
\* transactions of the chain it watches.
THEOREM SystemRunsEngine == SystemSpec => EngineSpec
<1>1. SystemInit => Init
  BY DEF SystemInit
<1> QED
  BY <1>1, SystemStepIsEngineStep, PTL DEF SystemSpec, EngineSpec, Spec

\* The bootstrap of the running process takes a checkpoint that dominates
\* every snapshot it stored.
THEOREM SystemCheckpointDominates == SystemSpec => []CheckpointDominates
<1> QED  BY SystemRunsEngine, CheckpointDominatesHolds, PTL DEF EngineSpec

-----------------------------------------------------------------------------
(* The manager's half.                                                     *)

\* The engine's steps that leave the channel and its sender alone.
LEMMA EngineLeavesChannel ==
    ASSUME \/ FetchStep
           \/ EngineAlone
           \/ FeedNext /\ UNCHANGED <<txs, poolVars, engineVars>>
           \/ SequenceTx /\ UNCHANGED <<feedVars, poolVars, engineVars>>
    PROVE  execChan' = execChan /\ (phase # "exited")' = (phase # "exited")
<1>1. CASE FetchStep
  BY <1>1 DEF FetchStep, engineVars
<1>2. CASE FetchDone \/ DrainDiscard \/ DrainReplay \/ DrainDone
  BY <1>2 DEF FetchDone, DrainDiscard, DrainReplay, DrainDone
<1>3. CASE EvaluateSkips \/ EvaluateFails \/ EvaluateQuietly
  BY <1>3 DEF EvaluateSkips, EvaluateFails, EvaluateQuietly, LiveMessage
<1>4. CASE \/ FeedNext /\ UNCHANGED <<txs, poolVars, engineVars>>
           \/ SequenceTx /\ UNCHANGED <<feedVars, poolVars, engineVars>>
  BY <1>4 DEF engineVars
<1> QED  BY <1>1, <1>2, <1>3, <1>4 DEF EngineAlone

\* A step that leaves the channel and the manager's variables alone is a
\* stutter of the manager.
LEMMA ManagerStutters ==
    ASSUME execChan' = execChan, (phase # "exited")' = (phase # "exited"),
           UNCHANGED tradeVars
    PROVE  UNCHANGED Exec!vars
BY DEF Exec!vars, tradeVars

LEMMA SystemStepIsManagerStep == [SystemNext]_systemVars => [Exec!Next]_(Exec!vars)
<1> SUFFICES ASSUME [SystemNext]_systemVars PROVE [Exec!Next]_(Exec!vars)
  OBVIOUS
<1>1. CASE UserSwap \/ Listen \/ Fetch
  <2>1. UNCHANGED tradeVars
    BY <1>1 DEF UserSwap, Listen, Fetch
  <2>2. execChan' = execChan /\ (phase # "exited")' = (phase # "exited")
    BY <1>1, EngineLeavesChannel DEF UserSwap, Listen, Fetch
  <2> QED  BY <2>1, <2>2, ManagerStutters
<1>2. CASE EngineMoves
  <2>1. CASE EngineAlone /\ UNCHANGED <<tradeVars, position>>
    <3>1. execChan' = execChan /\ (phase # "exited")' = (phase # "exited")
      BY <2>1, EngineLeavesChannel
    <3> QED  BY <2>1, <3>1, ManagerStutters
  <2>2. ASSUME NEW s \in TradeSignals, Signal(s)
        PROVE  Exec!Next
    BY <2>2 DEF Signal, Exec!Next
  <2>3. CASE Leave
    BY <2>3 DEF Leave, Exec!Next
  <2> QED  BY <1>2, <2>1, <2>2, <2>3 DEF EngineMoves
<1>3. CASE Receive \/ ManagerExit
  BY <1>3 DEF Receive, ManagerExit, Exec!Next
<1>4. ASSUME NEW s \in TradeSignals,
             FireMoves(s) \/ CallFails(s) \/ Refused(s) \/ Land(s)
      PROVE  Exec!Next
  BY <1>4 DEF FireMoves, CallFails, Refused, Land, Exec!Next
<1>5. CASE UNCHANGED systemVars
  BY <1>5, ManagerStutters DEF systemVars, vars, engineVars
<1> QED  BY <1>1, <1>2, <1>3, <1>4, <1>5 DEF SystemNext

\* The manager of the running process behaves as ExecutionManager says: the
\* engine's try_send and the end of its loop are all that happens to its
\* channel, and the sequencer executes its trades in nonce order.
THEOREM SystemRunsManager == SystemSpec => ManagerSpec
<1>1. SystemInit => Exec!Init
  BY DEF SystemInit
<1> QED
  BY <1>1, SystemStepIsManagerStep, PTL DEF SystemSpec, ManagerSpec, Exec!Spec

-----------------------------------------------------------------------------
(* The bot's trades and the engine's memory.                               *)

\* A transaction of the bot: it names no path, and no user sends it.
BotTx(t) == \E s \in TradeSignals : t \in Outcomes(s)

\* Before the live loop there is no signal, hence no trade: what is not a
\* user's transaction is a trade, and newer than every snapshot.
BotInv ==
    /\ phase \in {"fetching", "draining"} =>
          /\ execChan = <<>>
          /\ \A s \in TradeSignals : pc[s] = "unsent" /\ req[s] = "none"
          /\ UserSent = Sequenced
    /\ \A n \in Sequenced \ UserSent :
          BotTx(txs[n]) /\ \A p \in fetched : n > cut[p]

LEMMA UserSentIs == UserSent = { n \in Sequenced : txs[n] \in UserTxs }
BY DEF UserSent, Sequenced

LEMMA BotTxIs ==
    ASSUME NEW n \in Sequenced, BotTx(txs[n])
    PROVE  n \notin UserSent /\ ~ Readable(n)
<1>1. PICK s \in TradeSignals : txs[n] \in Outcomes(s)
  BY DEF BotTx
<1>2. n \notin UserSent
  BY <1>1, SystemTyped DEF UserSent
<1>3. txs[n].call = "execute"
  BY <1>1 DEF Outcomes, Trade, Reverted
<1>4. TokenPath(txs[n]) = <<>>
  BY <1>3 DEF TokenPath, Action, DecodeSwapAction, KnownSelectors, V2Calls, SingleCalls,
              MultiCalls, Unknown
<1>5. ~ Readable(n)
  BY <1>4 DEF Readable
<1> QED  BY <1>2, <1>5

\* Steps that sequence nothing and store no reserves.
LEMMA BotFrame ==
    ASSUME BotInv, UNCHANGED <<txs, cut, fetched>>,
           phase' \in {"fetching", "draining"} =>
              /\ phase \in {"fetching", "draining"}
              /\ UNCHANGED <<execChan, pc, req>>
    PROVE  BotInv'
<1>1. Sequenced' = Sequenced /\ UserSent' = UserSent
  BY DEF Sequenced, UserSent, ChainHead
<1> QED  BY <1>1 DEF BotInv, BotTx

\* Storing reserves happens before any trade.
LEMMA StoreKeepsBot ==
    ASSUME FetchInv, BotInv, FetchStep, UNCHANGED tradeVars
    PROVE  BotInv'
<1>1. /\ UNCHANGED <<txs, phase, execChan, pc, req>>
      /\ toFetch # <<>>
  BY DEF FetchStep, FetchNext, SkipPool, CallReserves, StoreReserves, FetchFails,
         engineVars, tradeVars
<1>2. phase = "fetching"
  BY <1>1 DEF FetchInv, FetchOrder
<1>3. UserSent = Sequenced
  BY <1>2 DEF BotInv
<1>4. Sequenced' = Sequenced /\ UserSent' = UserSent
  BY <1>1 DEF Sequenced, UserSent, ChainHead
<1> QED  BY <1>1, <1>2, <1>3, <1>4 DEF BotInv

\* A new transaction: a user's, or a trade that the live loop has signalled.
LEMMA SequenceKeepsBot ==
    ASSUME Shapes, BotInv, SequenceTx,
           UNCHANGED <<fetched, cut, phase, execChan, pc>>,
           \/ txs'[Len(txs')] \in UserTxs /\ UNCHANGED req
           \/ BotTx(txs'[Len(txs')]) /\ phase \notin {"fetching", "draining"}
    PROVE  BotInv'
<1>1. /\ txs \in Seq(TxShapes) /\ ChainHead \in Nat /\ fetched \subseteq Pools
      /\ \A p \in Pools : cut[p] \in 0 .. ChainHead
  BY DEF Shapes, ChainShape, PoolShape, ChainHead
<1>2. PICK t \in TxShapes : txs' = Append(txs, t)
  BY DEF SequenceTx
<1> DEFINE last == ChainHead + 1
<1>3. /\ Len(txs') = last /\ Sequenced' = Sequenced \cup {last} /\ last \notin Sequenced
      /\ \A n \in Sequenced : txs'[n] = txs[n]
  <2>1. Len(txs) \in Nat /\ ChainHead = Len(txs)
    BY <1>1 DEF ChainHead
  <2>2. Len(txs') = Len(txs) + 1 /\ \A n \in 1 .. Len(txs) : txs'[n] = txs[n]
    BY <1>1, <1>2, <2>1
  <2>3. 1 .. Len(txs') = (1 .. Len(txs)) \cup {Len(txs) + 1}
    BY <2>1, <2>2
  <2>4. Sequenced' = 1 .. Len(txs') /\ Sequenced = 1 .. Len(txs)
    BY DEF Sequenced, ChainHead
  <2>5. Len(txs) + 1 \notin 1 .. Len(txs)
    BY <2>1
  <2> QED  BY <2>1, <2>2, <2>3, <2>4, <2>5
<1>4. \A n : n \in UserSent' <=> n \in Sequenced' /\ txs'[n] \in UserTxs
  BY DEF UserSent, Sequenced
<1>5. \A n \in Sequenced : n \in UserSent' <=> n \in UserSent
  BY <1>3, <1>4, UserSentIs
<1> HIDE DEF last
<1>6. CASE txs'[last] \in UserTxs /\ UNCHANGED req
  <2>1. last \in UserSent'
    BY <1>3, <1>4, <1>6
  <2>2. Sequenced' \ UserSent' = Sequenced \ UserSent
    BY <1>3, <1>5, <2>1
  <2>3. ASSUME phase' \in {"fetching", "draining"} PROVE UserSent' = Sequenced'
    <3>1. UserSent = Sequenced
      BY <2>3 DEF BotInv
    <3> QED  BY <1>3, <1>4, <1>5, <2>1, <3>1
  <2>4. ASSUME NEW n \in Sequenced' \ UserSent'
        PROVE  BotTx(txs'[n]) /\ \A p \in fetched' : n > cut'[p]
    BY <1>3, <2>2 DEF BotInv, BotTx
  <2> QED  BY <1>6, <2>3, <2>4 DEF BotInv, BotTx
<1>7. CASE BotTx(txs'[last]) /\ phase \notin {"fetching", "draining"}
  <2>1. ASSUME NEW n \in Sequenced' \ UserSent'
        PROVE  BotTx(txs'[n]) /\ \A p \in fetched' : n > cut'[p]
    <3>1. CASE n = last
      BY <1>1, <1>7, <3>1 DEF last
    <3>2. CASE n \in Sequenced
      BY <1>3, <1>5, <2>1, <3>2 DEF BotInv
    <3> QED  BY <1>3, <2>1, <3>1, <3>2
  <2> QED  BY <1>7, <2>1 DEF BotInv, BotTx
<1> QED  BY <1>3, <1>6, <1>7

LEMMA InitBot == SystemInit => BotInv
<1> SUFFICES ASSUME SystemInit PROVE BotInv
  OBVIOUS
<1>1. /\ txs = <<>> /\ execChan = <<>>
      /\ \A s \in TradeSignals : pc[s] = "unsent" /\ req[s] = "none"
  BY DEF SystemInit, Init, Exec!Init
<1>2. Sequenced = {}
  BY <1>1 DEF Sequenced, ChainHead
<1>3. UserSent = Sequenced
  BY <1>2, UserSentIs
<1> QED  BY <1>1, <1>2, <1>3 DEF BotInv

LEMMA NextBot ==
    ASSUME Shapes, FetchInv, BotInv, [SystemNext]_systemVars
    PROVE  BotInv'
<1> DEFINE early == {"fetching", "draining"}
<1>1. CASE UserSwap
  BY <1>1, SequenceKeepsBot DEF UserSwap, poolVars, engineVars, tradeVars
<1>2. CASE Listen
  BY <1>2, BotFrame DEF Listen, poolVars, engineVars, tradeVars
<1>3. CASE Fetch
  BY <1>3, StoreKeepsBot DEF Fetch
<1>4. CASE EngineMoves
  <2>1. CASE EngineAlone /\ UNCHANGED <<tradeVars, position>>
    <3>1. /\ UNCHANGED <<txs, cut, fetched, execChan>>
          /\ phase' \in early => phase \in early
      <4>1. CASE FetchDone \/ DrainDone
        BY <4>1 DEF FetchDone, DrainDone, poolVars
      <4>2. CASE DrainDiscard \/ DrainReplay
        BY <4>2 DEF DrainDiscard, DrainReplay, poolVars
      <4>3. CASE EvaluateSkips \/ EvaluateFails \/ EvaluateQuietly
        BY <4>3 DEF EvaluateSkips, EvaluateFails, EvaluateQuietly, LiveMessage,
                    UpdatePoolA, poolVars
      <4> QED  BY <2>1, <4>1, <4>2, <4>3 DEF EngineAlone
    <3> QED  BY <2>1, <3>1, BotFrame DEF tradeVars
  <2>2. ASSUME NEW s \in TradeSignals, Signal(s) PROVE BotInv'
    <3>1. UNCHANGED <<txs, cut, fetched>> /\ phase' = "live"
      BY <2>2 DEF Signal, EvaluateSignals, LiveMessage, UpdatePoolA
    <3> QED  BY <3>1, BotFrame
  <2>3. CASE Leave
    <3>1. UNCHANGED <<txs, cut, fetched>> /\ phase' = "exited"
      BY <2>3 DEF Leave, LeaveLoop, poolVars
    <3> QED  BY <3>1, BotFrame
  <2> QED  BY <1>4, <2>1, <2>2, <2>3 DEF EngineMoves
<1>5. CASE Receive
  <2>1. UNCHANGED <<txs, cut, fetched, phase>> /\ execChan # <<>>
    BY <1>5 DEF Receive, TakeSignal, poolVars
  <2>2. phase \notin early
    BY <2>1 DEF BotInv
  <2> QED  BY <2>1, <2>2, BotFrame
<1>6. CASE ManagerExit
  BY <1>6, BotFrame DEF ManagerExit, Exec!ManagerExit, Exec!sequencerVars, vars, poolVars,
                        engineVars
<1>7. ASSUME NEW s \in TradeSignals, FireMoves(s) \/ CallFails(s) \/ Refused(s)
      PROVE  BotInv'
  <2>1. UNCHANGED <<txs, cut, fetched, phase, execChan>>
    BY <1>7 DEF FireMoves, CallFails, Refused, vars, poolVars, engineVars
  <2>2. pc[s] # "unsent" \/ req[s] # "none"
    BY <1>7
       DEF FireMoves, CallFails, Refused, Exec!TakeNonce, Exec!SignFails, Exec!Submit,
           Exec!HandleOk, Exec!HandleCondition, Exec!HandleError, Exec!TransportError,
           Exec!Refuse
  <2>3. phase \notin early
    BY <2>2 DEF BotInv
  <2> QED  BY <2>1, <2>3, BotFrame
<1>8. ASSUME NEW s \in TradeSignals, Land(s) PROVE BotInv'
  <2>1. /\ SequenceTx /\ UNCHANGED <<fetched, cut, phase, execChan, pc>>
        /\ req[s] = "wire" /\ BotTx(txs'[Len(txs')])
    BY <1>8 DEF Land, Exec!Include, BotTx, poolVars, engineVars
  <2>2. phase \notin early
    BY <2>1 DEF BotInv
  <2> QED  BY <2>1, <2>2, SequenceKeepsBot
<1>9. CASE UNCHANGED systemVars
  BY <1>9, BotFrame DEF systemVars, vars, poolVars, engineVars, tradeVars
<1> QED
  BY <1>1, <1>2, <1>3, <1>4, <1>5, <1>6, <1>7, <1>8, <1>9 DEF SystemNext

\* The users' clear swaps are all the engine can read: the chain as it reads it
\* is the chain as the users made it.
LEMMA ReadIsUsers ==
    ASSUME Shapes, BotInv, UserSwapsClear, NEW p, NEW n \in 0 .. ChainHead
    PROVE  Swaps(ReadChain, p, n) = UserHist(p, n)
<1>1. ChainHead \in Nat
  BY DEF Shapes, ChainShape, ChainHead
<1>2. ASSUME NEW k \in Sequenced PROVE Readable(k) <=> k \in UserSent
  <2>1. CASE k \in UserSent
    BY <2>1 DEF UserSwapsClear, ClearSwap, Readable
  <2>2. CASE k \notin UserSent
    <3>1. BotTx(txs[k])
      BY <2>2 DEF BotInv
    <3> QED  BY <2>2, <3>1, BotTxIs
  <2> QED  BY <2>1, <2>2
<1>3. ASSUME NEW k \in 1 .. n PROVE AgreeOn(UserChain, ReadChain, p, k)
  <2>1. k \in Sequenced /\ k \in 1 .. ChainHead
    BY <1>1 DEF Sequenced
  <2>2. ReadChain[k] = IF k \in UserSent THEN txs[k] ELSE [route |-> [q \in {} |-> 0]]
    BY <1>2, <2>1 DEF ReadChain
  <2>3. UserChain[k] = IF k \in UserSent THEN txs[k] ELSE Reverted
    BY <2>1 DEF UserChain
  <2>4. Reverted.route = [q \in {} |-> 0]
    BY DEF Reverted, Trade
  <2>5. ReadChain[k].route = UserChain[k].route
    BY <2>2, <2>3, <2>4
  <2> QED  BY <2>5 DEF AgreeOn
<1>4. Swaps(ReadChain, p, n) = Swaps(UserChain, p, n)
  <2> HIDE DEF AgreeOn
  <2>1. n \in Nat
    BY <1>1
  <2> QED  BY <1>3, <2>1, SwapsAgree
<1> QED  BY <1>4 DEF UserHist

\* A clear swap of a pool without rivals concerns no other pool.
LEMMA NoRivalConcerned ==
    ASSUME NEW p \in Pools, NEW q \in Pools, q # p, NEW n, ClearSwap(q, n), Concerns(p, n)
    PROVE  Rivals(q) # {}
<1>1. /\ Len(TokenPath(txs[n])) = 2 /\ DOMAIN txs[n].route = {q}
      /\ First[PoolsOf(EndPair(txs[n]))] = q
  BY DEF ClearSwap
<1>2. PoolsOf(EndPair(txs[n])) \in SUBSET Pools
  BY DEF PoolsOf, TokenGraph
<1>3. q \in PoolsOf(EndPair(txs[n]))
  BY <1>1, <1>2, FirstIsOne, RegistryTyped
<1>4. PairOf(q) = EndPair(txs[n])
  BY <1>3 DEF PoolsOf, TokenGraph
<1>5. PairOf(p) = EndPair(txs[n])
  <2>1. \A i \in DOMAIN Hops(txs[n]) : Hops(txs[n])[i] = EndPair(txs[n])
    BY <1>1 DEF Hops, EndPair
  <2>2. ~ Moves(n, p)
    BY <1>1 DEF Moves
  <2> QED  BY <2>1, <2>2 DEF Concerns
<1> QED  BY <1>4, <1>5 DEF Rivals

\* In the running process memory departs from the chain by the bot's own
\* trades and by nothing else, for any registry, users, faults, capacities,
\* nonces and trades: an undisturbed pool reflects exactly the users' swaps up
\* to the newest message handled, each once and in order, however many trades
\* of the bot moved it in between.
THEOREM DriftIsOwnHolds == SystemSpec => []DriftIsOwn
<1> DEFINE Inv == Shapes /\ FetchInv /\ StreamInv /\ TrackInv
<1>1. Inv /\ BotInv => DriftIsOwn
  <2> SUFFICES ASSUME Inv, BotInv, UserSwapsClear, NEW p \in fetched, NeverFails(p),
                      Undisturbed(p)
               PROVE  mem[p] = UserHist(p, Later(cut[p], TakenMax))
    BY DEF DriftIsOwn
  <2>1. /\ ChainHead \in Nat /\ TakenMax \in 0 .. ChainHead
        /\ fetched \subseteq Pools /\ p \in Pools /\ cut[p] \in 0 .. ChainHead
    <3>1. TakenMax \in 0 .. ChainHead
      BY TakenMaxIs
    <3>2. ChainHead \in Nat
      BY DEF Shapes, ChainShape, ChainHead
    <3> QED  BY <3>1, <3>2 DEF Shapes, PoolShape
  <2>2. ASSUME NEW n \in Sequenced
        PROVE  /\ Readable(n) /\ Concerns(p, n) => \E q \in fetched : ClearSwap(q, n)
               /\ Moves(n, p) /\ ~ Readable(n) => n > cut[p]
    <3>1. CASE n \in UserSent
      <4>1. PICK q \in Pools : ClearSwap(q, n) /\ (q \in fetched \/ Rivals(q) = {})
        BY <3>1 DEF UserSwapsClear
      <4>2. Readable(n)
        BY <4>1 DEF ClearSwap, Readable
      <4>3. Concerns(p, n) => q \in fetched
        BY <2>1, <4>1, NoRivalConcerned
      <4> QED  BY <4>1, <4>2, <4>3
    <3>2. CASE n \notin UserSent
      <4>1. BotTx(txs[n]) /\ n > cut[p]
        BY <3>2 DEF BotInv
      <4> QED  BY <4>1, BotTxIs
    <3> QED  BY <3>1, <3>2
  <2>3. Tracked(p)
    BY <2>2 DEF TrackInv, Clear
  <2>4. Later(cut[p], TakenMax) \in 0 .. ChainHead
    BY <2>1 DEF Later
  <2> QED  BY <2>3, <2>4, ReadIsUsers DEF Tracked
<1>2. SystemInit => Inv /\ BotInv
  BY InitShapes, InitFetchInv, InitStream, InitTrack, InitBot DEF SystemInit
<1>3. Inv /\ BotInv /\ [SystemNext]_systemVars => Inv' /\ BotInv'
  BY SystemStepIsEngineStep, NextShapes, NextFetchInv, NextStream, NextTrack, NextBot
<1> HIDE DEF Inv
<1> QED  BY <1>1, <1>2, <1>3, PTL DEF SystemSpec

=============================================================================
