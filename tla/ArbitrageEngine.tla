--------------------------- MODULE ArbitrageEngine ---------------------------
(***************************************************************************)
(* The ArbitrageEngine of src/engine/mod.rs, together with the feed        *)
(* listener it spawns and the pool manager whose reserves it fetches:      *)
(* bootstrap (fetch, drain the buffered feed, enter live mode) and the     *)
(* live evaluation loop, running concurrently with the listener, the       *)
(* sequencer and the consumer of its signals.                              *)
(*                                                                         *)
(* One evaluation is one step: after bootstrap the engine is the only      *)
(* writer of pool reserves, the listener only reads static fields, and     *)
(* nothing evaluate reads can change between its awaits.                   *)
(***************************************************************************)
EXTENDS FeedListener, PoolManager

CONSTANTS
    ExecCap,           \* capacity of the signal channel (64 in src/lib.rs)
    MaxTransactions,   \* run's max_transactions, or Unlimited for None
    Unlimited,
    OptimizerFails     \* whether optimal_v2_v2 may answer Overflow

ASSUME EngineTyped == /\ ExecCap \in Nat \ {0}
                      /\ MaxTransactions \in Nat \cup {Unlimited}
                      /\ Unlimited \notin Nat
                      /\ OptimizerFails \in BOOLEAN

VARIABLES
    phase,       \* "fetching", "draining", "live" or "exited"
    checkpoint,  \* bootstrap's checkpoint_block
    count,       \* messages the live loop has handled
    execChan,    \* the signal channel towards the ExecutionManager
    discarded,   \* history: messages the drain discarded
    taken        \* history: the messages the engine took off feedChan, in order

engineVars == <<phase, checkpoint, count, execChan, discarded, taken>>
vars == <<txs, feedVars, poolVars, engineVars>>

Phases == {"fetching", "draining", "live", "exited"}

-----------------------------------------------------------------------------
(* Bootstrap.                                                              *)

\* fetch_all_reserves returns.
FetchDone ==
    /\ phase = "fetching"
    /\ toFetch = <<>>
    /\ phase' = "draining"
    /\ checkpoint' = maxBlock
    /\ UNCHANGED <<txs, feedVars, poolVars, count, execChan, discarded, taken>>

\* feed_rx.try_recv() or feed_rx.recv() yields a message.
TakeMessage ==
    /\ feedChan # <<>>
    /\ feedChan' = Tail(feedChan)
    /\ taken' = Append(taken, Head(feedChan))
    /\ UNCHANGED <<connected, fed, lost, repeated>>

\* Mutant of Covered: the checkpoint block itself counts as newer.
CoveredStrictly(n) == n < checkpoint

\* The drain compares the sequence number with the block number.
Covered(n) == n <= checkpoint

DrainDiscard ==
    /\ phase = "draining"
    /\ TakeMessage
    /\ Covered(Head(feedChan))
    /\ discarded' = discarded \cup {Head(feedChan)}
    /\ UNCHANGED <<txs, rxOpen, poolVars, phase, checkpoint, count, execChan>>

\* apply_swap_to_lpm: one pool per hop.
DrainReplay ==
    /\ phase = "draining"
    /\ TakeMessage
    /\ ~Covered(Head(feedChan))
    /\ LET n    == Head(feedChan)
           hops == Hops(txs[n])
       IN  ApplyHops(n, [p \in Pools |->
              Cardinality({i \in DOMAIN hops :
                              ReplayPool(hops[i], txs[n], fetched) = p})])
    /\ UNCHANGED <<txs, rxOpen, toFetch, reading, maxBlock, fetched, cut,
                   phase, checkpoint, count, execChan, discarded>>

\* try_recv() finds the channel empty: the live loop is spawned.
DrainDone ==
    /\ phase = "draining"
    /\ feedChan = <<>>
    /\ phase' = "live"
    /\ UNCHANGED <<txs, feedVars, poolVars, checkpoint, count, execChan,
                   discarded, taken>>

-----------------------------------------------------------------------------
(* The live loop.                                                          *)

\* Mutant of AtLimit: the limit is compared before counting.
PastLimit == MaxTransactions # Unlimited /\ count > MaxTransactions

\* The loop compares its limit only after a message was handled.
AtLimit == MaxTransactions # Unlimited /\ count >= 1 /\ count >= MaxTransactions

\* feed_rx.recv() yields a message, which is counted whatever evaluate answers.
LiveMessage ==
    /\ phase = "live"
    /\ ~AtLimit
    /\ TakeMessage
    /\ count' = count + 1
    /\ UNCHANGED <<txs, rxOpen, phase, checkpoint, discarded>>

\* Steps 1 and 2 of evaluate: the pool the swap is attributed to, if there is
\* one and the swap can be simulated on it.
PoolA(n) ==
    LET a == FindMatchingPool(txs[n])
    IN  IF Len(TokenPath(txs[n])) >= 2 /\ a # NoPool
           /\ Simulates(a, txs[n], fetched)
        THEN a ELSE NoPool

\* Steps 3 and 4: the counterparty pools optimal_v2_v2 is asked about; a pool
\* with zero reserves yields no profit and no error.
Counterparties(a) ==
    { b \in Pools \ {a} : /\ PairOf(b) = PairOf(a)
                          /\ {Protocol[a], Protocol[b]} \subseteq V2Like
                          /\ b \in fetched }

\* The message has no path, no pool, or cannot be simulated.
EvaluateSkips ==
    /\ LiveMessage
    /\ PoolA(Head(feedChan)) = NoPool
    /\ UNCHANGED <<poolVars, execChan>>

\* Mutant of EvaluateFails: the error ends the live loop.
FailureEndsLoop ==
    /\ OptimizerFails
    /\ phase = "live"
    /\ ~AtLimit
    /\ TakeMessage
    /\ PoolA(Head(feedChan)) # NoPool
    /\ Counterparties(PoolA(Head(feedChan))) # {}
    /\ count' = count + 1
    /\ phase' = "exited"
    /\ UNCHANGED <<txs, rxOpen, poolVars, checkpoint, execChan, discarded>>

\* optimal_v2_v2 answers Overflow for some counterparty: `?` leaves evaluate
\* before the reserves are updated.
EvaluateFails ==
    /\ OptimizerFails
    /\ LiveMessage
    /\ PoolA(Head(feedChan)) # NoPool
    /\ Counterparties(PoolA(Head(feedChan))) # {}
    /\ UNCHANGED <<poolVars, execChan>>

\* Mutant of UpdatePoolA: the pools the bot trades on are updated with it.
UpdateBothPools(n, a) ==
    /\ ApplyHops(n, [p \in Pools |-> IF p \in {a} \cup Counterparties(a) THEN 1 ELSE 0])
    /\ UNCHANGED <<toFetch, reading, maxBlock, fetched, cut>>

\* Step 6: pool A takes the simulated reserves.
UpdatePoolA(n, a) ==
    /\ ApplyHops(n, [p \in Pools |-> IF p = a THEN 1 ELSE 0])
    /\ UNCHANGED <<toFetch, reading, maxBlock, fetched, cut>>

\* No counterparty is profitable after gas.
EvaluateQuietly ==
    /\ LiveMessage
    /\ PoolA(Head(feedChan)) # NoPool
    /\ UpdatePoolA(Head(feedChan), PoolA(Head(feedChan)))
    /\ UNCHANGED execChan

\* Mutant of SendSignal: the engine queues signals beyond the capacity.
SendUnbounded(signal) == execChan' = Append(execChan, signal)

\* exec_tx.try_send(signal): dropped when the channel is full.
SendSignal(signal) ==
    IF Len(execChan) < ExecCap THEN execChan' = Append(execChan, signal)
                               ELSE UNCHANGED execChan

\* Step 7: the most profitable counterparty is signalled.
EvaluateSignals(signal) ==
    /\ LiveMessage
    /\ signal.trigger = Head(feedChan)
    /\ signal.poolA = PoolA(Head(feedChan))
    /\ signal.poolA # NoPool
    /\ signal.poolB \in Counterparties(signal.poolA)
    /\ UpdatePoolA(signal.trigger, signal.poolA)
    /\ SendSignal(signal)

\* The signals the engine can ever send.
EngineSignals == [trigger : 1 .. MaxTxs, poolA : Pools, poolB : Pools]

\* run_live returns: feed_rx and exec_tx are dropped.
LeaveLoop ==
    /\ phase = "live"
    /\ AtLimit
    /\ phase' = "exited"
    /\ rxOpen' = FALSE
    /\ UNCHANGED <<txs, connected, fed, feedChan, lost, repeated, poolVars,
                   checkpoint, count, execChan, discarded, taken>>

\* External: the ExecutionManager receives a signal.
TakeSignal ==
    /\ execChan # <<>>
    /\ execChan' = Tail(execChan)
    /\ UNCHANGED <<txs, feedVars, poolVars, phase, checkpoint, count, discarded,
                   taken>>

-----------------------------------------------------------------------------
Init ==
    /\ txs = <<>>
    /\ InitFeed
    /\ InitPools
    /\ phase = "fetching"
    /\ checkpoint = 0
    /\ count = 0
    /\ execChan = <<>>
    /\ discarded = {}
    /\ taken = <<>>

\* The steps that leave the signal channel alone.
EngineAlone ==
    \/ FetchDone
    \/ DrainDiscard
    \/ DrainReplay
    \/ DrainDone
    \/ EvaluateSkips
    \/ EvaluateFails
    \/ EvaluateQuietly

EngineStep ==
    \/ EngineAlone
    \/ \E signal \in EngineSignals : EvaluateSignals(signal)
    \/ LeaveLoop

FetchStep == FetchNext /\ UNCHANGED <<txs, feedVars, engineVars>>

Next ==
    \/ SequenceTx /\ UNCHANGED <<feedVars, poolVars, engineVars>>
    \/ FeedNext /\ UNCHANGED <<txs, poolVars, engineVars>>
    \/ FetchStep
    \/ EngineStep
    \/ TakeSignal

Spec == Init /\ [][Next]_vars

\* Tokio runs every ready task, and every RPC call is answered or fails.
Fairness == WF_vars(FetchStep) /\ WF_vars(EngineStep)

FairSpec == Spec /\ Fairness

-----------------------------------------------------------------------------
SeqNos == 1 .. MaxTxs

TypeOK ==
    /\ txs \in Seq(TxShapes) /\ Len(txs) <= MaxTxs
    /\ connected \in BOOLEAN
    /\ fed \in 0 .. MaxTxs
    /\ feedChan \in Seq(SeqNos) /\ Len(feedChan) <= FeedCap
    /\ rxOpen \in BOOLEAN
    /\ lost \subseteq SeqNos /\ repeated \subseteq SeqNos
    /\ toFetch \in Seq(Pools)
    /\ DOMAIN reading \subseteq {"getReserves", "slot0", "liquidity"}
    /\ \A call \in DOMAIN reading : reading[call] \in 0 .. ChainHead
    /\ maxBlock \in Nat
    /\ fetched \subseteq Pools
    /\ mem \in [Pools -> Seq([tx : 0 .. MaxTxs, amount : Nat])]
    /\ cut \in [Pools -> 0 .. MaxTxs]
    /\ phase \in Phases
    /\ checkpoint \in Nat
    /\ count \in Nat
    /\ execChan \in Seq(EngineSignals)
    /\ Len(execChan) <= ExecCap
    /\ discarded \subseteq SeqNos
    /\ taken \in Seq(SeqNos)

\* No snapshot is newer than the checkpoint, although blocks are produced
\* between and during the pools' fetches: what the drain replays is in no
\* snapshot.
CheckpointDominates ==
    /\ \A p \in fetched : BlockAt(cut[p]) <= maxBlock
    /\ phase # "fetching" => checkpoint = maxBlock

\* The messages that entered the feed channel, in order.
Given == taken \o feedChan

\* What the engine handles or finds buffered is the feed's order with nothing
\* left out: a message given after a later one, or missing before a later one,
\* was dropped by the full or closed channel, garbled, skipped or given again
\* by a reconnection.
StreamInOrder ==
    \A i \in 1 .. Len(Given) :
       /\ \A j \in 1 .. i - 1 : Given[j] < Given[i] \/ Given[i] \in repeated
       /\ \A n \in 1 .. Given[i] - 1 :
             Parsed(txs[n]) => \/ n \in lost \cup repeated
                              \/ \E j \in 1 .. i - 1 : Given[j] = n

\* How often a pool's reserves reflect transaction n.
Reflected(p, n) == Cardinality({i \in DOMAIN mem[p] : mem[p][i].tx = n})

\* Transaction n has several hops between p's tokens: the drain applies it once
\* for each of them.
PassesTwice(p, n) ==
    Cardinality({ i \in DOMAIN Hops(txs[n]) : Hops(txs[n])[i] = PairOf(p) }) > 1

\* A swap the feed gave once, and that passes a pool once, is reflected twice
\* only when it reached the live loop although the snapshot already had it:
\* never by the drain.
DoublesAreLate ==
    \A p \in Pools, n \in SeqNos \ repeated :
       Reflected(p, n) > 1 => \/ n <= cut[p] /\ phase \in {"live", "exited"}
                             \/ PassesTwice(p, n)

\* A pool whose fetch failed keeps zero reserves: no feed message changes it
\* and no signal involves it.
UnfetchedInert ==
    \A p \in Pools \ fetched :
       /\ mem[p] = <<>>
       /\ \A i \in DOMAIN execChan : p \notin {execChan[i].poolA, execChan[i].poolB}

\* The messages the live loop took.
TakenLive == { taken[i] : i \in Len(taken) - count + 1 .. Len(taken) }
TakenMax  == CHOOSE n \in 0 .. MaxTxs :
                /\ \A i \in DOMAIN taken : taken[i] <= n
                /\ n = 0 \/ \E i \in DOMAIN taken : taken[i] = n

\* Transaction n is a single-hop swap the code attributes to p and to no
\* other pool, and it moves p, and only p, by the amount the code takes it for.
ClearSwap(p, n) ==
    /\ Parsed(txs[n])
    /\ Len(TokenPath(txs[n])) = 2
    /\ DOMAIN txs[n].route = {p}
    /\ txs[n].route[p] = ApproxAmountIn(txs[n])
    /\ ApproxAmountIn(txs[n]) <= MaxAmount
    /\ FindMatchingPool(txs[n]) = p
    /\ First[PoolsOf(EndPair(txs[n]))] = p

\* Transaction n moves p, or names p's pair.
Concerns(p, n) ==
    \/ Moves(n, p)
    \/ \E i \in DOMAIN Hops(txs[n]) : Hops(txs[n])[i] = PairOf(p)
    \/ Len(TokenPath(txs[n])) >= 2 /\ EndPair(txs[n]) = PairOf(p)

\* The error of an evaluation never keeps p from being updated.
NeverFails(p) == OptimizerFails => Counterparties(p) = {}

\* Every transaction that concerns p is a clear swap, of p or of another pool
\* with reserves, and evaluating it cannot fail.
OnlyClearSwaps(p) ==
    /\ NeverFails(p)
    /\ \A n \in 1 .. ChainHead : Concerns(p, n) => \E q \in fetched : ClearSwap(q, n)

\* p's snapshot is a state p had, and no swap of p was lost or discarded after
\* it, given again, or handled by the live loop although the snapshot has it.
Undisturbed(p) ==
    /\ Reflected(p, 0) = 0
    /\ \A n \in 1 .. ChainHead : Moves(n, p) =>
          /\ n > cut[p] => n \notin lost \cup discarded
          /\ n \notin repeated
          /\ n <= cut[p] => n \notin TakenLive

\* Bootstrap and live loop together track the chain: a pool none of the above
\* disturbs reflects exactly the swaps up to the newest message handled (or
\* up to its snapshot), each once and in the chain's order.
Tracks ==
    phase # "fetching" =>
       \A p \in fetched :
          OnlyClearSwaps(p) /\ Undisturbed(p) =>
             mem[p] = ChainHist(p, Later(cut[p], TakenMax))

\* The swaps applied to p since its snapshot.
Applied(p) ==
    LET first == IF Reflected(p, 0) > 0 THEN 2 ELSE 1 + Len(ChainHist(p, cut[p]))
    IN  { mem[p][i] : i \in first .. Len(mem[p]) }

\* The messages the drain took.
TakenByDrain == { taken[i] : i \in 1 .. Len(taken) - count }

\* The pools other than p that a single-hop swap between p's tokens may be
\* about, as far as the registry can tell.
Rivals(p) == { q \in Pools \ {p} : PairOf(q) = PairOf(p) }

\* Memory departs from the chain only where the code's knowledge ends.  A
\* single-hop swap is applied to a pool it did not move, instead of a rival it
\* did move, only if it is a V2 call, or was replayed by the drain, or the two
\* have the same fee tier.  A single-hop amount differs from the real one only
\* upwards for a call with a maximum, or for ETH.  A swap that is not arbitrable
\* is applied only by the live loop, along a path of several hops.
DeviationsExplained ==
    \A p \in Pools : \A entry \in Applied(p) :
       LET tx        == txs[entry.tx]
           moved     == DOMAIN tx.route
           singleHop == Len(TokenPath(tx)) = 2
           live      == entry.tx \notin TakenByDrain
       IN  /\ singleHop /\ p \notin moved /\ moved \cap Rivals(p) # {} =>
                 (live /\ tx.call \in SingleCalls
                    => \A q \in moved \cap Rivals(p) : FeeTier[q] = FeeTier[p])
           /\ singleHop /\ moved = {p} =>
                 \/ entry.amount = tx.route[p]
                 \/ entry.amount > tx.route[p] /\ tx.call \in ExactOutputCalls
                 \/ tx.call = "swapExactETHForTokens"
           /\ ~IsPathMonitored(tx) => entry.tx \in TakenLive /\ Len(TokenPath(tx)) > 2

\* src/lib.rs, "exits cleanly after the engine has evaluated exactly `n`
\* transactions": the loop stops having handled neither more nor fewer, for
\* every limit of at least one (with 0 it still waits for one message).
ExactlyN == phase = "exited" => count = MaxTransactions

\* Bootstrap ends whatever the RPC node answers: the engine goes live.
Bootstraps == <>(phase \in {"live", "exited"})

\* The live loop never stops consuming before its limit, whatever evaluate
\* answers.
FeedConsumed ==
    []<>(feedChan = <<>> \/ AtLimit)

-----------------------------------------------------------------------------
(* What comments of the code say and the code does not do.                 *)

\* src/engine/mod.rs, "any feed transaction whose state changes are reflected
\* in on-chain state at or before this block is already encoded in our
\* reserves".
CheckpointEncoded ==
    phase = "draining" =>
       \A p \in fetched, n \in 1 .. ChainHead :
          Moves(n, p) /\ n <= checkpoint => Reflected(p, n) > 0

\* src/engine/mod.rs, "This must happen even if we don't fire": a swap that
\* was attributed and simulated updates the pool.
UpdateRegardless ==
    [][ count' # count /\ PoolA(Head(feedChan)) # NoPool =>
           mem'[PoolA(Head(feedChan))] # mem[PoolA(Head(feedChan))] ]_vars

\* src/engine/mod.rs, "For V2 swaps, the first hop's pool is determined by
\* the (path[0], path[1]) pair": a swap is evaluated on its first hop's pool.
FirstHopPool ==
    [][ LET n == Head(feedChan)
        IN  count' # count /\ PoolA(n) # NoPool => PairOf(PoolA(n)) = Hops(txs[n])[1] ]_vars

\* src/types.rs, "eth_value: U256, // from tx.value": the amount applied for
\* a single-hop swapExactETHForTokens is the ETH the transaction sends.
EthValueApplied ==
    \A p \in Pools : \A i \in DOMAIN mem[p] :
       LET entry == mem[p][i]
       IN  entry # Torn[1] /\ txs[entry.tx].call = "swapExactETHForTokens"
              => entry.amount = txs[entry.tx].value

=============================================================================
