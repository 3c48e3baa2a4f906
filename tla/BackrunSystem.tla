---------------------------- MODULE BackrunSystem ----------------------------
(***************************************************************************)
(* The process src/lib.rs starts: the ArbitrageEngine with its feed and    *)
(* pools, and the ExecutionManager, joined by the signal channel.  Each    *)
(* half keeps its own specification; the system's steps are conjunctions   *)
(* of theirs.  What the halves leave to their environments meets here: the *)
(* signals the manager receives are those the engine sends, its sender is  *)
(* open until the live loop returns, and a trade the sequencer executes is *)
(* a transaction of the chain the engine watches.                          *)
(*                                                                         *)
(* run(config, Some(n)) returns when the engine does; the manager and its  *)
(* fire tasks live on as long as the caller's runtime, which is taken to   *)
(* outlive them.                                                           *)
(***************************************************************************)
EXTENDS ArbitrageEngine

CONSTANTS
    UserTxs,      \* the transactions users may send, a subset of TxShapes
    MaxUserTxs,   \* bound on their number
    TradeAmount,  \* what a trade of the bot moves on each pool
    StartNonce,   \* of the ExecutionManager
    Faults        \* of the ExecutionManager, restarts excepted

VARIABLES
    manager, pc, txNonce, nonce, req, chainNonce,   \* the ExecutionManager's
    base, clean, restarts,
    position   \* history: where on the chain each executed trade is

tradeVars  == <<manager, pc, txNonce, nonce, req, chainNonce, base, clean, restarts>>
systemVars == <<vars, tradeVars, position>>

\* The trades a signal can ask for.
TradeSignals == { s \in EngineSignals : s.poolA # s.poolB }

\* execution_manager.run(exec_rx) receives what bootstrap's exec_tx sends; the
\* engine owns the only sender and drops it when its loop returns.
Exec == INSTANCE ExecutionManager WITH
           Signals     <- TradeSignals,
           ChanCap     <- ExecCap,
           MaxRestarts <- 0,
           queue       <- execChan,
           senderOpen  <- (phase # "exited")

-----------------------------------------------------------------------------
(* The chain: users' transactions and the bot's.                           *)

\* The executor contract's execute moves both pools of the trade, or reverts
\* as a whole when it makes too little; either way the nonce is used.  The
\* contract is no monitored router.
Trade(route) ==
    [form |-> "Eip1559", to |-> "executor", call |-> "execute", path |-> <<>>,
     fee |-> 0, amount |-> 0, value |-> 0, gasPrice |-> 1, route |-> route]

Reverted == Trade([p \in {} |-> 0])

Outcomes(s) == {Trade([p \in {s.poolA, s.poolB} |-> TradeAmount]), Reverted}

ASSUME SystemTyped ==
    /\ MaxUserTxs \in Nat /\ TradeAmount \in Nat
    /\ UserTxs \subseteq TxShapes
    /\ \A s \in TradeSignals : Outcomes(s) \subseteq TxShapes \ UserTxs

UserSent == { n \in 1 .. ChainHead : txs[n] \in UserTxs }

\* A user's transaction is sequenced.
UserSwap ==
    /\ Cardinality(UserSent) < MaxUserTxs
    /\ SequenceTx
    /\ txs'[Len(txs')] \in UserTxs
    /\ UNCHANGED <<feedVars, poolVars, engineVars, tradeVars, position>>

\* The sequencer executes the bot's next transaction.
Land(s) ==
    /\ SequenceTx
    /\ txs'[Len(txs')] \in Outcomes(s)
    /\ UNCHANGED <<feedVars, poolVars, engineVars>>
    /\ Exec!Include(s)
    /\ position' = [t \in DOMAIN position \cup {s} |->
                       IF t = s THEN ChainHead + 1 ELSE position[t]]

-----------------------------------------------------------------------------
(* The engine.                                                             *)

Listen == FeedNext /\ UNCHANGED <<txs, poolVars, engineVars, tradeVars, position>>

Fetch == FetchStep /\ UNCHANGED <<tradeVars, position>>

\* Mutant of Signal: evaluate returns with the signal, before the update.
SignalWithoutUpdate(s) ==
    /\ LiveMessage
    /\ s.trigger = Head(feedChan)
    /\ s.poolA = PoolA(Head(feedChan))
    /\ s.poolA # NoPool
    /\ s.poolB \in Counterparties(s.poolA)
    /\ SendSignal(s)
    /\ UNCHANGED poolVars
    /\ Exec!EmitSignal(s)
    /\ UNCHANGED position

\* A signal is sent, or dropped at a full channel.
Signal(s) == EvaluateSignals(s) /\ Exec!EmitSignal(s) /\ UNCHANGED position

\* Mutant of Leave: the runtime goes down with the engine, and every fire
\* task that is not done with it.
LeaveAborting ==
    /\ LeaveLoop
    /\ pc' = [s \in TradeSignals |->
                 IF pc[s] \in {"spawned", "signing", "awaiting"} THEN "gone" ELSE pc[s]]
    /\ UNCHANGED <<manager, txNonce, nonce, req, chainNonce, base, clean, restarts,
                   position>>

\* The live loop returns and drops exec_tx.
Leave == LeaveLoop /\ Exec!CloseSender /\ UNCHANGED position

EngineMoves ==
    \/ EngineAlone /\ UNCHANGED <<tradeVars, position>>
    \/ \E s \in TradeSignals : Signal(s)
    \/ Leave

-----------------------------------------------------------------------------
(* The manager.                                                            *)

Receive == TakeSignal /\ Exec!Receive /\ UNCHANGED position

ManagerExit == UNCHANGED <<vars, position>> /\ Exec!ManagerExit

\* A fire task moves by itself: up to the request, and from its answer on.
FireMoves(s) ==
    /\ UNCHANGED <<vars, position>>
    /\ \/ Exec!TakeNonce(s)
       \/ Exec!SignFails(s)
       \/ Exec!Submit(s)
       \/ Exec!HandleOk(s)
       \/ Exec!HandleCondition(s)
       \/ Exec!HandleError(s)

\* The call fails, whatever became of the request.
CallFails(s) == UNCHANGED <<vars, position>> /\ Exec!TransportError(s)

\* A request is refused or lost.
Refused(s) == UNCHANGED <<vars, position>> /\ Exec!Refuse(s)

-----------------------------------------------------------------------------
SystemInit == Init /\ Exec!Init /\ position = [s \in {} |-> 0]

SystemNext ==
    \/ UserSwap
    \/ Listen
    \/ Fetch
    \/ EngineMoves
    \/ Receive
    \/ ManagerExit
    \/ \E s \in TradeSignals : FireMoves(s) \/ CallFails(s) \/ Refused(s) \/ Land(s)

SystemSpec == SystemInit /\ [][SystemNext]_systemVars

\* Tokio runs every ready task.  A request that is neither refused nor lost is
\* executed when its turn comes, and a call whose request was lost fails.
SystemFairness ==
    /\ WF_systemVars(Fetch)
    /\ WF_systemVars(EngineMoves)
    /\ WF_systemVars(Receive)
    /\ WF_systemVars(ManagerExit)
    /\ WF_systemVars(\E s \in TradeSignals : FireMoves(s))
    /\ WF_systemVars(\E s \in TradeSignals : Land(s))
    /\ WF_systemVars(\E s \in TradeSignals : req[s] = "lost" /\ CallFails(s))

FairSystemSpec == SystemSpec /\ SystemFairness

-----------------------------------------------------------------------------
\* The engine behaves in the process as its own module says: nothing the
\* manager or the wallet does is more than what its environment may do.
EngineSpec == Spec

\* The manager too: nothing the engine does to the channel, its sender and the
\* chain is more than what the manager's module allows its environment.
ManagerSpec == Exec!Spec

\* Every user swap is attributed to the pool it moved, for the amount it moved,
\* and that pool has reserves, or no rival the drain would take for it.
UserSwapsClear ==
    \A n \in UserSent : \E p \in Pools :
       ClearSwap(p, n) /\ (p \in fetched \/ Rivals(p) = {})

\* The chain as the users alone made it.
UserChain == [n \in 1 .. ChainHead |-> IF n \in UserSent THEN txs[n] ELSE Reverted]

\* The users' swaps of p among the first n transactions.
UserHist(p, n) == Swaps(UserChain, p, n)

\* The bot's own trades come back over the feed as transactions of a contract
\* that is not monitored, so memory never reflects them: a pool departs from
\* the chain by exactly the bot's own trades, and by no user's swap.
DriftIsOwn ==
    phase # "fetching" /\ UserSwapsClear =>
       \A p \in fetched :
          NeverFails(p) /\ Undisturbed(p) =>
             mem[p] = UserHist(p, Later(cut[p], TakenMax))

\* A task that has ended without an acknowledged trade.
Failed(s) == pc[s] \in {"failed", "reverted"}

\* A task whose request can no longer have its turn: one with an earlier nonce
\* failed without its trade being executed.
Stalled(s) ==
    /\ pc[s] = "awaiting"
    /\ \E t \in TradeSignals : /\ Failed(t)
                              /\ req[t] # "included"
                              /\ txNonce[t] < txNonce[s]

\* A signal that entered the channel is traded and acknowledged, also when the
\* engine has stopped meanwhile, unless its own task fails or it is stalled
\* behind one that did: nothing else keeps a signal from its trade.  (A signal
\* enters the channel once, so settling again and again is settling each.)
SignalsSettle ==
    []<>(\A s \in TradeSignals :
            \/ pc[s] \in {"unsent", "dropped", "submitted"}
            \/ Failed(s)
            \/ Stalled(s))

\* When the live loop has returned the manager takes what is left in the
\* channel and returns too: no sender keeps it waiting.
WindsDown == []<>(phase = "exited" => manager = "exited" /\ execChan = <<>>)

\* src/execution/mod.rs, "If another transaction changes the pool's reserves
\* between our evaluation and sequencer inclusion, this condition fires and
\* the tx is dropped for free": no executed trade has a swap of its pool A
\* between its trigger and itself.
DroppedWhenStale ==
    \A s \in DOMAIN position, n \in 1 .. ChainHead :
       s.trigger < n /\ n < position[s] => ~Moves(n, s.poolA)

=============================================================================
