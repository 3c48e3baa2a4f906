----------------------------- MODULE PoolManager -----------------------------
(***************************************************************************)
(* LiquidityPoolManager of src/pool/manager.rs: the registry's dynamic     *)
(* state and the sequential fetch of its reserves.  A pool that was never  *)
(* fetched still has its zero reserves.                                    *)
(*                                                                         *)
(* External: one RPC node, which answers each call from its latest block.  *)
(***************************************************************************)
EXTENDS L2Chain

CONSTANT RpcFails   \* whether a pool's RPC calls may fail

ASSUME RpcTyped == RpcFails \in BOOLEAN

VARIABLES
    toFetch,   \* pools fetch_all_reserves has still to visit, in order
    reading,   \* the answered calls of the current pool, each with the
               \* chain position it read
    maxBlock,  \* fetch_all_reserves' max_block
    fetched,   \* pools whose reserves were stored
    mem,       \* Pools -> the swaps the reserves in memory reflect
    cut        \* history: Pools -> the chain position of the stored snapshot

poolVars == <<toFetch, reading, maxBlock, fetched, mem, cut>>

NoAnswers == [call \in {} |-> 0]

InitPools ==
    /\ toFetch = PoolOrder
    /\ reading = NoAnswers
    /\ maxBlock = 0
    /\ fetched = {}
    /\ mem = [p \in Pools |-> <<>>]
    /\ cut = [p \in Pools |-> 0]

-----------------------------------------------------------------------------
\* The calls that read a pool: one for V2, two concurrent ones for V3.
CallsOf(p) == CASE Protocol[p] \in V2Like     -> {"getReserves"}
                [] Protocol[p] = "UniswapV3"  -> {"slot0", "liquidity"}
                [] OTHER                      -> {}

\* A protocol without a fetch is skipped and reports block 0.
SkipPool ==
    /\ toFetch # <<>>
    /\ CallsOf(Head(toFetch)) = {}
    /\ toFetch' = Tail(toFetch)
    /\ UNCHANGED <<reading, maxBlock, fetched, mem, cut>>

\* One of the pool's calls is answered.
CallReserves ==
    /\ toFetch # <<>>
    /\ \E call \in CallsOf(Head(toFetch)) \ DOMAIN reading :
          reading' = [c \in DOMAIN reading \cup {call} |->
                         IF c = call THEN ChainHead ELSE reading[c]]
    /\ UNCHANGED <<toFetch, maxBlock, fetched, mem, cut>>

\* Mutant of Later: the checkpoint is the earliest block observed.
Earlier(block, max) == IF max = 0 \/ block < max THEN block ELSE max

Later(block, max) == IF block > max THEN block ELSE max

\* The position the first answer came from.
Oldest == CHOOSE n \in { reading[c] : c \in DOMAIN reading } :
             \A c \in DOMAIN reading : n <= reading[c]

\* Reserves that no block ever had.
Torn == <<[tx |-> 0, amount |-> 0]>>

\* What the answers add up to: the pool at the position they came from, or
\* two halves of different states.
Snapshot(p) ==
    IF \E c \in DOMAIN reading, n \in Oldest + 1 .. ChainHead :
          n <= reading[c] /\ Moves(n, p)
    THEN Torn
    ELSE ChainHist(p, Oldest)

\* get_block_number is answered, after every reserves call: the reserves are
\* stored and the checkpoint moves up.
StoreReserves ==
    /\ toFetch # <<>>
    /\ CallsOf(Head(toFetch)) # {}
    /\ DOMAIN reading = CallsOf(Head(toFetch))
    /\ LET p == Head(toFetch)
       IN  /\ mem' = [mem EXCEPT ![p] = Snapshot(p)]
           /\ cut' = [cut EXCEPT ![p] = Oldest]
           /\ fetched' = fetched \cup {p}
    /\ maxBlock' = Later(BlockAt(ChainHead), maxBlock)
    /\ toFetch' = Tail(toFetch)
    /\ reading' = NoAnswers

\* Mutant of FetchFails: the failed pool is tried again.
RetryPool ==
    /\ RpcFails
    /\ toFetch # <<>>
    /\ CallsOf(Head(toFetch)) # {}
    /\ reading' = NoAnswers
    /\ UNCHANGED <<toFetch, maxBlock, fetched, mem, cut>>

\* One of the calls fails: a warning, and the next pool.
FetchFails ==
    /\ RpcFails
    /\ toFetch # <<>>
    /\ CallsOf(Head(toFetch)) # {}
    /\ toFetch' = Tail(toFetch)
    /\ reading' = NoAnswers
    /\ UNCHANGED <<maxBlock, fetched, mem, cut>>

FetchNext == SkipPool \/ CallReserves \/ StoreReserves \/ FetchFails

\* LiquidityPool::update with the reserves simulated for an input of
\* transaction n, once for each of its hops attributed to the pool.
ApplyHops(n, times) ==
    mem' = [p \in Pools |->
               mem[p] \o [i \in 1 .. times[p] |->
                             [tx |-> n, amount |-> ApproxAmountIn(txs[n])]]]
=============================================================================
