----------------------------- MODULE SwapRouting -----------------------------
(***************************************************************************)
(* How a decoded swap is attributed to the pools of the registry: the      *)
(* parser's is_path_monitored (src/feed/transaction.rs), the token graph   *)
(* and find_matching_pool of the engine, and the pool lookup of            *)
(* apply_swap_to_lpm (src/engine/mod.rs).  These are functions of the      *)
(* static part of the registry, which never changes after load_from_db.    *)
(***************************************************************************)
EXTENDS FeedParser, FiniteSets

CONSTANTS
    Pools,      \* pool addresses in the registry
    PoolOrder,  \* the order in which the DashMap iterates over them
    Token0,     \* Pools -> token
    Token1,     \* Pools -> token
    Protocol,   \* Pools -> Protocols
    FeeTier,    \* Pools -> fee
    NoPool,     \* find_matching_pool's None
    MaxAmount   \* the largest amount a simulation's checked arithmetic takes

Protocols == {"UniswapV2", "Camelot", "UniswapV3", "Other"}
V2Like    == {"UniswapV2", "Camelot"}

ASSUME RegistryFinite == IsFiniteSet(Pools)
ASSUME RegistryTyped  == /\ Protocol \in [Pools -> Protocols]
                         /\ NoPool \notin Pools
                         /\ MaxAmount \in Nat
ASSUME RegistryOrdered ==
          /\ PoolOrder \in Seq(Pools)
          /\ \A p \in Pools : \E i \in 1 .. Len(PoolOrder) : PoolOrder[i] = p

\* A sorted token pair is the set of its two tokens.
PairOf(p) == {Token0[p], Token1[p]}

\* build_token_graph: the pools of each pair; the registry's order is theirs.
TokenGraph == [pair \in { PairOf(p) : p \in Pools } |->
                  { p \in Pools : PairOf(p) = pair }]

\* The graph has no entry for a pair without a pool.
PoolsOf(pair) == IF pair \in DOMAIN TokenGraph THEN TokenGraph[pair] ELSE {}

\* Where a scan in the registry's order ends if it accepts these pools.
First == [pools \in SUBSET Pools |->
    LET firsts == { i \in DOMAIN PoolOrder :
                       /\ PoolOrder[i] \in pools
                       /\ \A j \in 1 .. i - 1 : PoolOrder[j] \notin pools }
    IN  IF firsts = {} THEN NoPool ELSE PoolOrder[CHOOSE i \in firsts : TRUE]]

-----------------------------------------------------------------------------
\* path.windows(2), as token pairs.
Hops(tx) == LET path == TokenPath(tx)
            IN  [i \in 1 .. Len(path) - 1 |-> {path[i], path[i + 1]}]

\* The pair `evaluate` looks up: the path's first and last token.
EndPair(tx) == LET path == TokenPath(tx) IN {path[1], path[Len(path)]}

\* is_path_monitored: some adjacent pair of the path is a registered pool.
\* (No pool is locked while the scan runs: see the README.)
IsPathMonitored(tx) ==
    \E i \in 1 .. Len(TokenPath(tx)) - 1, p \in Pools : PairOf(p) = Hops(tx)[i]

\* Mutant of MatchesAction: the fee of a single-hop call is not compared.
MatchesAny(p, tx) == TRUE

\* find_matching_pool: only a single-hop call looks further than the pair.
MatchesAction(p, tx) == Action(tx).call \in SingleCalls => FeeTier[p] = tx.fee

FindMatchingPool(tx) ==
    First[{ p \in PoolsOf(EndPair(tx)) : MatchesAction(p, tx) }]

\* Mutant of Simulates: zero reserves are simulated like any others.
SimulatesZero(p, tx, fetched) == ApproxAmountIn(tx) <= MaxAmount /\ Protocol[p] # "Other"

\* The swap simulation of either protocol succeeds: the pool's reserves are
\* not zero, the arithmetic fits, and the protocol has a simulation.
Simulates(p, tx, fetched) ==
    p \in fetched /\ ApproxAmountIn(tx) <= MaxAmount /\ Protocol[p] # "Other"

\* apply_swap_to_lpm: the first pool of the hop's pair whose simulation
\* succeeds; the fee plays no part.
ReplayPool(hop, tx, fetched) ==
    First[{ p \in PoolsOf(hop) : Simulates(p, tx, fetched) }]
=============================================================================
