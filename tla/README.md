# A verification project for l2-arb-bot-nitro-backrun

TLA+ models of the backrun bot under `src/`, TLC runs that check them on small
instances, and TLAPS proofs that hold for every instance. Paths such as
`src/src/engine/mod.rs` are relative to the directory that holds both `src/`
and `tla/`.

## 1. The system

The bot listens to the Arbitrum sequencer feed, replays every swap it
recognises on an in-memory copy of the registered pools, looks for a profitable
trade of the pool just moved against another pool of the same pair, and sends
that trade with `eth_sendRawTransactionConditional`.

```
   sequencer feed                       RPC node                 sequencer
        | WebSocket                        | getReserves, slot0,     ^ HTTP
        v                                  | block number            |
  run_feed_listener --feed chan--> ArbitrageEngine --signal chan--> ExecutionManager
   (task, reconnects   (8192,       bootstrap, then     (64,         (receive loop,
    for ever)        try_send)      run_live          try_send)   one task per signal)
        |                                  |
        +---- reads static fields ---------+---- reads and writes reserves
                       LiquidityPoolManager (DashMap of RwLock<LiquidityPool>)
```

| Component | State | Operations | Talks to |
|---|---|---|---|
| `lib.rs` `run` | none of its own | load pools, build manager and engine, spawn the manager, bootstrap, wait | creates the signal channel (64), shares the registry by `Arc` |
| Feed listener, `feed/mod.rs` | a connection, its position in the stream | connect, read frames, parse, forward, reconnect | `try_send` to the feed channel: a full channel drops the message |
| Feed parser, `feed/transaction.rs`, `feed/message.rs` | none | `parse`, `is_path_monitored` | reads the registry's tokens with `try_read` |
| `LiquidityPoolManager`, `pool/manager.rs` | pools by address, their locks | `load_from_db`, `fetch_all_reserves` | RPC node, two calls per pool, pool after pool |
| `LiquidityPool`, `pool/mod.rs` | reserves or `sqrtPriceX96`/liquidity | `update`, `simulate_v2_swap_exact_in`, `simulate_v3_swap_exact_in` | none |
| `ArbitrageEngine`, `engine/mod.rs` | checkpoint, message counter, token graph | `bootstrap` (fetch, drain, go live), `run_live`, `evaluate` | both channels, the registry |
| Optimizer, `engine/optimizer.rs` | none | `optimal_v2_v2`, `estimate_gas_cost_wei`; `optimal_v2_v3` and `optimal_triangular`, which nothing calls yet | called by `evaluate` |
| `ExecutionManager`, `execution/mod.rs` | `nonce: AtomicU64` | `run`, `fire`, `send_conditional` | signal channel, sequencer |
| `config.rs`, `error.rs`, `types.rs` | none | plain data, environment variables | all |

### What is hard here

* **Concurrency.** The listener, the engine, the receive loop and every `fire`
  are tokio tasks. Fires share one atomic counter and nothing orders them.
  Blocks are produced while the pools are fetched one after another.
* **Lossy channels.** Both channels are written with `try_send`.
* **Ordering.** One checkpoint block stands for snapshots taken at several
  blocks; the feed's sequence numbers are compared with block numbers; the
  listener is spawned before the fetch but nothing waits for it to connect.
* **Failure in the middle.** A fire may fail after it took a nonce, a pool may
  keep zero reserves because its fetch failed, an evaluation may leave by `?`
  before the reserves are updated, a connection may end and the next one begin
  elsewhere, an answer may be lost after the request took effect, the process
  may be restarted with requests still on the wire.

### What makes each component correct

* *ExecutionManager*: the counter is ahead of the sequencer by exactly the
  nonces that are claimed and not executed; no request of ours is refused as
  too low; at most one task claims the nonce that is executed next; what fails
  without giving its nonce back blocks everything above it, and nothing below;
  without faults every queued signal is executed and acknowledged.
* *Fetch and drain*: the checkpoint is no older than any snapshot; what the
  drain replays is in no snapshot; the drain never applies a swap twice.
* *Engine and listener together*: a pool that no fault disturbed reflects
  exactly the chain's swaps up to the newest message handled, each once, in
  order; an unfetched pool takes no part; the loop stops after exactly the
  messages it was told to handle; bootstrap ends and the loop keeps consuming.
* *Pools and optimizer*: the product of a V2 pool's reserves never decreases,
  whatever is rounded; the root is the floor of the root; no input earns more
  than the closed form's by more than integer steps cost; a signal promises what
  the pools yield, although optimizer and pool scale fees differently.
* *The process*: each half does to the other only what the other's own model
  allows; a pool in memory departs from the chain by the bot's own trades and by
  nothing else; a queued signal is traded and acknowledged unless its own task
  or one with an earlier nonce fails; when the engine has stopped the manager
  empties the channel and stops too.

`PROJECT.json` lists the hazards one by one, at the line where each bites, with
the properties that cover it.

## 2. Modules

| Module | What it models |
|---|---|
| `ExecutionManager` | `execution/mod.rs`: signal channel, receive loop, fire tasks, nonce, restarts; the sequencer is external |
| `NonceLedger` | abstract: what the ExecutionManager promises of the wallet's nonces, without counter, tasks or network |
| `FeedParser` | `feed/transaction.rs` and `types.rs`: which transactions parse, and what each call is decoded to |
| `SwapRouting` | attribution: `is_path_monitored`, `build_token_graph`, `find_matching_pool`, the pool choice of `apply_swap_to_lpm` |
| `L2Chain` | external: the sequenced transactions, what the routers may do with each, and what a pool's reserves reflect at a block |
| `FeedListener` | `feed/mod.rs`: connection, position, `try_send`, reconnections |
| `PoolManager` | `pool/manager.rs`: sequential fetch, call by call; checkpoint; reserves |
| `ArbitrageEngine` | `engine/mod.rs`, composed with the five modules above |
| `BackrunSystem` | `lib.rs` `run`: engine and ExecutionManager over one signal channel, and the chain that carries the bot's trades |
| `LiquidityPool` | `pool/mod.rs`: both simulations, in words of a fixed width |
| `Optimizer` | `engine/optimizer.rs`: closed form, ternary searches, `isqrt`, gas estimate |
| `BackrunPricing` | the numbers of `evaluate`: simulation, optimizer, threshold, reserve update, signal |
| `ExecutionManagerProofs`, `NonceLedgerProofs`, `ArbitrageEngineProofs`, `InductionProofs`, `TrackingProofs`, `AppliedProofs`, `BackrunPricingProofs`, `BackrunSystemProofs` | theorems, section 6 |
| `MCExecutionManager`, `MCArbitrageEngine`, `MCBackrunSystem`, `MCBackrunPricing` | the instances TLC checks |

`ArbitrageEngine` EXTENDS `FeedListener` and `PoolManager`, which both EXTEND
`L2Chain` and through it `SwapRouting` and `FeedParser`; the state of each stays
in its own module (`feedVars`, `poolVars`, `engineVars`) and the composition
says what a step of one leaves alone in the others. `BackrunSystem` EXTENDS
`ArbitrageEngine` and INSTANCEs `ExecutionManager` with the signal channel for
its queue and "the live loop has not returned" for its open sender; its steps
are conjunctions of the two modules' own. `BackrunPricing` EXTENDS `Optimizer`,
which EXTENDS `LiquidityPool`; it is the numbers of the step that
`ArbitrageEngine` takes as `EvaluateSkips`, `EvaluateFails`, `EvaluateQuietly`
or `EvaluateSignals`.

Three refinements are stated and checked: `ExecutionManager` implements
`NonceLedger` (`LedgerSpec`), and `BackrunSystem` implements `ArbitrageEngine`
(`EngineSpec`) and `ExecutionManager` (`ManagerSpec`).

Operators whose comment begins with "Mutant of" are not part of the
specification: each is a plausible bug in the definition it names, kept to show
that a property would notice it.

### How the model stands for the code

**ExecutionManager.** One fire task per signal, so `pc`, `txNonce` and `req`
are functions of the signal. `TakeNonce` is the `fetch_add` of step 2;
`Submit` is signing and posting; the answers are `HandleOk`,
`HandleCondition` (an error text that contains "condition": `fetch_sub`),
`HandleError` (any other error object) and `TransportError` (`send()` or
`json()` failed, or neither `result` nor `error`). A `TransportError` is
independent of what became of the request, which may be executed later.
`Refuse` is everything a sequencer or the network can do with a request other
than executing it. `Restart` drops tasks and channel, keeps the wire, and reads
the transaction count as `ExecutionManager::new` does. The steps between
(ABI encoding, gas figures) touch no shared state. History variables: `base`,
the count this process started from, and `clean`, false after a restart that
left a request on the wire.

**NonceLedger.** A claim takes the number after the executed transactions and
the open claims, as if it read both at once; it is released or executed. The
refinement maps claims to the nonces held (`Held`). After a restart that left a
request on the wire (`clean` is false) the ledger promises nothing, and the
mapping shows it no claims.

**Transactions.** A transaction is a record of what the code can tell apart: its
form, the contract and function called, path, fee, amount, ETH and gas price;
and, for the chain only, the registered pools it moves, with the amount of each
(`route`). `FeedParser` turns it into what the engine sees. Two oddities of the
code are in it as they are: `parse` hands the gas price to the parameter that
means the ETH value, and the selector constant of `swapTokensForExactETH`
(`types.rs:11`, `0x4093f81e`) is not that function's (`0x4a25d94a`), so such a
call decodes as unknown. A call of a known function is taken to decode; section 3
says why the code may not do so.

**Reserves.** In `ArbitrageEngine` the reserves of a pool are abstracted to the
sequence of swaps they reflect, each with the amount applied: what a snapshot at
block b holds is `ChainHist(p, b)`, and applying a swap appends it. Wrong order,
double application, loss, wrong attribution and a wrong amount are visible in
that sequence; rounding is not, and is `BackrunPricing`'s subject.

**Fetch.** `CallReserves` answers one call of the pool from the chain's head:
`getReserves`, or `slot0` and `liquidity`, which run concurrently and may read
different blocks. `StoreReserves` is the later `get_block_number` with the
assignment of the reserves and the running maximum. Blocks arrive between all of
them. If the pool moved between the two V3 reads the stored snapshot is `Torn`, a
state the pool never had. `FetchFails` is any call failing, `SkipPool` a
protocol without a fetch.

**Drain.** `DrainDiscard` or `DrainReplay` per message of `try_recv`,
`DrainDone` when it finds the channel empty. Replay is `apply_swap_to_lpm`:
for each hop, the first pool of the pair on which the simulation succeeds,
whatever its fee.

**Live loop.** One evaluation is one step: `EvaluateSkips` (no path, no pool,
or no simulation), `EvaluateFails` (`optimal_v2_v2` answers `Overflow` and `?`
leaves before the update), `EvaluateQuietly` (the update alone) and
`EvaluateSignals` (update and signal). After bootstrap the engine is the only
writer of reserves, the listener reads only static fields, and `evaluate` takes
messages one at a time, so nothing it reads can change between its awaits; the
single step hides no interleaving. What the optimizer answers is a choice here:
no profit, profit on one of the counterparties, or, if `OptimizerFails`, an
error. A counterparty whose reserves are zero answers no profit, which is why
`Counterparties` asks for a fetched pool.

**Pricing.** `LiquidityPool` follows the checked operations of `pool/mod.rs` one
by one; its word width, fee denominator and price scale are constants, 256,
10 000 and 2^96 in the code. `Optimizer` does the same for `optimizer.rs`. The
V3 leg of `optimal_v2_v3` is a placeholder in the code that answers its input,
and is that here; `simulate_v3_swap_exact_in` takes no fee, and takes none here.

**System.** The two environments meet: the manager's signals are the engine's,
its sender is open until the live loop returns, and executing a trade (`Land`)
appends a transaction to the chain the engine watches. The executor contract
moves both pools or, when it makes too little, neither; the nonce is used either
way. Nobody monitors the contract, so the feed message of a trade does not parse.
The manager and its fires live on after `run(config, Some(n))` has returned, as
long as the caller's runtime, which is taken to outlive them.

**Feed.** `fed` is the position of the connection's stream. A new connection
continues (`StartPoints` holds `fed`), or, if the fault is enabled, skips or
repeats. Everything that parses is forwarded, whatever its `is_arbitrable`
flag: the flag is computed by the parser and read by nobody.

**try_read.** `is_path_monitored` skips a pool whose lock is held. It decides
only the flag nobody reads, so the model does not represent the lock.

## 3. Runs

Each run takes less than two minutes on two workers. Deadlock is not checked:
every run has a bounded chain, or a bounded set of signals, and the modelled
history ends when it is used up.

| Run | Instance | Shows |
|---|---|---|
| `exec_safety` | 4 signals, channel of 2, all faults, 1 restart, symmetric signals | types, `NonceBudget`, `NeverTooLow`, `OneHeadHolder`, `LossStallsWallet`, and that the ledger is implemented (`LedgerSpec`) |
| `engine_tracking` | a V2 and a V3 pool, chains of 3, a feed channel of 1, every feed fault, a limit of 2 messages | `CheckpointDominates`, `StreamInOrder`, `Tracks`, `DoublesAreLate`, `ExactlyN` |
| `engine_registry` | 5 pools (two pairs with rivals, one protocol without a simulation), 7 kinds of transaction, one of them a path that returns through its pairs, failing fetches and evaluations, fairness | types, `UnfetchedInert`, `DoublesAreLate`, `DeviationsExplained`, `Bootstraps`, `FeedConsumed` |
| `pricing` | 5 V2 pools and a V3 pool in 30-bit words, balanced, imbalanced, empty and deep, two evaluations | types, `RootIsFloor`, `SignalHolds`, `NothingMissed`, `SearchNearBest`, `PriceKeepsValue`, `ProductNeverShrinks` |
| `system` | 2 pools of one pair, 2 user swaps, a limit of 2 messages, a signal channel of 1, every fault of a trade, fairness | `DriftIsOwn`, `EngineSpec`, `ManagerSpec`, `SignalsSettle`, `WindsDown` |

### Runs that find a disagreement

| Run | Violated | The code against its own words |
|---|---|---|
| `exec_revert` | `RevertFreesOwnNonce` | "Revert the nonce since this tx was not broadcast" (`execution/mod.rs:193`): with two fires in flight, `fetch_sub` after the rejection of the lower nonce gives back the higher one, which the other task still uses; the rejected nonce is left to nobody |
| `engine_encoded` | `CheckpointEncoded` | "already encoded in our reserves" (`engine/mod.rs:99-101`): a pool fetched early misses a swap of a block at or below the checkpoint, and the drain discards that swap |
| `engine_update` | `UpdateRegardless` | "This must happen even if we don't fire" (`engine/mod.rs:353-354`): an `Overflow` of any counterparty leaves `evaluate` by `?` before the update |
| `engine_first_hop` | `FirstHopPool` | "the first hop's pool is determined by the (path[0], path[1]) pair" (`engine/mod.rs:379-380`): the lookup uses the first and the last token |
| `engine_eth_value` | `EthValueApplied` | "`eth_value: U256, // from tx.value`" (`types.rs:66`): `parse` passes the gas price (`feed/transaction.rs:195`), and the swap is applied for that amount |
| `search_misses` | `SearchFindsProfit` | "Unimodal Profit Maximization" (`optimizer.rs:144`), "ternary search should find an input" (`:551`): profits are clamped at zero, equal probes discard the left third, and a trade that pays only for small inputs is missed. On pools of 9000 and 11200 that is already so |
| `system_stale` | `DroppedWhenStale` | "the tx is dropped for free" (`execution/mod.rs:239-242`) if another transaction changes the pool first: the conditions are always empty |

Met on the way, without a run of their own:

* `max_transactions = Some(0)` handles one message before it stops, because the
  loop counts before it compares (`engine/mod.rs:192-194`), although
  `lib.rs:27-28` says "exactly `n`"; `ExactlyN` is therefore checked for a limit
  of at least one.
* Nothing reads `is_arbitrable`, although `feed/transaction.rs:138-139` says
  only such transactions enter the evaluation loop. `DeviationsExplained` bounds
  the damage: what is not arbitrable is applied only live, and only for paths of
  several hops.
* The live loop compares nothing with the checkpoint, so a covered message that
  was late is applied twice (`engine/mod.rs:99-101` says it "must be
  discarded"). `DoublesAreLate` says that only the live loop does so.
* "Reset if the RPC rejects with `nonce too low`" (`execution/mod.rs:61`) is not
  done: no error but a conditional one touches the counter. `NeverTooLow` shows
  that it matters only after a restart with a request on the wire.
* `decode_swap_action` strips the selector (`feed/transaction.rs:262`) and hands
  the rest to `SolCall::abi_decode`, which by alloy's interface expects the
  selector in front (`abi_decode_raw` is the variant without). With a library that
  does so, every genuine router call decodes as `Unknown` and the engine never
  applies or prices a swap, against `:252`, "decode the calldata against every
  known swap function selector". The library is not under `src/`, so no run says
  which. The model takes decoding to succeed. If nothing decodes, what is
  left of the engine's behaviours is a chain of unknown calls, which the theorems
  cover too; but no swap is ever applied then, and what `Tracks`, `DoublesAreLate`,
  `DeviationsExplained` and the signals say is said of nothing.
* The unit of a pool's fee. `pool/mod.rs:28` and `:101` and
  `tests/arbitrage_integration_test.rs:329` take a tier of 3000 for 0.30 %; the code
  takes it out of 10 000 (`pool/mod.rs:102-117`, `optimizer.rs:44`), so 3000 is 30 %,
  and `optimizer.rs:334-338` says so too (30 is 0.3 %). The pricing properties use the code's
  scale on both sides and cannot show which one the registry's rows are written in.
* The gross profit, in units of a token, is compared with gas in wei of ETH
  (`engine/mod.rs:319`); the estimate uses 350 000 gas, the transaction is sent
  with 400 000 (`execution/mod.rs:51`).

### Bounds, and why they are enough

* *Four signals* make three fires race while a fourth waits, which the
  `fetch_sub` problems need (one rejected, one holding the duplicate, one
  landing, one lost). The theorems of section 6 cover every number.
* *Channels.* `ChanCap = 2`, `ExecCap = 1` and `FeedCap` of 1 or 2: both the full
  and the partly filled channel occur with the messages at hand. The real
  capacities, 64 and 8192, differ only in when this happens.
* *`MaxRestarts = 1`*: one restart reaches every kind of leftover request.
* *`MaxTxs` of 2 or 3*: one swap before, one during and one after the fetch of
  a pool are what checkpoint, drain and tracking can confuse. In `system` it is
  4, two user swaps and a trade for each, so that the bound never keeps a trade
  from being executed and the fairness of `Land` is not vacuous.
* *A message is given at most twice* (`StartPoints`): a third time adds
  nothing to what a second application shows.
* *`BlockOffset = 0`*: the drain compares sequence numbers with block numbers
  as if they were one numbering; the runs give it that. On a chain where they
  differ by an offset the drain would discard or replay everything, and
  `BlockOffset` is there to say so. `CheckpointDominates` is proved for every
  offset.
* *`MaxAmount = 8`*: the one amount above it is the swap whose simulation
  overflows.
* *Paths* have two or three tokens, or five and pass each of two pairs twice.
  The theorems of section 6 cover every path.
* *Pricing.* Words of 30 bits hold every product of the small pools, and the
  optimizer's overflows for the deep ones (600 and 1200); a simulation fails on
  an empty pool and on a V3 price that rounding brought to zero. So
  `EvaluateFails` occurs from both causes. Fee denominators are 100 and 10, in the
  code's proportion; tiers are ones both scales express and, in two pools, ones
  `optimizer.rs` rounds. `L1Fee` is 0 and gas limit 1: with the real figures no
  small trade would ever pay. The numbers of rounds of the searches are the
  code's. Two evaluations let the second start from rounded reserves.

## 4. Properties worth a word

`NonceBudget` is exact: a lost answer, a late execution or a concurrent
`fetch_sub` may put the wallet in a bad place (`LossStallsWallet`: a dead
nonce and nothing above it ever lands), but never moves the counter away from
"sequencer plus claimed". `OneHeadHolder` is the surprising one: `fetch_sub`
does hand one nonce to two tasks, but never the one the sequencer executes
next.

`Tracks` is the engine's promise. It is conditional, and its conditions are
spelled out as definitions rather than bounds: `OnlyClearSwaps` (the registry
attributes every swap that concerns the pool to the pool it moved and for the
amount it moved, be it this pool or a rival with reserves, and an evaluation of
the pool cannot fail) and `Undisturbed` (the snapshot is a
state the pool had; no swap of the pool after it was lost or discarded, none was
given again, and none that the snapshot has reached the live loop). Each is
there because a run or a reading shows the code needs it: dropping `discarded`
gives `engine_encoded`, dropping `OptimizerFails` gives `engine_update`,
dropping the single-hop condition gives `engine_first_hop`, dropping the amount
gives `engine_eth_value`, dropping the torn snapshot gives a pool with the price
of one block and the liquidity of another.

`StreamInOrder` is what the engine may assume of its feed and no more: the
messages taken so far, followed by those still buffered, are the feed in order,
and whatever is missing or out of order was lost (full or closed channel,
garbled frame, reconnection further on) or given again. `Tracks` rests on it.

`DeviationsExplained` is the other side of `Tracks`: where that promises nothing,
it says in which ways memory may be wrong. A swap lands on a rival pool only
where the code keeps no way to tell the two apart, an amount is wrong only
upwards or for ETH, and what is not arbitrable is applied only by the live loop,
along a path of several hops. "By the live loop" is said of the messages that
loop took: a message the drain took may be given again after a reconnection, so
"not by the drain" would be false, which the runs (no replays where the registry
is ambiguous) do not show and the proof did. The property relates what is applied
to what the chain did, so it needs to know what a router does with a call:
`RoutersFollowCalls` in `L2Chain`.

`DoublesAreLate` says which part of the code is to blame for a double: the live
loop, which compares nothing with the checkpoint, or a path with several hops
between the pool's tokens, which the drain applies once for each of them.

`NothingMissed` tries every input on every candidate after each evaluation. The
slack it grants is what integer steps cost: one unit sold to pool A, and one of
what it sells at pool B's price. Without the slack it is false, with the unscaled
root it is false too. The last part of the slack was found by the proof: where a
first unit sold to a pool A of dust buys several times what pool B holds (1 against
100 000, with 100 on either side of pool B), the closed form rounds to no trade,
and misses all that this one unit earns. For pools anyone would register that part
is zero, as it is in the run. `SignalHolds` is exact for fee tiers both
scales express; for others the optimizer promises at least what the trade
yields, and the executor's guard of 80 % may then refuse a trade with a small
profit. The second half asks for `NotDust`: `pool/mod.rs` multiplies by 10 000
where `optimizer.rs` multiplies by 1000, so its simulation of the second leg could
overflow where the optimizer's product still fits. The proof could not be finished
without the condition, and shows that it is a weak one: it holds of all reserves
where the tier of the first pool is at most 99 %.

`PriceKeepsValue` is the counterpart of `ProductNeverShrinks` for V3, where the code
rounds the new price down whichever way it moves. Token1 sold and bought back never
earns anything; token0 sold and bought back may earn what one unit of price is worth,
`Q96 * liquidity` over the product of both prices, since a falling price should have
been rounded up. And the price is rounded to zero, after which the pool can never be
simulated again, only by an input that outweighs the token0 in range as many times
as the price counts units. At the prices pools have, about 2^96, that is more than
any balance; but the engine takes amounts from calldata, and never sees whether the
swap succeeded.

`SearchNearBest` and `SearchFindsProfit` split one claim in two: a search that
answers is as good as trying every input, but it may fail to answer. How good is in
the slack of a search: what its last interval still spans, sold at the price of all
legs (each round leaves two thirds, so that 40 rounds leave a ten-millionth of what a
deep pool holds, which may be far more than two units),
and the unit each leg rounds away, at the price of the legs after it, five times. A
fixed slack of two units is not a fact about all constants. The searches considered
are those of pools with reserves (`Stocked`) whose products fit a word (`Fits`), as
those of reserves of 112 bits do.

`DriftIsOwn` says how far `Tracks` carries in the composed process: the bot's own
trades move both pools, come back as transactions of a contract that is not
monitored, and never enter memory, so from the first trade on the engine reckons
with pools it has itself moved. The drift is exactly that and no more. Two of its
conditions were found by the proof, on registries the run does not have: an
evaluation that fails keeps a user's swap out of memory (`NeverFails`), and the
drain takes the swap of a pool whose fetch failed for one of a rival
(`UserSwapsClear` asks for reserves, or for no rival).

`SignalsSettle` excuses a signal behind a dead nonce (`Stalled`), since
`LossStallsWallet` shows that it can never be executed, and nothing else.

## 5. Fairness

`ArbitrageEngine!Fairness`: weak fairness of the fetch as a whole (every RPC
call is answered or fails) and of the engine's own steps as a whole (its task
is polled). Nothing is assumed of the feed, the sequencer or the
ExecutionManager: bootstrap ends with an RPC node that only fails, and the loop
keeps consuming while nobody takes its signals.

`BackrunSystem!SystemFairness`: the same for `Fetch` and `EngineMoves`; weak
fairness of `Receive`, `ManagerExit` and of the fires' own steps (tokio polls
every ready task); and two assumptions about the network: a request that is
neither refused nor lost is executed when its turn comes (`Land`), and a call
whose request was lost fails in the end. The HTTP client has no timeout
(`execution/mod.rs:283`), so with a connection that stays silent for ever
nothing could be promised. No fairness of the feed, of users or of refusals.

## 6. Proofs

`ExecutionManagerProofs`, from the assumptions `SignalsFinite` and
`ConstantsTyped` only: for every finite set of signals, channel capacity,
starting nonce, set of faults and number of restarts,

* `TypeCorrect` (includes the channel bound and that `fetch_sub` never
  underflows), `NonceBudgetHolds`, `NeverTooLowHolds`, `OneHeadHolderHolds`,
  `LossStallsWalletHolds`.

None of them is inductive. The invariant `IInv` adds: where a signal in the
channel can be (`QueueShape`), what a task's program counter says of its
request (`Shape`), that the two counters count tasks, `nonce = base +
|Taken|` and `chainNonce = base + |Landed|` (`Accounting`), and `Window`: for
every k, at most k tasks claim one of the k nonces from the sequencer's next
one on. `Window` is the heart. `fetch_sub` can duplicate nonces, so distinctness
is not an invariant; but a task that takes a nonce takes the top of the window
(by `Accounting`, `nonce - chainNonce` tasks are below it), a task that gives
its nonce back only thins it out, and an execution removes the one task at its
bottom. k = 0 gives `NeverTooLow`, k = 1 gives `OneHeadHolder`.
`IInv` was checked by TLC on the `exec_safety` instance before it was proved.

`NonceLedgerProofs` proves `ImplementsLedger`, `Spec => LedgerSpec`, from the
same invariant: every step of the ExecutionManager is a step of the ledger under
the mapping, or changes none of what it maps. `TakeNonce` is a claim because the
counter is `chainNonce + |Held|` (`NonceBudget`), `HandleCondition` a release,
`Include` an execution.

`ArbitrageEngineProofs` proves, for every registry, chain, block offset, feed
behaviour and set of failing fetches,

* `CheckpointDominatesHolds`. The strengthening `FetchOrder` relates the reads of
  a snapshot, one or two, to the later read of the block number: the chain has
  not shrunk between them;
* `ExactlyNHolds`, for every limit but 0, from `CountInv`: the count never passes
  the limit, and the loop leaves only at it;
* `UnfetchedInertHolds`. `InertInv` says which pools are empty and which pools a
  signal may name; it holds because every scan of the registry
  (`find_matching_pool`, `apply_swap_to_lpm`, the counterparties) ends at a pool
  with reserves or at none (`RoutedIsFetched`), and only a completed fetch gives
  reserves to a pool that has none.

`InductionProofs` makes induction possible where it is needed. The induction
theorems of the library take an operator as a parameter, which the provers here
cannot instantiate, but the existence of a least element of a non-empty set of
naturals (`LeastNatural`, from `NatLessThanWellFounded`) does not, and induction
over a *set* of naturals (`NaturalsBySteps`) and the equation of a function that is
recursive in a natural (`RecursionSolved`) follow from it.

`TrackingProofs` begins with the history of a pool on the chain, `Swaps(chain, p, n)`,
a recursive function of n: `SwapsSteps` (what one more transaction adds),
`SwapsQuiet` (transactions that do not move the pool add nothing), `SwapsOfPrefix`
(appending to the chain does not rewrite its past), `SwapsAgree` (only what the
transactions do to the pool matters) and `SwapsAreSwaps`. It proves, for
every registry, set of transactions, chain, feed behaviour, channel capacity and RPC
failure,

* `EngineTypeCorrect`, from `Shapes`, the types by component; a snapshot is never
  of a block beyond the chain's head.
* `StreamInOrderHolds`. `StreamInv` ties what was given to the listener's position
  on the feed: every parsed message up to `fed` was given, lost or repeated, and
  everything given from beyond it is repeated (a reconnection went back). Without
  the first clause the next message handed over could skip one that nothing
  accounts for; without the second it could come after a later one.
* `TracksHolds`. `TrackInv` is the engine's promise as of *this* moment: a clear,
  undisturbed pool reflects the chain up to `Later(cut[p], m)`, where m is the
  newest message taken. A step that takes message n must show that nothing that
  concerns the pool lies between m and n, which is `StreamInOrder` together with
  `Undisturbed` (not lost, not discarded, not repeated), and that n is applied to
  the pool exactly if it moves it (`ClearSwap`). `OnlyClearSwaps` and `Undisturbed`
  speak of the whole chain, so a swap that is sequenced later may disturb the
  pool, never un-disturb it: the invariant is proved from the conditions *after* the
  step, which imply those before (`Undisturbed` is downward closed). `TrackInv` says a
  little more than `Tracks`: transactions that name no path the code can use may move
  the pool once its snapshot is taken, and memory then reflects the chain without
  them (`ReadChain`). `Tracks` is the case without such transactions, `DriftIsOwn` the
  case where the bot sends them.

`AppliedProofs` goes on, with the same generality,

* `DoublesAreLateHolds`, from `DoubleInv`: a message not taken yet is reflected at
  most once and only by the snapshot, and one taken is reflected once too, or the
  snapshot had it and the loop is live. The drain keeps this because what it
  replays lies above the checkpoint, hence above every snapshot
  (`CheckpointDominates`).
* `DeviationsExplainedHolds`, from `AppliedInv`: everything past a pool's snapshot is
  a transaction the code attributed to the pool, for the amount its call names: the
  drain because a hop of the path has the pool's tokens (`Replayed`), the live loop
  because its ends have and the pool's protocol and tier match the call
  (`Evaluated`). The three clauses follow entry by entry from that trace and from
  `RoutersFollowCalls`.

`BackrunPricingProofs` proves, for every word width, fee denominator, tier,
registry and set of amounts,

* `ISqrtIsFloor`: `isqrt` answers the floor of the root of every word, and
  `RootIsFloorHolds`. Newton's iteration is a recursive function on naturals whose
  argument shrinks, not one in a natural that counts up, so `RecursionSolved` does
  not apply; instead the proof exhibits a solution of its equation in closed form
  (x where x is not above the root, else the root), which makes the `CHOOSE` behind
  the function meaningful, and then shows that a least starting point above the root
  from which it ends elsewhere cannot exist. `NewtonStep` is the arithmetic of one
  step, `StartAboveRoot` that the shift by half the bit length starts above the root.
* `PricingTypeCorrect`: reserves stay words. `MulTyped` to `DivTyped` say what a
  checked operation answers if it answers a number; every operator of the two
  components is typed from them, both simulations included. The strengthening is
  `ReservesTyped`, and `SignalsAre` says what a signal has to do with the trade it is
  made of.
* `SignalHoldsHolds`: `TradeYields`, for two pools, carried over every step. That the
  trade never yields more than promised (`YieldsNoMore`) is monotonicity: a larger
  input at a smaller fee buys no less, and the optimizer's coarser scale never
  takes more of a fee. That it yields as much where the tier is exact
  (`YieldsExactly`) needs every product of `pool/mod.rs` to fit a word although the
  optimizer checked only its own: `OptimalBounds` shows that with the input of the
  closed form neither leg's denominator exceeds the root (the root stands for
  the square root of the product of all reserves and fees, and a trade moves each
  denominator at most that far), and ten thousand times the root of a word fits a
  word. Only the last product of the second leg is not bounded that way: the
  radicand bounds it, which did fit a word, given `NotDust`.
* `NothingMissedHolds`. On the curve of both pools an input x yields
  `N x / (D + E x)`. Two legs in whole units yield no more than that
  (`TwoLegsBelow`) and less by no more than a unit and a unit of the first leg at the
  price of the second (`TwoLegsAbove`). The exact profit has its peak where the
  denominator is the root of `N D`, the radicand of the closed form times the square
  of the fee scale. `CurvePeaks` compares two inputs without fractions: a smaller
  input than one that has not passed the peak earns less, a larger one more by at most
  the square of the distance to the peak over E times the denominator. The two floors
  of the closed form, root and quotient, leave that distance below E plus the scale,
  and the excess at one unit (`ClosedFormPeaks`). Where the quotient rounds to no trade
  at all the denominator may be small against E, which is the last part of the slack.
  `OptimalAnswers` finds these numbers in the checked operations of `optimal_v2_v2`,
  and `BestIsSignalled` passes from the pair of pools to the signal.
* `SearchNearBestHolds`. A leg in whole units stays within one unit below a concave
  curve `N x / (D + E x)`, and a row of legs within `e` units of one such curve
  (`FirstLegNear`, `NextLegNear`), so that profits are concave but for a noise `e`
  (`NearConcave`). Clamped at zero they are not even that: two probes that both lose
  say nothing about the side the peak is on, and equal probes discard the left third.
  The invariant `Searching` says what such a search may have dropped: either
  nothing was earned so far, and only left thirds are gone, each ending at a losing
  input (`NothingYet`); or something was, and either the peak is still inside, around
  a middle that pays (`PeakInside`), or no input at all earns more than the best
  probe but for five times the noise (`NoneBetter`). `NarrowKeeps` carries it over an
  iteration, `LeftThirdIsWorse` and `RightThirdIsWorse` bound what a discarded third
  may hold, `ProbesAroundPeak` what an interval holds whose probes both lose around a
  middle that pays, `BeforeFirstProfit` what left thirds hold once something pays.
  What remains is the last interval, over which profits rise by no more than the
  spot prices multiplied (`LegsRise`).
* `PriceKeepsValueHolds`: `FallIs` and `RiseIs` say what the floors of a V3 simulation
  mean as inequalities between price, liquidity, input and output; `ClimbAndFall` and
  `FallAndClimb` chain two of them. The first cancels (the price comes back no lower
  than it was), the second leaves `L P < (L + d) (P1 + 1)`, which is where the unit of
  price comes from; `FallsToZero` is the same inequality at `P1 = 0`.
* `SimulateV2KeepsProduct`: a V2 simulation that does not overflow leaves both
  reserves non-zero and their product no smaller. The argument is
  `StepKeepsProduct`: the floor of the division means
  `(in * 10_000 + amount * kept) * out <= amount * kept * reserve_out`, and the fee
  only widens the gap. `ProductNeverShrinksHolds` carries it over every sequence of
  evaluations.

`BackrunSystemProofs` proves that the composed process implements both halves:
`SystemRunsEngine` and `SystemRunsManager`, step by step, the latter from the
fact that a step that sends no signal, takes none and lands none stutters for
the manager. With the first, every property proved of the engine holds
of the process; `SystemCheckpointDominates` is such a one. `DriftIsOwnHolds` needs both
halves at once: `BotInv` says that before the live loop there is no signal in the
channel, no fire task and no request, so that every trade on the chain is newer than
every snapshot; a trade names no path, so the chain the engine can read is the chain
the users made (`ReadIsUsers`), and `TrackInv` says that memory follows it.

The assumptions on the constants are those the modules name. Four are not about
types: `RoutersFollowCalls` (used by `DeviationsExplainedHolds` only), that a limit
on the number of messages is not 0 (`ExactlyNHolds`), `WordsWide`, that a word
holds the square of the fee denominator (`SignalHoldsHolds`; 10^8 in 256 bits), and
`ScaleIsFine`, that the optimizer's fee scale is at least 3 (`NothingMissedHolds`; it
is 1000).

Only checked by TLC: liveness (`Bootstraps`, `FeedConsumed`, `SignalsSettle`,
`WindsDown`), which is out of the prover's reach, as is everything with `ENABLED`.
Every invariant and every safety property of the passing runs is a theorem.

## 7. Not modelled, and why

* Byte, RLP and ABI decoding of feed messages (library code) appear by their
  outcome; section 3 has a doubt about the ABI calls. SQLite rows, environment variables, logging: I/O.
* `config.rs`, `error.rs`: no state and no interaction. Values of the
  configuration are constants of the modules.
* The lock `is_path_monitored` and `find_matching_pool` try: a held lock makes the
  former skip a pool, which decides only the flag nobody reads; at the latter
  nobody holds it, since the engine is the only writer.
* A pool's `last_sequence_number` and `timestamp`: written, never read.
* ABI encoding, signing and gas fields of the bot's transaction: data the nonce
  protocol does not depend on. Of the calldata only the profit guard is modelled.
* The saturation of the gas estimate at 128 bits, for gas prices above 2^109 wei.
* What the searches do when a product does not fit: the model makes it no gain,
  where `evaluate_v2_v3_profit` answers `Err` and the triangular one wraps or, on a
  zero denominator, panics. The properties speak of `Stocked` pools whose products
  fit (`Fits`) only. Of equally good counterparties the code keeps the first;
  `Signals` may choose any.
* A start-up error (a malformed URL, a database that does not open), which makes
  `run` return before anything moves; the end of the process at Ctrl+C in the
  composition (`ExecutionManager` has restarts); a caller whose runtime ends with
  `run(config, Some(n))`.
* Feed replays in `BackrunSystem`: a signal is emitted once there, so the second
  trade of a message given twice is not one of its behaviours.
* The executor contract beyond "both pools or neither", the integration test and
  its mocks: fixtures.

## 8. Plan

Done, in this order: `ExecutionManager` with its proofs; the engine with its feed
and pools, bootstrap safety proved; pool, optimizer and evaluation arithmetic;
the V3 fetch as two reads, amounts and attribution; the nonce ledger and its
refinement; the composed process and its two refinements; the V2 product and the
unfetched pools as theorems; order, tracking, doubles, deviations and the drift of
the engine's memory, the root, the signal's promise, that no better trade is
missed, the ternary searches and the roundings of V3 as theorems.

What could follow:

1. The feed channel as an abstract lossy queue implemented by `FeedListener` and
   the engine's receiving end.
2. When the code dispatches V2/V3 and triangular routes from `evaluate`, `Signals`
   over all three optimizers.
