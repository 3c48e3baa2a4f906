------------------------------ MODULE FeedParser ------------------------------
(***************************************************************************)
(* The parser of src/feed/transaction.rs and the SwapAction accessors of   *)
(* src/types.rs: what the bot makes of a sequenced transaction.  Decoding  *)
(* bytes is library code; its outcome is the record below.                 *)
(*                                                                         *)
(*   form      "Legacy", "Eip2930" or "Eip1559" for a signed transaction;  *)
(*             anything else (a batch, a blob transaction, bytes that do   *)
(*             not decode) is another string                               *)
(*   to        the contract called                                         *)
(*   call      the function called; Undecodable if the calldata is no call *)
(*             of a router function                                        *)
(*   path      the tokens the call names, in order                         *)
(*   fee       the fee tier a single-hop V3 call names                     *)
(*   amount    the input amount the call names: exact, or a maximum        *)
(*   value     the ETH sent along                                          *)
(*   gasPrice  max_fee_per_gas or gas_price                                *)
(*   route     external: the registered pools the transaction moves on     *)
(*             chain, with the input amount of each (a function)           *)
(***************************************************************************)
EXTENDS Integers, Sequences

CONSTANT MonitoredRouters   \* config.monitored_routers

SignedForms == {"Legacy", "Eip2930", "Eip1559"}

V2Calls == { "swapExactTokensForTokens", "swapTokensForExactTokens",
             "swapExactETHForTokens", "swapTokensForExactETH" }
SingleCalls == {"exactInputSingle", "exactOutputSingle"}
MultiCalls  == {"exactInput", "exactOutput"}

\* The calls whose amount is a maximum.
ExactOutputCalls == { "swapTokensForExactTokens", "swapTokensForExactETH",
                      "exactOutputSingle", "exactOutput" }

\* The calls whose selector types.rs has right; the constant for
\* swapTokensForExactETH (0x4093f81e) is no selector of that function
\* (0x4a25d94a).
KnownSelectors == (V2Calls \ {"swapTokensForExactETH"}) \cup SingleCalls \cup MultiCalls

\* extract_tx_fields and the router filter: parse answers Some.
Parsed(tx) == tx.form \in SignedForms /\ tx.to \in MonitoredRouters

Unknown == [call |-> "unknown", path |-> <<>>, fee |-> 0, amount |-> 0]

\* decode_swap_action. A call of a known function decodes; what the library's
\* abi_decode makes of calldata without its selector is left to the README.
DecodeSwapAction(tx, ethValue) ==
    IF tx.call \in KnownSelectors
    THEN [call |-> tx.call, path |-> tx.path, fee |-> tx.fee,
          amount |-> IF tx.call = "swapExactETHForTokens" THEN ethValue ELSE tx.amount]
    ELSE Unknown

\* parse hands the gas price to decode_swap_action.
Action(tx) == DecodeSwapAction(tx, tx.gasPrice)

\* token_path_simple; <<>> stands for None, which every caller treats as it
\* treats a path of fewer than two tokens.
TokenPath(tx) ==
    IF Action(tx).call \in V2Calls \cup SingleCalls THEN Action(tx).path ELSE <<>>

\* approx_amount_in.
ApproxAmountIn(tx) == Action(tx).amount
=============================================================================
