----------------------------- MODULE NonceLedger -----------------------------
(***************************************************************************)
(* What the ExecutionManager promises of the wallet's nonces, without its  *)
(* counter, its tasks or the network: a claim takes the number that comes  *)
(* after the transactions the chain has executed and the claims that are   *)
(* open, as if it read both at that moment.  The counter of                *)
(* src/execution/mod.rs is read from the chain once, when the process      *)
(* starts, and only ever added to and subtracted from.                     *)
(*                                                                         *)
(* A released claim need not be the newest, and the next claim takes the   *)
(* newest number whichever was released: that two claims may then hold one *)
(* number, and another is never used, is part of the promise.              *)
(***************************************************************************)
EXTENDS Integers, FiniteSets

CONSTANTS
    Claimants,    \* who may claim a nonce, each once
    FirstNonce    \* the wallet's transaction count at the start

VARIABLES
    executed,   \* the wallet's transaction count on the chain
    claims,     \* the open claims: a function from claimants to nonces
    clean       \* no restart has left a transaction on its way

ledgerVars == <<executed, claims, clean>>

NoClaims == [c \in {} |-> 0]

Without(c) == [d \in DOMAIN claims \ {c} |-> claims[d]]

Init ==
    /\ executed = FirstNonce
    /\ claims = NoClaims
    /\ clean = TRUE

\* A claimant takes the number behind all open claims.
Claim(c) ==
    /\ clean
    /\ c \notin DOMAIN claims
    /\ claims' = [d \in DOMAIN claims \cup {c} |->
                     IF d = c THEN executed + Cardinality(DOMAIN claims)
                              ELSE claims[d]]
    /\ UNCHANGED <<executed, clean>>

\* A conditional rejection gives a claim back.
Release(c) ==
    /\ clean
    /\ c \in DOMAIN claims
    /\ claims' = Without(c)
    /\ UNCHANGED <<executed, clean>>

\* The chain executes the transaction whose turn it is.
Execute(c) ==
    /\ clean
    /\ c \in DOMAIN claims
    /\ claims[c] = executed
    /\ executed' = executed + 1
    /\ claims' = Without(c)
    /\ UNCHANGED clean

\* The process starts again and forgets its claims.  If one of them may still
\* be executed, nothing is promised from here on.
Restart ==
    /\ claims' = NoClaims
    /\ clean' \in {clean, FALSE}
    /\ UNCHANGED executed

\* A transaction of an earlier process, or one that competes with it.
ExecuteStray ==
    /\ ~clean
    /\ executed' = executed + 1
    /\ UNCHANGED <<claims, clean>>

Next ==
    \/ \E c \in Claimants : Claim(c) \/ Release(c) \/ Execute(c)
    \/ Restart
    \/ ExecuteStray

Spec == Init /\ [][Next]_ledgerVars

=============================================================================
