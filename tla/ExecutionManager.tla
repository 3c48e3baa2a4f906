--------------------------- MODULE ExecutionManager ---------------------------
(***************************************************************************)
(* The ExecutionManager of src/execution/mod.rs: it receives arbitrage     *)
(* signals from a bounded channel, spawns one `fire` task per signal, and  *)
(* each task takes the wallet's next nonce from a local atomic counter,    *)
(* signs, posts eth_sendRawTransactionConditional and interprets the       *)
(* answer.  The tasks run concurrently; the counter is the only state they *)
(* share.                                                                  *)
(*                                                                         *)
(* The sequencer is external: the only thing known of it is what the code  *)
(* relies on, that it executes the wallet's transactions in nonce order    *)
(* and answers each request at most once.  Requests travel over a network  *)
(* that may lose, delay or reorder them, and an answer may be lost after   *)
(* the request took effect.  Nobody else uses the wallet.                  *)
(***************************************************************************)
EXTENDS Integers, Sequences, FiniteSets

CONSTANTS
    Signals,      \* the signals the engine emits in the modelled history
    ChanCap,      \* capacity of the signal channel (64 in src/lib.rs)
    StartNonce,   \* the wallet's transaction count when the bot first starts
    Faults,       \* what the environment may do wrong, a subset of FaultKinds
    MaxRestarts   \* bound on process restarts

FaultKinds ==
    { "sign",       \* signing fails after the nonce was taken
      "transport",  \* the request or its answer is lost
      "condition",  \* the sequencer answers with a conditional rejection
      "early",      \* the sequencer refuses a nonce it is not ready for
      "other",      \* the sequencer refuses the transaction for another reason
      "restart" }   \* the process stops and is started again

ASSUME SignalsFinite  == IsFiniteSet(Signals)
ASSUME ConstantsTyped == /\ ChanCap \in Nat \ {0}
                         /\ StartNonce \in Nat
                         /\ MaxRestarts \in Nat
                         /\ Faults \subseteq FaultKinds

VARIABLES
    queue,       \* the mpsc channel between the engine and the manager
    senderOpen,  \* the engine still holds exec_tx
    manager,     \* the receive loop: "running" or "exited"
    pc,          \* where each signal's fire task is
    txNonce,     \* the nonce a fire task has taken
    nonce,       \* ExecutionManager::nonce, the local AtomicU64
    req,         \* what became of each task's request at the sequencer
    chainNonce,  \* external: the wallet's next nonce at the sequencer
    base,        \* history: the nonce this process started from
    clean,       \* history: no restart has left a request on the wire
    restarts     \* restarts so far

engineVars    == <<queue, senderOpen, manager>>
sequencerVars == <<req, chainNonce>>
processVars   == <<base, clean, restarts>>
vars == <<queue, senderOpen, manager, pc, txNonce, nonce, req, chainNonce,
          base, clean, restarts>>

PcStates  == { "unsent", "dropped", "queued", "spawned", "signing", "awaiting",
               "submitted", "reverted", "failed", "gone" }
ReqStates == { "none", "wire", "lost", "included", "condition", "tooLow",
               "tooHigh", "refused" }

-----------------------------------------------------------------------------
(* Sets of fire tasks.                                                     *)

\* Tasks of the running process whose fetch_add has not been undone.
Taken  == { s \in Signals : pc[s] \in {"signing", "awaiting", "submitted", "failed"} }
\* Those among them whose transaction the sequencer has executed.
Landed == { s \in Taken : req[s] = "included" }
\* Those that still claim a nonce the sequencer has not executed.
Held   == Taken \ Landed
\* Held nonces that no request can ever use any more.
Dead   == { s \in Held : pc[s] = "failed" /\ req[s] # "wire" }
\* Held nonces less than k above the sequencer's next one.
Below(k) == { s \in Held : txNonce[s] < chainNonce + k }

-----------------------------------------------------------------------------
(* The counter: AtomicU64::fetch_add(1) and fetch_sub(1).                  *)

\* Mutant of Increment: the counter is read but not advanced.
ReadOnly(n) == n

Increment(n) == n + 1
Decrement(n) == n - 1

\* The errors for which `fire` gives its nonce back: only an error object
\* whose text contains "condition".
RevertedVerdicts == {"condition"}

\* The other error objects: `fire` returns Err and keeps the nonce.
ErrorVerdicts == {"tooLow", "tooHigh", "refused"} \ RevertedVerdicts

-----------------------------------------------------------------------------
(* The engine's end of the channel.                                        *)

\* Mutant of EmitSignal: the channel accepts signals beyond its capacity.
EmitUnbounded(s) ==
    /\ senderOpen
    /\ pc[s] = "unsent"
    /\ queue' = Append(queue, s)
    /\ pc' = [pc EXCEPT ![s] = "queued"]
    /\ UNCHANGED <<senderOpen, manager, txNonce, nonce, sequencerVars, processVars>>

\* exec_tx.try_send(signal): the signal is dropped when the channel is full.
EmitSignal(s) ==
    /\ senderOpen
    /\ pc[s] = "unsent"
    /\ IF Len(queue) < ChanCap
       THEN /\ queue' = Append(queue, s)
            /\ pc' = [pc EXCEPT ![s] = "queued"]
       ELSE /\ pc' = [pc EXCEPT ![s] = "dropped"]
            /\ UNCHANGED queue
    /\ UNCHANGED <<senderOpen, manager, txNonce, nonce, sequencerVars, processVars>>

\* The engine's loop ends (max_transactions) and drops its sender.
CloseSender ==
    /\ senderOpen
    /\ senderOpen' = FALSE
    /\ UNCHANGED <<queue, manager, pc, txNonce, nonce, sequencerVars, processVars>>

-----------------------------------------------------------------------------
(* The manager's receive loop.                                             *)

\* Mutant of Receive: the loop stops taking signals once its sender is gone.
ReceiveWhileOpen ==
    /\ manager = "running"
    /\ senderOpen
    /\ queue # <<>>
    /\ pc' = [pc EXCEPT ![Head(queue)] = "spawned"]
    /\ queue' = Tail(queue)
    /\ UNCHANGED <<senderOpen, manager, txNonce, nonce, sequencerVars, processVars>>

\* Take the next signal and spawn its fire task.
Receive ==
    /\ manager = "running"
    /\ queue # <<>>
    /\ pc' = [pc EXCEPT ![Head(queue)] = "spawned"]
    /\ queue' = Tail(queue)
    /\ UNCHANGED <<senderOpen, manager, txNonce, nonce, sequencerVars, processVars>>

\* Mutant of ManagerExit: the loop ends with the sender, whatever is queued.
ExitWithSender ==
    /\ manager = "running"
    /\ ~senderOpen
    /\ manager' = "exited"
    /\ UNCHANGED <<queue, senderOpen, pc, txNonce, nonce, sequencerVars, processVars>>

\* recv() answers None once the channel is closed and empty.
ManagerExit ==
    /\ manager = "running"
    /\ queue = <<>>
    /\ ~senderOpen
    /\ manager' = "exited"
    /\ UNCHANGED <<queue, senderOpen, pc, txNonce, nonce, sequencerVars, processVars>>

-----------------------------------------------------------------------------
(* A fire task.                                                            *)

\* Mutant of TakeNonce: the task uses the counter's new value, not the old.
TakeAddedNonce(s) ==
    /\ pc[s] = "spawned"
    /\ nonce' = Increment(nonce)
    /\ txNonce' = [txNonce EXCEPT ![s] = nonce']
    /\ pc' = [pc EXCEPT ![s] = "signing"]
    /\ UNCHANGED <<engineVars, sequencerVars, processVars>>

\* Step 2 of fire: fetch_add on the shared counter.
TakeNonce(s) ==
    /\ pc[s] = "spawned"
    /\ txNonce' = [txNonce EXCEPT ![s] = nonce]
    /\ nonce' = Increment(nonce)
    /\ pc' = [pc EXCEPT ![s] = "signing"]
    /\ UNCHANGED <<engineVars, sequencerVars, processVars>>

\* Step 4 fails: `?` leaves fire with the nonce taken.
SignFails(s) ==
    /\ "sign" \in Faults
    /\ pc[s] = "signing"
    /\ pc' = [pc EXCEPT ![s] = "failed"]
    /\ UNCHANGED <<engineVars, txNonce, nonce, sequencerVars, processVars>>

\* Steps 4 to 6: sign and post the request.
Submit(s) ==
    /\ pc[s] = "signing"
    /\ pc' = [pc EXCEPT ![s] = "awaiting"]
    /\ req' = [req EXCEPT ![s] = "wire"]
    /\ UNCHANGED <<engineVars, txNonce, nonce, chainNonce, processVars>>

\* The answer carries a transaction hash.
HandleOk(s) ==
    /\ pc[s] = "awaiting"
    /\ req[s] = "included"
    /\ pc' = [pc EXCEPT ![s] = "submitted"]
    /\ UNCHANGED <<engineVars, txNonce, nonce, sequencerVars, processVars>>

\* Mutant of HandleCondition: the fetch_sub is forgotten.
ConditionKeepsNonce(s) ==
    /\ pc[s] = "awaiting"
    /\ req[s] \in RevertedVerdicts
    /\ pc' = [pc EXCEPT ![s] = "reverted"]
    /\ UNCHANGED <<engineVars, txNonce, nonce, sequencerVars, processVars>>

\* The answer is an error whose text contains "condition": the task gives
\* a nonce back with fetch_sub.
HandleCondition(s) ==
    /\ pc[s] = "awaiting"
    /\ req[s] \in RevertedVerdicts
    /\ pc' = [pc EXCEPT ![s] = "reverted"]
    /\ nonce' = Decrement(nonce)
    /\ UNCHANGED <<engineVars, txNonce, sequencerVars, processVars>>

\* Mutant of HandleError: every refusal resets the counter to the chain's.
ErrorResyncsNonce(s) ==
    /\ pc[s] = "awaiting"
    /\ req[s] \in ErrorVerdicts
    /\ pc' = [pc EXCEPT ![s] = "failed"]
    /\ nonce' = chainNonce
    /\ UNCHANGED <<engineVars, txNonce, sequencerVars, processVars>>

\* Any other error object: fire returns Err, the counter stays.
HandleError(s) ==
    /\ pc[s] = "awaiting"
    /\ req[s] \in ErrorVerdicts
    /\ pc' = [pc EXCEPT ![s] = "failed"]
    /\ UNCHANGED <<engineVars, txNonce, nonce, sequencerVars, processVars>>

\* Mutant of TransportError: a failed call is taken for one never broadcast.
TransportFreesNonce(s) ==
    /\ "transport" \in Faults
    /\ pc[s] = "awaiting"
    /\ pc' = [pc EXCEPT ![s] = "reverted"]
    /\ nonce' = Decrement(nonce)
    /\ UNCHANGED <<engineVars, txNonce, sequencerVars, processVars>>

\* send() or json() fails, or the answer holds neither an error nor a result,
\* whatever became of the request: fire returns Err, the counter stays.
TransportError(s) ==
    /\ "transport" \in Faults
    /\ pc[s] = "awaiting"
    /\ pc' = [pc EXCEPT ![s] = "failed"]
    /\ UNCHANGED <<engineVars, txNonce, nonce, sequencerVars, processVars>>

-----------------------------------------------------------------------------
(* The sequencer and the network (external).                               *)

Include(s) ==
    /\ req[s] = "wire"
    /\ txNonce[s] = chainNonce
    /\ req' = [req EXCEPT ![s] = "included"]
    /\ chainNonce' = chainNonce + 1
    /\ UNCHANGED <<engineVars, pc, txNonce, nonce, processVars>>

\* The sequencer refuses the request, or the network loses it.
Refuse(s) ==
    /\ req[s] = "wire"
    /\ \/ /\ txNonce[s] < chainNonce
          /\ req' = [req EXCEPT ![s] = "tooLow"]
       \/ /\ "early" \in Faults
          /\ txNonce[s] > chainNonce
          /\ req' = [req EXCEPT ![s] = "tooHigh"]
       \/ /\ "condition" \in Faults
          /\ req' = [req EXCEPT ![s] = "condition"]
       \/ /\ "other" \in Faults
          /\ req' = [req EXCEPT ![s] = "refused"]
       \/ /\ "transport" \in Faults
          /\ req' = [req EXCEPT ![s] = "lost"]
    /\ UNCHANGED <<engineVars, pc, txNonce, nonce, chainNonce, processVars>>

-----------------------------------------------------------------------------
(* The process stops (Ctrl+C or a crash) and is started again: its tasks   *)
(* and its channel are gone, ExecutionManager::new reads the wallet's      *)
(* transaction count, and requests already on the wire stay there.         *)

Restart ==
    /\ "restart" \in Faults
    /\ restarts < MaxRestarts
    /\ restarts' = restarts + 1
    /\ queue' = <<>>
    /\ senderOpen' = TRUE
    /\ manager' = "running"
    /\ pc' = [s \in Signals |-> IF pc[s] = "unsent" THEN "unsent" ELSE "gone"]
    /\ nonce' = chainNonce
    /\ base' = chainNonce
    /\ clean' = (clean /\ \A s \in Signals : req[s] # "wire")
    /\ UNCHANGED <<txNonce, sequencerVars>>

-----------------------------------------------------------------------------
Init ==
    /\ queue = <<>>
    /\ senderOpen = TRUE
    /\ manager = "running"
    /\ pc = [s \in Signals |-> "unsent"]
    /\ txNonce = [s \in Signals |-> 0]
    /\ nonce = StartNonce
    /\ req = [s \in Signals |-> "none"]
    /\ chainNonce = StartNonce
    /\ base = StartNonce
    /\ clean = TRUE
    /\ restarts = 0

Next ==
    \/ CloseSender
    \/ Receive
    \/ ManagerExit
    \/ Restart
    \/ \E s \in Signals :
          \/ EmitSignal(s)
          \/ TakeNonce(s)
          \/ SignFails(s)
          \/ Submit(s)
          \/ HandleOk(s)
          \/ HandleCondition(s)
          \/ HandleError(s)
          \/ TransportError(s)
          \/ Include(s)
          \/ Refuse(s)

Spec == Init /\ [][Next]_vars

-----------------------------------------------------------------------------
TypeOK ==
    /\ queue \in Seq(Signals) /\ Len(queue) <= ChanCap
    /\ senderOpen \in BOOLEAN
    /\ manager \in {"running", "exited"}
    /\ pc \in [Signals -> PcStates]
    /\ txNonce \in [Signals -> Nat]
    /\ nonce \in Nat
    /\ req \in [Signals -> ReqStates]
    /\ chainNonce \in Nat
    /\ base \in Nat
    /\ clean \in BOOLEAN
    /\ restarts \in Nat

\* The local counter is ahead of the sequencer by exactly the nonces that
\* are claimed and not executed: concurrent fetch_add, fetch_sub, lost
\* answers and late executions never make it drift in any other way.
NonceBudget == clean => nonce = chainNonce + Cardinality(Held)

\* The bot never sees "nonce too low" for its own requests, although
\* fetch_sub may hand one nonce to two live tasks.
NeverTooLow == clean => \A s \in Signals : req[s] # "tooLow"

\* Two live tasks never compete for the nonce the sequencer executes next.
OneHeadHolder ==
    clean => \A s, t \in Held :
                txNonce[s] = chainNonce /\ txNonce[t] = chainNonce => s = t

\* A nonce lost to an error other than a conditional rejection is never
\* executed and never reused: whatever lands has a smaller nonce.
LossStallsWallet ==
    clean => \A r \in Dead, s \in Landed : txNonce[s] < txNonce[r]

\* What the manager promises of the wallet's nonces: NonceLedger, whose claims
\* are the nonces held.
Ledger == INSTANCE NonceLedger WITH
             Claimants  <- Signals,
             FirstNonce <- StartNonce,
             executed   <- chainNonce,
             claims     <- [s \in IF clean THEN Held ELSE {} |-> txNonce[s]]

\* The shared counter, added to and subtracted from by concurrent tasks and
\* read from the chain only when the process starts, hands out the nonces
\* that reading the chain and the open claims at once would.
LedgerSpec == Ledger!Spec

\* src/execution/mod.rs, "Revert the nonce since this tx was not
\* broadcast": what fetch_sub restores is the rejected transaction's nonce.
RevertFreesOwnNonce ==
    [][\A s \in Signals : HandleCondition(s) => nonce' = txNonce[s]]_vars

=============================================================================
