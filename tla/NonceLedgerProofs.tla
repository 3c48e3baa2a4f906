--------------------------- MODULE NonceLedgerProofs ---------------------------
(***************************************************************************)
(* The ExecutionManager implements NonceLedger, for any set of signals,    *)
(* channel capacity, starting nonce, set of faults and number of restarts. *)
(*                                                                         *)
(* Three steps move the ledger: fetch_add is a claim, a conditional        *)
(* rejection releases one, the sequencer executes one.  That fetch_add     *)
(* takes the number a claim takes is NonceBudget; that what the sequencer  *)
(* executes is a claim is the part of Shape about requests on the wire.    *)
(* Every other step of a task leaves Held, and so the ledger, alone.       *)
(***************************************************************************)
EXTENDS ExecutionManagerProofs

\* The ledger's claims.
Claims == [s \in IF clean THEN Held ELSE {} |-> txNonce[s]]

\* A step that keeps the held nonces and the sequencer's counter is a stutter.
LEMMA SameLedger ==
    ASSUME Held' = Held, UNCHANGED <<txNonce, chainNonce, clean>>
    PROVE  UNCHANGED Ledger!ledgerVars
<1>1. Claims' = Claims
  BY DEF Claims
<1> QED  BY <1>1 DEF Ledger!ledgerVars, Claims

\* A step in an unclean process that keeps the sequencer's counter is one.
LEMMA UncleanLedger ==
    ASSUME ~clean, UNCHANGED <<chainNonce, clean>>
    PROVE  UNCHANGED Ledger!ledgerVars
<1>1. Claims = Ledger!NoClaims /\ Claims' = Ledger!NoClaims
  BY DEF Claims, Ledger!NoClaims
<1> QED  BY <1>1 DEF Ledger!ledgerVars, Claims

LEMMA InitLedger == Init => Ledger!Init
<1> SUFFICES ASSUME Init PROVE Ledger!Init
  OBVIOUS
<1>1. Held = {}
  BY DEF Init, Held, Taken
<1>2. Claims = Ledger!NoClaims
  BY <1>1 DEF Claims, Ledger!NoClaims
<1> QED  BY <1>2 DEF Init, Ledger!Init, Claims

\* The channel's steps and those of a task that move no counter.
LEMMA QuietSteps ==
    ASSUME IInv, NEW s \in Signals,
           \/ CloseSender \/ ManagerExit \/ Receive
           \/ EmitSignal(s) \/ SignFails(s) \/ Submit(s) \/ HandleOk(s)
           \/ HandleError(s) \/ TransportError(s) \/ Refuse(s)
    PROVE  UNCHANGED Ledger!ledgerVars
<1> USE DEF IInv, engineVars, sequencerVars, processVars
<1>1. UNCHANGED <<txNonce, chainNonce, clean>>
  BY DEF CloseSender, ManagerExit, Receive, EmitSignal, SignFails, Submit, HandleOk,
         HandleError, TransportError, Refuse
<1>2. CASE CloseSender \/ ManagerExit
  BY <1>1, <1>2, SameLedger DEF CloseSender, ManagerExit, Held, Taken, Landed
<1>3. CASE Receive
  <2>1. Head(queue) \in Signals /\ pc[Head(queue)] = "queued"
    BY <1>3 DEF Receive, TypeOK, QueueShape
  <2>2. Held' = Held
    BY <1>3, <2>1 DEF Receive, TypeOK, Held, Taken, Landed
  <2> QED  BY <1>1, <2>2, SameLedger
<1>4. CASE EmitSignal(s)
  <2>1. Held' = Held
    BY <1>4 DEF EmitSignal, TypeOK, Held, Taken, Landed
  <2> QED  BY <1>1, <2>1, SameLedger
<1>5. CASE SignFails(s) \/ Submit(s)
  <2>1. Held' = Held
    BY <1>5 DEF SignFails, Submit, TypeOK, Shape, Held, Taken, Landed
  <2> QED  BY <1>1, <2>1, SameLedger
<1>6. CASE HandleOk(s) \/ HandleError(s) \/ TransportError(s)
  <2>1. Held' = Held
    BY <1>6 DEF HandleOk, HandleError, TransportError, TypeOK, Held, Taken, Landed
  <2> QED  BY <1>1, <2>1, SameLedger
<1>7. CASE Refuse(s)
  <2>1. req[s] = "wire" /\ UNCHANGED pc
    BY <1>7 DEF Refuse
  <2>2. \A t \in Signals : req'[t] = "included" <=> req[t] = "included"
    BY <1>7 DEF Refuse, TypeOK
  <2>3. Held' = Held
    BY <2>1, <2>2 DEF Held, Taken, Landed
  <2> QED  BY <1>1, <2>3, SameLedger
<1> QED  BY <1>2, <1>3, <1>4, <1>5, <1>6, <1>7

\* fetch_add claims the number behind all open claims.
LEMMA TakeNonceClaims ==
    ASSUME IInv, NEW s \in Signals, TakeNonce(s)
    PROVE  [Ledger!Next]_(Ledger!ledgerVars)
<1> USE DEF IInv, engineVars, sequencerVars, processVars
<1>1. /\ pc[s] = "spawned" /\ req[s] = "none"
      /\ pc' = [pc EXCEPT ![s] = "signing"]
      /\ txNonce' = [txNonce EXCEPT ![s] = nonce]
      /\ UNCHANGED <<req, chainNonce, clean>>
  BY DEF TakeNonce, Shape
<1>2. CASE ~clean
  BY <1>1, <1>2, UncleanLedger
<1>3. CASE clean
  <2>1. Held' = Held \cup {s} /\ s \notin Held
    BY <1>1 DEF TypeOK, Held, Taken, Landed
  <2>2. DOMAIN Claims = Held /\ Claims \in [Held -> Nat]
    BY <1>3 DEF Claims, TypeOK, Held, Taken
  <2>3. nonce = chainNonce + Cardinality(DOMAIN Claims)
    BY <1>3, <2>2, BudgetFollows DEF NonceBudget
  <2>4. \A t \in Held : t \in Signals /\ txNonce'[t] = txNonce[t]
    BY <1>1, <2>1 DEF TypeOK, Held, Taken
  <2>5. txNonce'[s] = nonce
    BY <1>1 DEF TypeOK
  <2>6. Claims' = [t \in Held \cup {s} |-> IF t = s THEN nonce ELSE txNonce[t]]
    BY <1>1, <1>3, <2>1, <2>4, <2>5 DEF Claims
  <2>7. Claims' = [t \in DOMAIN Claims \cup {s} |->
                      IF t = s THEN chainNonce + Cardinality(DOMAIN Claims)
                               ELSE Claims[t]]
    BY <1>3, <2>2, <2>3, <2>6 DEF Claims
  <2>8. Ledger!Cardinality(DOMAIN Claims) = Cardinality(DOMAIN Claims)
    BY Zenon DEF Ledger!Cardinality, Cardinality
  <2>9. Ledger!Claim(s)
    BY <1>1, <1>3, <2>1, <2>2, <2>7, <2>8 DEF Ledger!Claim, Claims
  <2> QED  BY <2>9 DEF Ledger!Next
<1> QED  BY <1>2, <1>3

\* A held nonce that is no longer held is a claim that is no longer open.
LEMMA FewerClaims ==
    ASSUME clean, NEW s \in Held, Held' = Held \ {s}, UNCHANGED <<txNonce, clean>>
    PROVE  /\ s \in DOMAIN Claims
           /\ Claims' = [t \in DOMAIN Claims \ {s} |-> Claims[t]]
BY DEF Claims

\* A conditional rejection releases the task's claim.
LEMMA HandleConditionReleases ==
    ASSUME IInv, NEW s \in Signals, HandleCondition(s)
    PROVE  [Ledger!Next]_(Ledger!ledgerVars)
<1> USE DEF IInv, engineVars, sequencerVars, processVars
<1>1. /\ pc[s] = "awaiting" /\ req[s] = "condition"
      /\ pc' = [pc EXCEPT ![s] = "reverted"]
      /\ UNCHANGED <<req, chainNonce, clean, txNonce>>
  BY DEF HandleCondition, RevertedVerdicts
<1>2. CASE ~clean
  BY <1>1, <1>2, UncleanLedger
<1>3. CASE clean
  <2>1. Held' = Held \ {s} /\ s \in Held
    BY <1>1 DEF TypeOK, Held, Taken, Landed
  <2>2. /\ s \in DOMAIN Claims
        /\ Claims' = [t \in DOMAIN Claims \ {s} |-> Claims[t]]
    BY <1>1, <1>3, <2>1, FewerClaims
  <2>3. Ledger!Release(s)
    BY <1>1, <1>3, <2>2 DEF Ledger!Release, Ledger!Without, Claims
  <2> QED  BY <2>3 DEF Ledger!Next
<1> QED  BY <1>2, <1>3

\* What the sequencer executes is the open claim whose turn it is.
LEMMA IncludeExecutes ==
    ASSUME IInv, NEW s \in Signals, Include(s)
    PROVE  [Ledger!Next]_(Ledger!ledgerVars)
<1> USE DEF IInv, engineVars, sequencerVars, processVars
<1>1. /\ req[s] = "wire" /\ txNonce[s] = chainNonce
      /\ req' = [req EXCEPT ![s] = "included"]
      /\ chainNonce' = chainNonce + 1
      /\ UNCHANGED <<pc, txNonce, clean>>
  BY DEF Include
<1>2. CASE ~clean
  <2>1. Claims = Ledger!NoClaims /\ Claims' = Ledger!NoClaims
    BY <1>1, <1>2 DEF Claims, Ledger!NoClaims
  <2>2. Ledger!ExecuteStray
    BY <1>1, <1>2, <2>1 DEF Ledger!ExecuteStray, Claims
  <2> QED  BY <2>2 DEF Ledger!Next
<1>3. CASE clean
  <2>1. pc[s] \in {"awaiting", "failed"}
    BY <1>1, <1>3 DEF TypeOK, Shape, PcStates, RevertedVerdicts
  <2>2. Held' = Held \ {s} /\ s \in Held
    BY <1>1, <2>1 DEF TypeOK, Held, Taken, Landed
  <2>3. /\ s \in DOMAIN Claims
        /\ Claims' = [t \in DOMAIN Claims \ {s} |-> Claims[t]]
        /\ Claims[s] = chainNonce
    <3>1. Claims[s] = txNonce[s]
      BY <1>3, <2>2 DEF Claims
    <3> QED  BY <1>1, <1>3, <2>2, <3>1, FewerClaims
  <2>4. Ledger!Execute(s)
    BY <1>1, <1>3, <2>3 DEF Ledger!Execute, Ledger!Without, Claims
  <2> QED  BY <2>4 DEF Ledger!Next
<1> QED  BY <1>2, <1>3

\* A new process has no claims.
LEMMA RestartClears ==
    ASSUME IInv, Restart
    PROVE  [Ledger!Next]_(Ledger!ledgerVars)
<1> USE DEF IInv, sequencerVars
<1>1. /\ pc' = [s \in Signals |-> IF pc[s] = "unsent" THEN "unsent" ELSE "gone"]
      /\ clean' = (clean /\ \A s \in Signals : req[s] # "wire")
      /\ UNCHANGED <<txNonce, chainNonce>>
  BY DEF Restart
<1>2. Held' = {}
  BY <1>1 DEF Held, Taken
<1>3. Claims' = Ledger!NoClaims
  BY <1>2 DEF Claims, Ledger!NoClaims
<1>4. clean' \in {clean, FALSE}
  BY <1>1 DEF TypeOK
<1>5. Ledger!Restart
  BY <1>1, <1>3, <1>4 DEF Ledger!Restart, Claims
<1> QED  BY <1>5 DEF Ledger!Next

LEMMA NextLedger == IInv /\ [Next]_vars => [Ledger!Next]_(Ledger!ledgerVars)
<1> SUFFICES ASSUME IInv, [Next]_vars PROVE [Ledger!Next]_(Ledger!ledgerVars)
  OBVIOUS
<1>1. CASE Restart
  BY <1>1, RestartClears
<1>2. ASSUME NEW s \in Signals, EmitSignal(s) \/ SignFails(s) \/ Submit(s) \/ HandleOk(s)
      PROVE  [Ledger!Next]_(Ledger!ledgerVars)
  BY <1>2, QuietSteps
<1>3. ASSUME NEW s \in Signals, HandleError(s) \/ TransportError(s) \/ Refuse(s)
      PROVE  [Ledger!Next]_(Ledger!ledgerVars)
  BY <1>3, QuietSteps
<1>4. ASSUME NEW s \in Signals, TakeNonce(s) \/ HandleCondition(s) \/ Include(s)
      PROVE  [Ledger!Next]_(Ledger!ledgerVars)
  BY <1>4, TakeNonceClaims, HandleConditionReleases, IncludeExecutes
<1>5. CASE CloseSender \/ ManagerExit \/ UNCHANGED vars
  <2>1. UNCHANGED <<pc, req, txNonce, chainNonce, clean>>
    BY <1>5 DEF CloseSender, ManagerExit, vars, sequencerVars, processVars
  <2>2. Held' = Held
    BY <2>1 DEF Held, Taken, Landed
  <2> QED  BY <2>1, <2>2, SameLedger
<1>6. CASE Receive
  <2>1. Head(queue) \in Signals
    BY <1>6 DEF Receive, IInv, TypeOK
  <2> QED  BY <1>6, <2>1, QuietSteps
<1> QED  BY <1>1, <1>2, <1>3, <1>4, <1>5, <1>6 DEF Next

\* The counter of src/execution/mod.rs, shared by concurrent fire tasks and
\* read from the chain only when the process starts, hands out the nonces
\* that reading the chain and the open claims at once would.
THEOREM ImplementsLedger == Spec => LedgerSpec
<1> QED
  BY InitLedger, NextLedger, InductiveInvariant, PTL DEF Spec, LedgerSpec, Ledger!Spec

=============================================================================
