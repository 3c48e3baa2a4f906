------------------------ MODULE ExecutionManagerProofs ------------------------
(***************************************************************************)
(* Safety of ExecutionManager for any set of signals, channel capacity,    *)
(* starting nonce, set of faults and number of restarts.                   *)
(*                                                                         *)
(* None of the invariants is inductive alone.  The strengthening IInv says *)
(* where each task's request can be (Shape), what the two counters count   *)
(* (Accounting), and that the k nonces from the sequencer's next one on    *)
(* are claimed by at most k tasks (Window): fetch_sub may hand one nonce   *)
(* to two tasks, but never crowds the nonces below it.                     *)
(***************************************************************************)
EXTENDS ExecutionManager, FiniteSetTheorems, TLAPS

\* Every signal in the channel is queued, and queued once.
QueueShape ==
    /\ \A i \in 1 .. Len(queue) : pc[queue[i]] = "queued"
    /\ \A i, j \in 1 .. Len(queue) : queue[i] = queue[j] => i = j

\* What a task's program counter says of its request.
Shape ==
    \A s \in Signals :
       /\ pc[s] \in {"unsent", "dropped", "queued", "spawned", "signing"}
             => req[s] = "none"
       /\ pc[s] = "submitted" => req[s] = "included"
       /\ pc[s] = "reverted" => req[s] \in RevertedVerdicts
       /\ clean /\ pc[s] = "gone" => req[s] # "wire"

\* The two counters since this process started.
Accounting ==
    /\ nonce = base + Cardinality(Taken)
    /\ clean => chainNonce = base + Cardinality(Landed)

\* At most k tasks claim one of the next k nonces, and what has landed lies
\* below the sequencer's next nonce.
Window ==
    clean => /\ \A k \in Nat : Cardinality(Below(k)) <= k
             /\ \A s \in Landed : txNonce[s] < chainNonce

IInv == TypeOK /\ QueueShape /\ Shape /\ Accounting /\ Window /\ NeverTooLow

-----------------------------------------------------------------------------
\* The sets of tasks the invariant counts are finite and nested.
LEMMA TaskSets ==
    /\ IsFiniteSet(Taken) /\ IsFiniteSet(Landed) /\ IsFiniteSet(Held)
    /\ Cardinality(Taken) \in Nat
    /\ Cardinality(Landed) \in Nat
    /\ Cardinality(Held) \in Nat
    /\ Cardinality(Taken) = Cardinality(Landed) + Cardinality(Held)
    /\ \A k : IsFiniteSet(Below(k)) /\ Cardinality(Below(k)) \in Nat
<1>1. Taken \in SUBSET Signals /\ Landed \in SUBSET Taken
      /\ Held \in SUBSET Taken
  BY DEF Taken, Landed, Held
<1>2. IsFiniteSet(Taken) /\ IsFiniteSet(Landed) /\ IsFiniteSet(Held)
  BY <1>1, SignalsFinite, FS_Subset
<1>3. \A k : Below(k) \in SUBSET Held
  BY DEF Below
<1>4. \A k : IsFiniteSet(Below(k))
  BY <1>2, <1>3, FS_Subset
<1>5. Taken = Landed \cup Held /\ Landed \cap Held = {}
  BY <1>1 DEF Held
<1>6. Cardinality(Landed \cup Held)
        = Cardinality(Landed) + Cardinality(Held) - Cardinality(Landed \cap Held)
  BY <1>2, FS_Union
<1>7. Cardinality({}) = 0
  BY FS_EmptySet
<1>8. /\ Cardinality(Taken) \in Nat /\ Cardinality(Landed) \in Nat
      /\ Cardinality(Held) \in Nat
      /\ \A k : Cardinality(Below(k)) \in Nat
  BY <1>2, <1>4, FS_CardinalityType
<1>9. /\ Cardinality(Taken) = Cardinality(Landed \cup Held)
      /\ Cardinality(Landed \cap Held) = 0
  BY <1>5, <1>7, Zenon
<1>10. Cardinality(Taken) = Cardinality(Landed) + Cardinality(Held)
  BY <1>6, <1>8, <1>9
<1> QED  BY <1>2, <1>4, <1>8, <1>10

\* The counter is ahead of the sequencer by the claimed nonces.
LEMMA BudgetFollows == IInv => NonceBudget
<1> SUFFICES ASSUME IInv, clean
             PROVE  nonce = chainNonce + Cardinality(Held)
  BY DEF NonceBudget
<1> QED  BY TaskSets DEF IInv, TypeOK, Accounting

\* No claimed nonce lies below the sequencer's next one.
LEMMA HeldAhead ==
    ASSUME IInv, clean, NEW s \in Held
    PROVE  txNonce[s] >= chainNonce
<1>1. Cardinality(Below(0)) = 0
  BY TaskSets DEF IInv, Window
<1>2. Below(0) = {}
  BY <1>1, TaskSets, FS_EmptySet
<1>3. s \in Signals
  BY DEF Held, Taken
<1> QED  BY <1>2, <1>3 DEF Below, IInv, TypeOK
-----------------------------------------------------------------------------
\* A step that moves no task in or out of the counted sets and no counter
\* preserves what is counted.
LEMMA Unmoved ==
    ASSUME Accounting, Window,
           Taken' = Taken, Landed' = Landed,
           UNCHANGED <<txNonce, nonce, chainNonce, base, clean>>
    PROVE  Accounting' /\ Window'
<1>1. Held' = Held
  BY DEF Held
<1>2. \A k : Below(k)' = Below(k)
  BY <1>1 DEF Below
<1>3. /\ Cardinality(Taken)' = Cardinality(Taken)
      /\ Cardinality(Landed)' = Cardinality(Landed)
      /\ \A k : Cardinality(Below(k))' = Cardinality(Below(k))
  BY <1>2, Zenon
<1>4. Accounting'
  BY <1>3 DEF Accounting
<1>5. Window'
  BY <1>3 DEF Window
<1> QED  BY <1>4, <1>5

\* Signing fails: the task moves, no counter does.
LEMMA SignFailsPreserves ==
    ASSUME IInv, NEW s \in Signals, SignFails(s)
    PROVE  IInv'
<1> USE DEF IInv, engineVars, sequencerVars, processVars
<1>1. TypeOK'
  BY DEF SignFails, TypeOK, PcStates, ReqStates
<1>2. QueueShape'
  BY DEF SignFails, TypeOK, QueueShape
<1>3. Shape'
  BY DEF SignFails, TypeOK, Shape, PcStates
<1>4. Taken' = Taken /\ Landed' = Landed
  BY DEF SignFails, TypeOK, Shape, Taken, Landed, PcStates
<1>5. Accounting' /\ Window'
  BY <1>4, Unmoved DEF SignFails
<1>6. NeverTooLow'
  BY DEF SignFails, NeverTooLow
<1> QED  BY <1>1, <1>2, <1>3, <1>5, <1>6

\* Submitting puts the request on the wire, no counter moves.
LEMMA SubmitPreserves ==
    ASSUME IInv, NEW s \in Signals, Submit(s)
    PROVE  IInv'
<1> USE DEF IInv, engineVars, sequencerVars, processVars
<1>1. TypeOK'
  BY DEF Submit, TypeOK, PcStates, ReqStates
<1>2. QueueShape'
  BY DEF Submit, TypeOK, QueueShape
<1>3. Shape'
  BY DEF Submit, TypeOK, Shape, PcStates
<1>4. Taken' = Taken /\ Landed' = Landed
  BY DEF Submit, TypeOK, Shape, Taken, Landed, PcStates
<1>5. Accounting' /\ Window'
  BY <1>4, Unmoved DEF Submit
<1>6. NeverTooLow'
  BY DEF Submit, NeverTooLow
<1> QED  BY <1>1, <1>2, <1>3, <1>5, <1>6

\* An acknowledged task stays among the landed ones.
LEMMA HandleOkPreserves ==
    ASSUME IInv, NEW s \in Signals, HandleOk(s)
    PROVE  IInv'
<1> USE DEF IInv, engineVars, sequencerVars, processVars
<1>1. TypeOK'
  BY DEF HandleOk, TypeOK, PcStates, ReqStates
<1>2. QueueShape'
  BY DEF HandleOk, TypeOK, QueueShape
<1>3. Shape'
  BY DEF HandleOk, TypeOK, Shape, PcStates
<1>4. Taken' = Taken /\ Landed' = Landed
  BY DEF HandleOk, TypeOK, Shape, Taken, Landed, PcStates
<1>5. Accounting' /\ Window'
  BY <1>4, Unmoved DEF HandleOk
<1>6. NeverTooLow'
  BY DEF HandleOk, NeverTooLow
<1> QED  BY <1>1, <1>2, <1>3, <1>5, <1>6

\* A refused task keeps its claim on the nonce.
LEMMA HandleErrorPreserves ==
    ASSUME IInv, NEW s \in Signals, HandleError(s)
    PROVE  IInv'
<1> USE DEF IInv, engineVars, sequencerVars, processVars
<1>1. TypeOK'
  BY DEF HandleError, TypeOK, PcStates, ReqStates, ErrorVerdicts, RevertedVerdicts
<1>2. QueueShape'
  BY DEF HandleError, TypeOK, QueueShape, ErrorVerdicts, RevertedVerdicts
<1>3. Shape'
  BY DEF HandleError, TypeOK, Shape, PcStates, ErrorVerdicts, RevertedVerdicts
<1>4. Taken' = Taken /\ Landed' = Landed
  BY DEF HandleError, TypeOK, Shape, Taken, Landed, PcStates, ErrorVerdicts, RevertedVerdicts
<1>5. Accounting' /\ Window'
  BY <1>4, Unmoved DEF HandleError
<1>6. NeverTooLow'
  BY DEF HandleError, NeverTooLow
<1> QED  BY <1>1, <1>2, <1>3, <1>5, <1>6

\* A task whose answer is lost keeps its claim on the nonce.
LEMMA TransportErrorPreserves ==
    ASSUME IInv, NEW s \in Signals, TransportError(s)
    PROVE  IInv'
<1> USE DEF IInv, engineVars, sequencerVars, processVars
<1>1. TypeOK'
  BY DEF TransportError, TypeOK, PcStates, ReqStates
<1>2. QueueShape'
  BY DEF TransportError, TypeOK, QueueShape
<1>3. Shape'
  BY DEF TransportError, TypeOK, Shape, PcStates
<1>4. Taken' = Taken /\ Landed' = Landed
  BY DEF TransportError, TypeOK, Shape, Taken, Landed, PcStates
<1>5. Accounting' /\ Window'
  BY <1>4, Unmoved DEF TransportError
<1>6. NeverTooLow'
  BY DEF TransportError, NeverTooLow
<1> QED  BY <1>1, <1>2, <1>3, <1>5, <1>6

\* A signal enters the channel, or is dropped, before any task exists.
LEMMA EmitSignalPreserves ==
    ASSUME IInv, NEW s \in Signals, EmitSignal(s)
    PROVE  IInv'
<1> USE DEF IInv, engineVars, sequencerVars, processVars
<1>1. TypeOK'
  <2>1. \/ queue' = Append(queue, s) /\ Len(queue) < ChanCap
        \/ queue' = queue
    BY DEF EmitSignal
  <2>2. queue' \in Seq(Signals) /\ Len(queue') <= ChanCap
    BY <2>1, ConstantsTyped DEF TypeOK
  <2>3. pc' \in [Signals -> PcStates]
    BY DEF EmitSignal, TypeOK, PcStates
  <2> QED  BY <2>2, <2>3 DEF EmitSignal, TypeOK
<1>2. QueueShape'
  <2>1. CASE Len(queue) < ChanCap
    <3>1. queue' = Append(queue, s) /\ pc' = [pc EXCEPT ![s] = "queued"]
      BY <2>1 DEF EmitSignal
    <3>2. \A i \in 1 .. Len(queue) : queue[i] \in Signals /\ queue[i] # s
      BY DEF EmitSignal, TypeOK, QueueShape
    <3> QED  BY <3>1, <3>2 DEF TypeOK, QueueShape
  <2>2. CASE ~(Len(queue) < ChanCap)
    <3>1. queue' = queue /\ pc' = [pc EXCEPT ![s] = "dropped"]
      BY <2>2 DEF EmitSignal
    <3> QED  BY <3>1 DEF EmitSignal, TypeOK, QueueShape
  <2> QED  BY <2>1, <2>2
<1>3. Shape'
  BY DEF EmitSignal, TypeOK, Shape, PcStates
<1>4. Taken' = Taken /\ Landed' = Landed
  BY DEF EmitSignal, TypeOK, Taken, Landed, PcStates
<1>5. Accounting' /\ Window'
  BY <1>4, Unmoved DEF EmitSignal
<1>6. NeverTooLow'
  BY DEF EmitSignal, NeverTooLow
<1> QED  BY <1>1, <1>2, <1>3, <1>5, <1>6

\* The manager takes the channel's first signal and spawns its task.
LEMMA ReceivePreserves ==
    ASSUME IInv, Receive
    PROVE  IInv'
<1> USE DEF IInv, engineVars, sequencerVars, processVars
<1>1. /\ Len(queue) \in Nat \ {0}
      /\ Head(queue) = queue[1]
      /\ Head(queue) \in Signals
      /\ queue' \in Seq(Signals)
      /\ Len(queue') = Len(queue) - 1
      /\ \A i \in 1 .. Len(queue') : queue'[i] = queue[i + 1]
  BY DEF Receive, TypeOK
<1>2. pc[Head(queue)] = "queued"
  BY <1>1 DEF QueueShape
<1>3. TypeOK'
  <2>1. pc' \in [Signals -> PcStates]
    BY <1>1 DEF Receive, TypeOK, PcStates
  <2>2. Len(queue') <= ChanCap
    BY <1>1, ConstantsTyped DEF TypeOK
  <2> QED  BY <1>1, <2>1, <2>2 DEF Receive, TypeOK
<1>4. QueueShape'
  <2>1. \A i \in 1 .. Len(queue') :
           /\ queue'[i] \in Signals /\ queue'[i] # Head(queue)
           /\ pc[queue'[i]] = "queued"
    <3> SUFFICES ASSUME NEW i \in 1 .. Len(queue')
                 PROVE  /\ queue'[i] \in Signals /\ queue'[i] # Head(queue)
                        /\ pc[queue'[i]] = "queued"
      OBVIOUS
    <3>1. queue'[i] = queue[i + 1] /\ i + 1 \in 1 .. Len(queue) /\ i + 1 # 1
      BY <1>1
    <3>2. queue[i + 1] \in Signals
      BY <3>1 DEF TypeOK
    <3> QED  BY <1>1, <3>1, <3>2 DEF QueueShape
  <2>2. \A i, j \in 1 .. Len(queue') : queue'[i] = queue'[j] => i = j
    BY <1>1 DEF QueueShape
  <2>3. pc' = [pc EXCEPT ![Head(queue)] = "spawned"]
    BY DEF Receive
  <2>4. \A i \in 1 .. Len(queue') : pc'[queue'[i]] = "queued"
    BY <2>1, <2>3 DEF TypeOK
  <2> QED  BY <2>2, <2>4 DEF QueueShape
<1>5. Shape'
  BY <1>1, <1>2 DEF Receive, TypeOK, Shape, PcStates
<1>6. Taken' = Taken /\ Landed' = Landed
  BY <1>1, <1>2 DEF Receive, TypeOK, Taken, Landed, PcStates
<1>7. Accounting' /\ Window'
  BY <1>6, Unmoved DEF Receive
<1>8. NeverTooLow'
  BY DEF Receive, NeverTooLow
<1> QED  BY <1>3, <1>4, <1>5, <1>7, <1>8

\* Closing the channel and leaving the receive loop touch no task.
LEMMA LoopPreserves ==
    ASSUME IInv, CloseSender \/ ManagerExit
    PROVE  IInv'
<1>1. /\ UNCHANGED <<queue, pc, txNonce, nonce, req, chainNonce, base, clean,
                     restarts>>
      /\ senderOpen' \in BOOLEAN /\ manager' \in {"running", "exited"}
  BY DEF IInv, TypeOK, CloseSender, ManagerExit, engineVars, sequencerVars,
         processVars
<1>2. TypeOK'
  BY <1>1 DEF IInv, TypeOK
<1>3. QueueShape' /\ Shape' /\ NeverTooLow'
  BY <1>1 DEF IInv, QueueShape, Shape, NeverTooLow
<1>4. Taken' = Taken /\ Landed' = Landed
  BY <1>1 DEF Taken, Landed
<1>5. Accounting' /\ Window'
  BY <1>1, <1>4, Unmoved DEF IInv
<1> QED  BY <1>2, <1>3, <1>5 DEF IInv

\* A refusal takes a request off the wire; it is never "too low", because a
\* request on the wire claims a nonce at or above the sequencer's next one.
LEMMA RefusePreserves ==
    ASSUME IInv, NEW s \in Signals, Refuse(s)
    PROVE  IInv'
<1> USE DEF IInv, engineVars, sequencerVars, processVars
<1>1. req' \in [Signals -> ReqStates]
  BY DEF Refuse, TypeOK, ReqStates
<1>2. /\ req[s] = "wire"
      /\ \A t \in Signals : t # s => req'[t] = req[t]
      /\ req'[s] \in {"tooLow", "tooHigh", "condition", "refused", "lost"}
      /\ req'[s] = "tooLow" => txNonce[s] < chainNonce
  BY DEF Refuse, TypeOK
<1>3. UNCHANGED <<queue, senderOpen, manager, pc, txNonce, nonce, chainNonce,
                  base, clean, restarts>>
  BY DEF Refuse
<1>4. TypeOK' /\ QueueShape'
  BY <1>1, <1>3 DEF TypeOK, QueueShape
<1>5. pc[s] \notin {"unsent", "dropped", "queued", "spawned", "signing",
                   "submitted", "reverted"}
  BY <1>2 DEF Shape, RevertedVerdicts
<1>6. Shape'
  BY <1>2, <1>3, <1>5 DEF Shape
<1>7. Taken' = Taken /\ Landed' = Landed
  BY <1>2, <1>3 DEF Taken, Landed
<1>8. Accounting' /\ Window'
  BY <1>3, <1>7, Unmoved
<1>9. NeverTooLow'
  <2>1. SUFFICES ASSUME clean, req'[s] = "tooLow"
                 PROVE  FALSE
    BY <1>2, <1>3 DEF NeverTooLow
  <2>2. pc[s] \in {"awaiting", "failed"}
    BY <1>2, <1>5, <2>1 DEF Shape, TypeOK, PcStates
  <2>3. s \in Held
    BY <1>2, <2>2 DEF Held, Taken, Landed
  <2>4. txNonce[s] >= chainNonce
    BY <2>1, <2>3, HeldAhead
  <2> QED  BY <1>2, <2>1, <2>4 DEF TypeOK
<1> QED  BY <1>4, <1>6, <1>8, <1>9

-----------------------------------------------------------------------------
(* The steps that move a counter.                                          *)

\* fetch_add gives the new task the first nonce above every claimed one.
LEMMA TakeNoncePreserves ==
    ASSUME IInv, NEW s \in Signals, TakeNonce(s)
    PROVE  IInv'
<1> USE DEF IInv, engineVars, sequencerVars, processVars
<1>1. /\ nonce' = nonce + 1
      /\ pc[s] = "spawned" /\ req[s] = "none"
      /\ pc' = [pc EXCEPT ![s] = "signing"]
      /\ txNonce' = [txNonce EXCEPT ![s] = nonce]
      /\ UNCHANGED <<queue, senderOpen, manager, req, chainNonce, base, clean,
                     restarts>>
  BY DEF TakeNonce, Increment, Shape
<1>2. TypeOK'
  BY <1>1 DEF TypeOK, PcStates
<1>3. QueueShape'
  BY <1>1 DEF TypeOK, QueueShape
<1>4. Shape' /\ NeverTooLow'
  BY <1>1 DEF TypeOK, Shape, NeverTooLow, PcStates
<1>5. Taken' = Taken \cup {s} /\ s \notin Taken /\ Landed' = Landed
  BY <1>1 DEF TypeOK, Taken, Landed, PcStates
<1>6. Held' = Held \cup {s} /\ s \notin Held
  BY <1>1, <1>5 DEF Held, Landed
<1>7. Accounting'
  <2>1. Cardinality(Taken') = Cardinality(Taken) + 1
    <3>1. Cardinality(Taken \cup {s}) = Cardinality(Taken) + 1
      BY <1>5, TaskSets, FS_AddElement
    <3> QED  BY <1>5, <3>1, Zenon
  <2>2. Cardinality(Landed') = Cardinality(Landed)
    BY <1>5, Zenon
  <2> QED  BY <1>1, <2>1, <2>2, TaskSets DEF Accounting, TypeOK
<1>8. Window'
  <2> SUFFICES ASSUME clean
               PROVE  /\ \A k \in Nat : Cardinality(Below(k)') <= k
                      /\ \A t \in Landed' : txNonce'[t] < chainNonce'
    BY <1>1 DEF Window
  <2>1. nonce = chainNonce + Cardinality(Held)
    BY BudgetFollows DEF NonceBudget
  <2>2. \A t \in Signals : t # s => txNonce'[t] = txNonce[t]
    BY <1>1 DEF TypeOK
  <2>3. txNonce'[s] = nonce
    BY <1>1 DEF TypeOK
  <2>4. ASSUME NEW k \in Nat
        PROVE  Cardinality(Below(k)') <= k
    <3>1. CASE Cardinality(Held) < k
      <4>1. Cardinality(Held \cup {s}) = Cardinality(Held) + 1
            /\ IsFiniteSet(Held \cup {s})
        BY <1>6, TaskSets, FS_AddElement
      <4>2. Below(k)' \in SUBSET (Held \cup {s})
        BY <1>6 DEF Below
      <4>3. Cardinality(Below(k)') <= Cardinality(Held \cup {s})
            /\ Cardinality(Below(k)') \in Nat
        BY <4>1, <4>2, FS_Subset, FS_CardinalityType
      <4> QED  BY <3>1, <4>1, <4>3, TaskSets
    <3>2. CASE ~(Cardinality(Held) < k)
      <4>1. ~(nonce < chainNonce + k)
        BY <2>1, <3>2, TaskSets DEF TypeOK
      <4>2. Below(k)' = Below(k)
        BY <1>1, <1>6, <2>2, <2>3, <4>1 DEF Below, Held, Taken
      <4>3. Cardinality(Below(k)') = Cardinality(Below(k))
        BY <4>2, Zenon
      <4> QED  BY <4>3 DEF Window
    <3> QED  BY <3>1, <3>2
  <2>5. \A t \in Landed' : txNonce'[t] < chainNonce'
    BY <1>1, <1>5, <2>2 DEF Window, Landed
  <2> QED  BY <2>4, <2>5
<1> QED  BY <1>2, <1>3, <1>4, <1>7, <1>8

\* fetch_sub gives back one nonce while one task stops claiming one.
LEMMA HandleConditionPreserves ==
    ASSUME IInv, NEW s \in Signals, HandleCondition(s)
    PROVE  IInv'
<1> USE DEF IInv, engineVars, sequencerVars, processVars
<1>1. /\ nonce' = nonce - 1
      /\ pc[s] = "awaiting" /\ req[s] = "condition"
      /\ pc' = [pc EXCEPT ![s] = "reverted"]
      /\ UNCHANGED <<queue, senderOpen, manager, txNonce, req, chainNonce,
                     base, clean, restarts>>
  BY DEF HandleCondition, Decrement, RevertedVerdicts
<1>2. Taken' = Taken \ {s} /\ s \in Taken /\ Landed' = Landed
  BY <1>1 DEF TypeOK, Taken, Landed, PcStates
<1>3. Cardinality(Taken') = Cardinality(Taken) - 1 /\ Cardinality(Taken') \in Nat
  <2>1. /\ Cardinality(Taken \ {s}) = Cardinality(Taken) - 1
        /\ Cardinality(Taken \ {s}) \in Nat
    BY <1>2, TaskSets, FS_RemoveElement, FS_CardinalityType
  <2> QED  BY <1>2, <2>1, Zenon
<1>4. Accounting'
  <2>1. Cardinality(Landed') = Cardinality(Landed)
    BY <1>2, Zenon
  <2> QED  BY <1>1, <1>3, <2>1, TaskSets DEF Accounting, TypeOK
<1>5. nonce' \in Nat
  BY <1>1, <1>3, TaskSets DEF Accounting, TypeOK
<1>6. TypeOK'
  BY <1>1, <1>5 DEF TypeOK, PcStates
<1>7. QueueShape'
  BY <1>1 DEF TypeOK, QueueShape
<1>8. Shape' /\ NeverTooLow'
  BY <1>1 DEF TypeOK, Shape, NeverTooLow, PcStates, RevertedVerdicts
<1>9. Window'
  <2>1. \A k \in Nat : Below(k)' \in SUBSET Below(k)
    BY <1>1, <1>2 DEF Below, Held
  <2>2. \A k \in Nat : /\ Cardinality(Below(k)') <= Cardinality(Below(k))
                        /\ Cardinality(Below(k)') \in Nat
    BY <2>1, TaskSets, FS_Subset, FS_CardinalityType
  <2>3. clean => \A k \in Nat : Cardinality(Below(k)') <= k
    BY <2>2, TaskSets DEF Window
  <2>4. clean => \A t \in Landed' : txNonce'[t] < chainNonce'
    BY <1>1, <1>2 DEF Window
  <2> QED  BY <1>1, <2>3, <2>4 DEF Window
<1> QED  BY <1>4, <1>6, <1>7, <1>8, <1>9

\* The sequencer executes its next nonce: the one task that claims it lands,
\* and every other claim is one place closer to the front.
LEMMA IncludePreserves ==
    ASSUME IInv, NEW s \in Signals, Include(s)
    PROVE  IInv'
<1> USE DEF IInv, engineVars, sequencerVars, processVars
<1>1. /\ req[s] = "wire" /\ txNonce[s] = chainNonce
      /\ req' = [req EXCEPT ![s] = "included"]
      /\ chainNonce' = chainNonce + 1
      /\ UNCHANGED <<queue, senderOpen, manager, pc, txNonce, nonce, base,
                     clean, restarts>>
  BY DEF Include
<1>2. pc[s] \in {"awaiting", "failed"} \/ (~clean /\ pc[s] = "gone")
  BY <1>1 DEF TypeOK, Shape, PcStates, RevertedVerdicts
<1>3. TypeOK'
  BY <1>1 DEF TypeOK, ReqStates
<1>4. QueueShape'
  BY <1>1 DEF QueueShape
<1>5. Shape' /\ NeverTooLow'
  BY <1>1, <1>2 DEF TypeOK, Shape, NeverTooLow
<1>6. Taken' = Taken
  BY <1>1 DEF Taken
<1>7. Cardinality(Taken') = Cardinality(Taken)
  BY <1>6, Zenon
<1>8. CASE ~clean
  <2> QED  BY <1>1, <1>3, <1>4, <1>5, <1>7, <1>8 DEF Accounting, Window
<1>9. CASE clean
  <2>1. s \in Held
    BY <1>1, <1>2, <1>9 DEF Held, Taken, Landed
  <2>2. Landed' = Landed \cup {s} /\ s \notin Landed
    BY <1>1, <1>6, <2>1 DEF Landed, Held, Taken, TypeOK
  <2>3. Cardinality(Landed') = Cardinality(Landed) + 1
    <3>1. Cardinality(Landed \cup {s}) = Cardinality(Landed) + 1
      BY <2>2, TaskSets, FS_AddElement
    <3> QED  BY <2>2, <3>1, Zenon
  <2>4. Accounting'
    BY <1>1, <1>7, <1>9, <2>3, TaskSets DEF Accounting, TypeOK
  <2>5. ASSUME NEW k \in Nat
        PROVE  Cardinality(Below(k)') <= k
    <3>1. Below(k)' = Below(k + 1) \ {s} /\ s \in Below(k + 1)
      BY <1>1, <1>6, <2>1, <2>2 DEF Below, Held, Taken, TypeOK
    <3>2. Cardinality(Below(k + 1) \ {s}) = Cardinality(Below(k + 1)) - 1
      BY <3>1, TaskSets, FS_RemoveElement
    <3>3. Cardinality(Below(k)') = Cardinality(Below(k + 1) \ {s})
      BY <3>1, Zenon
    <3>4. Cardinality(Below(k + 1)) <= k + 1
      BY <1>9 DEF Window
    <3> QED  BY <3>2, <3>3, <3>4, TaskSets
  <2>6. \A t \in Landed' : txNonce'[t] < chainNonce'
    BY <1>1, <1>9, <2>2 DEF Window, TypeOK, Landed, Taken
  <2>7. Window'
    BY <2>5, <2>6 DEF Window
  <2> QED  BY <1>3, <1>4, <1>5, <2>4, <2>7
<1> QED  BY <1>8, <1>9

\* A new process starts from the wallet's transaction count with no task.
LEMMA RestartPreserves ==
    ASSUME IInv, Restart
    PROVE  IInv'
<1> USE DEF IInv, engineVars, sequencerVars, processVars
<1>1. /\ queue' = <<>> /\ senderOpen' = TRUE /\ manager' = "running"
      /\ pc' = [s \in Signals |-> IF pc[s] = "unsent" THEN "unsent" ELSE "gone"]
      /\ nonce' = chainNonce /\ base' = chainNonce
      /\ clean' = (clean /\ \A s \in Signals : req[s] # "wire")
      /\ restarts' = restarts + 1
      /\ UNCHANGED <<txNonce, req, chainNonce>>
  BY DEF Restart
<1>2. TypeOK'
  <2>1. queue' \in Seq(Signals) /\ Len(queue') <= ChanCap
    BY <1>1, ConstantsTyped
  <2>2. pc' \in [Signals -> PcStates]
    BY <1>1 DEF PcStates
  <2> QED  BY <1>1, <2>1, <2>2 DEF TypeOK
<1>3. QueueShape'
  BY <1>1 DEF QueueShape
<1>4. Shape' /\ NeverTooLow'
  BY <1>1 DEF Shape, NeverTooLow
<1>5. Taken' = {} /\ Landed' = {} /\ Held' = {}
  BY <1>1 DEF Taken, Landed, Held
<1>6. \A k : Below(k)' = {}
  BY <1>5 DEF Below
<1>7. Cardinality({}) = 0
  BY FS_EmptySet
<1>8. /\ Cardinality(Taken') = 0 /\ Cardinality(Landed') = 0
      /\ \A k : Cardinality(Below(k)') = 0
  BY <1>5, <1>6, <1>7, Zenon
<1>9. Accounting'
  BY <1>1, <1>8 DEF Accounting, TypeOK
<1>10. Window'
  BY <1>5, <1>8 DEF Window
<1> QED  BY <1>2, <1>3, <1>4, <1>9, <1>10

-----------------------------------------------------------------------------
LEMMA InitIInv == Init => IInv
<1> SUFFICES ASSUME Init PROVE IInv
  OBVIOUS
<1> USE DEF Init
<1>1. TypeOK
  <2>1. queue \in Seq(Signals) /\ Len(queue) <= ChanCap
    BY ConstantsTyped
  <2>2. pc \in [Signals -> PcStates] /\ req \in [Signals -> ReqStates]
        /\ txNonce \in [Signals -> Nat]
    BY DEF PcStates, ReqStates
  <2> QED  BY <2>1, <2>2, ConstantsTyped DEF TypeOK
<1>2. QueueShape /\ Shape /\ NeverTooLow
  BY DEF QueueShape, Shape, NeverTooLow
<1>3. Taken = {} /\ Landed = {} /\ Held = {}
  BY DEF Taken, Landed, Held
<1>4. \A k : Below(k) = {}
  BY <1>3 DEF Below
<1>5. Cardinality({}) = 0
  BY FS_EmptySet
<1>6. /\ Cardinality(Taken) = 0 /\ Cardinality(Landed) = 0
      /\ \A k : Cardinality(Below(k)) = 0
  BY <1>3, <1>4, <1>5, Zenon
<1>7. Accounting
  BY <1>6, ConstantsTyped DEF Accounting
<1>8. Window
  BY <1>3, <1>6 DEF Window
<1> QED  BY <1>1, <1>2, <1>7, <1>8 DEF IInv

LEMMA NextIInv == IInv /\ [Next]_vars => IInv'
<1> SUFFICES ASSUME IInv, [Next]_vars PROVE IInv'
  OBVIOUS
<1>1. CASE CloseSender \/ ManagerExit
  BY <1>1, LoopPreserves
<1>2. CASE Receive
  BY <1>2, ReceivePreserves
<1>3. CASE Restart
  BY <1>3, RestartPreserves
<1>4. ASSUME NEW s \in Signals, EmitSignal(s) \/ TakeNonce(s) \/ SignFails(s)
      PROVE  IInv'
  BY <1>4, EmitSignalPreserves, TakeNoncePreserves, SignFailsPreserves
<1>5. ASSUME NEW s \in Signals, Submit(s) \/ HandleOk(s) \/ HandleCondition(s)
      PROVE  IInv'
  BY <1>5, SubmitPreserves, HandleOkPreserves, HandleConditionPreserves
<1>6. ASSUME NEW s \in Signals, HandleError(s) \/ TransportError(s)
      PROVE  IInv'
  BY <1>6, HandleErrorPreserves, TransportErrorPreserves
<1>7. ASSUME NEW s \in Signals, Include(s) \/ Refuse(s)
      PROVE  IInv'
  BY <1>7, IncludePreserves, RefusePreserves
<1>8. CASE UNCHANGED vars
  <2>1. UNCHANGED <<queue, senderOpen, manager, pc, txNonce, nonce, req,
                    chainNonce, base, clean, restarts>>
    BY <1>8 DEF vars
  <2>2. Taken' = Taken /\ Landed' = Landed
    BY <2>1 DEF Taken, Landed
  <2>3. Accounting' /\ Window'
    BY <2>1, <2>2, Unmoved DEF IInv
  <2>4. TypeOK' /\ NeverTooLow'
    BY <2>1 DEF IInv, TypeOK, NeverTooLow
  <2>5. QueueShape' /\ Shape'
    BY <2>1 DEF IInv, QueueShape, Shape
  <2> QED  BY <2>3, <2>4, <2>5 DEF IInv
<1> QED
  BY <1>1, <1>2, <1>3, <1>4, <1>5, <1>6, <1>7, <1>8 DEF Next

\* Every reachable state satisfies the inductive invariant.
THEOREM InductiveInvariant == Spec => []IInv
<1> QED  BY InitIInv, NextIInv, PTL DEF Spec

-----------------------------------------------------------------------------
(* The properties the runs check.                                          *)

\* The channel holds signals and never more than its capacity, every task is
\* in one of its states, and the local counter, an unsigned integer in the
\* code, is never decremented below zero by fetch_sub.
THEOREM TypeCorrect == Spec => []TypeOK
<1>1. IInv => TypeOK
  BY DEF IInv
<1> QED  BY <1>1, InductiveInvariant, PTL

\* The counter `fire` reads is ahead of the sequencer by exactly the nonces
\* that tasks claim and the sequencer has not executed.
THEOREM NonceBudgetHolds == Spec => []NonceBudget
<1> QED  BY BudgetFollows, InductiveInvariant, PTL

\* As long as no restart left a request on the wire, the sequencer never
\* answers one of the bot's requests with "nonce too low".
THEOREM NeverTooLowHolds == Spec => []NeverTooLow
<1>1. IInv => NeverTooLow
  BY DEF IInv
<1> QED  BY <1>1, InductiveInvariant, PTL

\* Although fetch_sub hands one nonce to two tasks, at most one task claims
\* the nonce the sequencer executes next.
THEOREM OneHeadHolderHolds == Spec => []OneHeadHolder
<1>1. ASSUME IInv PROVE OneHeadHolder
  <2> SUFFICES ASSUME clean, NEW s \in Held, NEW t \in Held,
                      txNonce[s] = chainNonce, txNonce[t] = chainNonce, s # t
               PROVE  FALSE
    BY DEF OneHeadHolder
  <2>1. Cardinality(Below(1)) <= 1
    BY <1>1 DEF IInv, Window
  <2>2. {s, t} \in SUBSET Below(1)
    BY <1>1 DEF Below, IInv, TypeOK
  <2>3. Cardinality({s, t}) <= Cardinality(Below(1))
        /\ Cardinality({s, t}) \in Nat
    BY <2>2, TaskSets, FS_Subset, FS_CardinalityType
  <2>4. Cardinality({s} \cup {t}) = 2
    <3>1. IsFiniteSet({s}) /\ Cardinality({s}) = 1
      BY FS_Singleton
    <3>2. t \notin {s}
      OBVIOUS
    <3>3. Cardinality({s} \cup {t}) = Cardinality({s}) + 1
      BY <3>1, <3>2, FS_AddElement, Zenon
    <3> QED  BY <3>1, <3>3
  <2>5. Cardinality({s, t}) = 2
    <3>1. {s, t} = {s} \cup {t}
      OBVIOUS
    <3> QED  BY <2>4, <3>1, Zenon
  <2> QED  BY <2>1, <2>3, <2>5, TaskSets
<1> QED  BY <1>1, InductiveInvariant, PTL

\* A nonce whose task failed and whose request can no longer be executed
\* stops the wallet: nothing at or above it ever lands in this process.
THEOREM LossStallsWalletHolds == Spec => []LossStallsWallet
<1>1. ASSUME IInv PROVE LossStallsWallet
  <2> SUFFICES ASSUME clean, NEW r \in Dead, NEW s \in Landed
               PROVE  txNonce[s] < txNonce[r]
    BY DEF LossStallsWallet
  <2>1. r \in Held /\ s \in Signals /\ r \in Signals
    BY DEF Dead, Held, Landed, Taken
  <2>2. txNonce[r] >= chainNonce
    BY <1>1, <2>1, HeldAhead
  <2>3. txNonce[s] < chainNonce
    BY <1>1 DEF IInv, Window
  <2> QED  BY <1>1, <2>1, <2>2, <2>3 DEF IInv, TypeOK
<1> QED  BY <1>1, InductiveInvariant, PTL

=============================================================================
