-------------------------- MODULE MCExecutionManager --------------------------
(* TLC instances of ExecutionManager.                                      *)
EXTENDS ExecutionManager, TLC

CONSTANTS s1, s2, s3, s4

ThreeSignals == {s1, s2, s3}
FourSignals  == {s1, s2, s3, s4}

SymFour  == Permutations(FourSignals)

AllFaults == FaultKinds
ConditionFault == {"condition"}
=============================================================================
