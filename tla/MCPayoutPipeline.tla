-------------------------- MODULE MCPayoutPipeline --------------------------
(* Instances of PayoutPipeline for TLC, and what a comment of the code says*)
(* that does not hold.                                                     *)
EXTENDS PayoutRefinement, TLC

CONSTANTS t1, t2, t3, t4, u1, u2

(* Three payouts of one user, whose balance covers t2 alone or the other   *)
(* two together, and one of a second user: what the lock and the deduction *)
(* script are there to sort out.                                           *)
MCOwner == [t \in Txns |-> IF t = t4 THEN u2 ELSE u1]
MCAmount == [t \in Txns |-> IF t = t2 THEN 3 ELSE 2]
MCInitBalance == [u \in Users |-> 4]

WorkerSymmetry == Permutations(Workers)

-----------------------------------------------------------------------------
(* A message delivered twice is not processed twice: the guard at the top  *)
(* of processMessage, read as a promise about the money.                   *)
ProcessedOnce == \A t \in Txns : deducted[t] - restored[t] <= 1
=============================================================================
