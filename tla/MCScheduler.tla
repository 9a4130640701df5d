---------------------------- MODULE MCScheduler -----------------------------
(* Model values for Scheduler.                                             *)
EXTENDS Scheduler

CONSTANTS p1, p2, g1, g2, r1, r2, none

MCPayouts == {p1, p2}
MCGateways == {g1, g2}
MCRequests == {r1, r2}
=============================================================================
