---------------------------- MODULE MCScheduler ----------------------------
(* Two CPUs, two worker threads, one level per band.                       *)
EXTENDS Scheduler, TLC

CONSTANTS c1, c2, i1, i2, w1, w2

MCCPUs == {c1, c2}
MCWorkers == {w1, w2}
MCIdleThread == (c1 :> i1) @@ (c2 :> i2)
\* IDLE 0, regular 1..2, real-time 3; 4 is out of range
MCPrioInputs == {0, 2, 4}

MCSymmetry == Permutations(MCWorkers)
=============================================================================
