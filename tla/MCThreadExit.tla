---------------------------- MODULE MCThreadExit ----------------------------
(* Death-stack gating with more exiting threads than death stacks.         *)
(* Two CPUs give num_death_stacks = 2; three workers can exit at once; a  *)
(* 2-bit bitmap is full when both stacks are taken, the scaled-down form  *)
(* of 32 CPUs on a 32-bit death_stack_bitmap.  One CPU and two workers is *)
(* spec scenario 5 (num_death_stacks = 1).                                *)
EXTENDS ThreadExit, TLC

CONSTANTS c1, c2, i1, i2, w1, w2, w3

MCCPUs2 == {c1, c2}
MCCPUs1 == {c1}
MCWorkers3 == {w1, w2, w3}
MCWorkers2 == {w1, w2}
MCIdleThread2 == (c1 :> i1) @@ (c2 :> i2)
MCIdleThread1 == (c1 :> i1)
\* IDLE 0, regular 1..2, real-time 3; a regular request, and one above the real-time maximum (clamped to 3)
MCPrioInputsAll == {2, 4}
\* without real-time requests: no real-time thread starves an exiting one
MCPrioInputsRegular == {1, 2}

MCSymmetry == Permutations(MCWorkers3)
=============================================================================
