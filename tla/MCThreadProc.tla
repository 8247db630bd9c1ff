---------------------------- MODULE MCThreadProc ----------------------------
(* One user process with its main thread and two more thread ids, and two *)
(* kernel threads that wait on or kill them.                              *)
EXTENDS ThreadProc, TLC

CONSTANTS k, up, m, t1, t2, w1, w2

MCThreads == {m, t1, t2}
MCWaiters == {w1, w2}

=============================================================================
