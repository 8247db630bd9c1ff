---------------------------- MODULE ProcThreads ----------------------------
(***************************************************************************)
(* What a user process promises about its threads (spec 4.2, the process  *)
(* exit, and scenario 6), with every operation one atomic step: a thread  *)
(* joins only a process that is not dying, every thread leaves at most    *)
(* once, the main thread's leaving starts the process's death, and the    *)
(* process is freed only once no thread is left in it.  Hash insertion,   *)
(* the kill loop, the poll and the return-code semaphore are the detailed *)
(* module's business (ThreadProc); it implements this one.                *)
(***************************************************************************)
CONSTANTS Threads, Main

VARIABLES
  state,     \* the process: "normal", "death" or "freed"
  members,   \* the threads in the process
  exited     \* the threads that have left it for good

avars == <<state, members, exited>>

Init ==
  /\ state = "normal"
  /\ members = {Main}
  /\ exited = {}

\* A new thread joins the process.
Join(t) ==
  /\ state = "normal" /\ t \notin members \cup exited
  /\ members' = members \cup {t}
  /\ UNCHANGED <<state, exited>>

\* A thread leaves; if it is the main thread, the process starts to die.
Leave(t) ==
  /\ t \in members
  /\ members' = members \ {t}
  /\ exited' = exited \cup {t}
  /\ state' = IF t = Main THEN "death" ELSE state

\* A dying process with no thread left is freed.
Free ==
  /\ state = "death" /\ members = {}
  /\ state' = "freed"
  /\ UNCHANGED <<members, exited>>

Next == Free \/ \E t \in Threads : Join(t) \/ Leave(t)

Spec == Init /\ [][Next]_avars

=============================================================================
