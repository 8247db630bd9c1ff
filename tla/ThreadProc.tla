----------------------------- MODULE ThreadProc -----------------------------
(***************************************************************************)
(* The threads of a user process (thread.c): _create_thread's insertion,   *)
(* which refuses a process in DEATH, thread_exit's move of the exiting     *)
(* thread to kernel_proc, the main thread's kill of its siblings and its   *)
(* poll until the process has no thread left, and the waits of            *)
(* thread_wait_on_thread, proc_wait_on_proc and thread_kill_thread on the  *)
(* return-code semaphore that an exiting thread deletes.                   *)
(*                                                                         *)
(* Signals (signal.c) are outside src/ and follow spec.md: STOP and CONT   *)
(* move a thread between SUSPENDED and READY, a pending SIGKILLTHR is     *)
(* acted on when the thread next leaves the kernel, and a SUSPENDED       *)
(* thread runs again only on CONT.  The groups, sessions and children of  *)
(* the process are module ProcGroups's business, the death stack          *)
(* ThreadExit's; here teardown and the death-stack sequence are one step  *)
(* each.                                                                   *)
(***************************************************************************)
EXTENDS Naturals, FiniteSets

CONSTANTS
  KernelProc, UserProc,  \* kernel_proc and one user process
  Threads,               \* thread ids of the user process, never reused
  Main,                  \* its main thread, created by proc_create_proc
  Waiters,               \* kernel threads that wait on or kill a thread
  NoThread, NoProc

Procs == {KernelProc, UserProc}

ASSUME Main \in Threads /\ NoThread \notin Threads

VARIABLES
  pstate,       \* UserProc's state: "normal", "death" or "freed" (kfree)
  thread_list,  \* p->thread_list, restricted to Threads
  num_threads,  \* p->num_threads, counting the threads of Threads
  main_thread,  \* UserProc's main_thread
  thread_hash,  \* the thread ids in thread_hash
  tstate,       \* "unused", "birth", "suspended", "ready", "free"
  tproc,        \* t->proc
  killed,       \* threads with SIGKILLTHR pending
  rsem,         \* t->return_code_sem: "none", "live" or "deleted"
  xpc,          \* where a thread is in _create_thread or thread_exit
  target,       \* the thread a creator is creating
  wpc, wt,      \* where each waiter is, and the thread it waits on
                \* (once send_signal_etc has found it)
  wsem,         \* the waiter read a return_code_sem that was live
  wres          \* what the wait returned: "none", "ok" or "err"

tvars == <<pstate, thread_list, num_threads, main_thread, thread_hash, tstate, tproc,
           killed, rsem, xpc, target, wpc, wt, wsem, wres>>

XPCs == {"none", "creating", "inserted", "kill", "poll", "teardown",
         "publish", "exit2", "done"}

ThreadTypeOK ==
  /\ pstate \in {"normal", "death", "freed"}
  /\ thread_list \in [Procs -> SUBSET Threads]
  /\ num_threads \in [Procs -> Nat]
  /\ main_thread \in Threads \cup {NoThread}
  /\ thread_hash \subseteq Threads
  /\ tstate \in [Threads -> {"unused", "birth", "suspended", "ready", "free"}]
  /\ tproc \in [Threads -> Procs \cup {NoProc}]
  /\ killed \subseteq Threads
  /\ rsem \in [Threads -> {"none", "live", "deleted"}]
  /\ xpc \in [Threads -> XPCs]
  /\ target \in [Threads -> Threads \cup {NoThread}]
  /\ wpc \in [Waiters -> {"idle", "lookup", "acquire", "blocked", "done"}]
  /\ wt \in [Waiters -> Threads \cup {NoThread}]
  /\ wsem \in [Waiters -> BOOLEAN]
  /\ wres \in [Waiters -> {"none", "ok", "err"}]

\* proc_create_proc has made the process with its main thread running.
TInit ==
  /\ pstate = "normal"
  /\ thread_list = [p \in Procs |-> IF p = UserProc THEN {Main} ELSE {}]
  /\ num_threads = [p \in Procs |-> IF p = UserProc THEN 1 ELSE 0]
  /\ main_thread = Main
  /\ thread_hash = {Main}
  /\ tstate = [t \in Threads |-> IF t = Main THEN "ready" ELSE "unused"]
  /\ tproc = [t \in Threads |-> IF t = Main THEN UserProc ELSE NoProc]
  /\ killed = {}
  /\ rsem = [t \in Threads |-> IF t = Main THEN "live" ELSE "none"]
  /\ xpc = [t \in Threads |-> "none"]
  /\ target = [t \in Threads |-> NoThread]
  /\ wpc = [w \in Waiters |-> "idle"] /\ wt = [w \in Waiters |-> NoThread]
  /\ wsem = [w \in Waiters |-> FALSE] /\ wres = [w \in Waiters |-> "none"]

\* A thread running user code of the process, free to make a system call.
InUser(t) == tstate[t] = "ready" /\ xpc[t] = "none" /\ tproc[t] = UserProc

\* insert_thread_into_proc: the first thread of an empty process becomes
\* its main thread.
InsertThread(p, t) ==
  /\ thread_list' = [thread_list EXCEPT ![p] = @ \cup {t}]
  /\ num_threads' = [num_threads EXCEPT ![p] = @ + 1]
  /\ main_thread' = IF p = UserProc /\ num_threads'[p] = 1 THEN t ELSE main_thread
  /\ tproc' = [tproc EXCEPT ![t] = p]

\* create_thread_struct (a record with a fresh id and return-code
\* semaphore) and the hash_insert into thread_hash under the thread lock.
CreateStart(c, n) ==
  /\ InUser(c) /\ tstate[n] = "unused"
  /\ tstate' = [tstate EXCEPT ![n] = "birth"]
  /\ thread_hash' = thread_hash \cup {n}
  /\ rsem' = [rsem EXCEPT ![n] = "live"]
  /\ xpc' = [xpc EXCEPT ![c] = "creating"]
  /\ target' = [target EXCEPT ![c] = n]
  /\ UNCHANGED <<pstate, thread_list, num_threads, main_thread, tproc, killed, wpc, wt, wsem, wres>>

\* Mutant: the abort path forgets hash_remove(thread_hash, t).
CreateCheckNoUnhash(c) ==
  LET n == target[c] IN
  /\ xpc[c] = "creating"
  /\ IF pstate = "normal"
       THEN /\ InsertThread(UserProc, n)
            /\ xpc' = [xpc EXCEPT ![c] = "inserted"]
            /\ UNCHANGED <<thread_hash, tstate, rsem, target>>
       ELSE /\ tstate' = [tstate EXCEPT ![n] = "free"]
            /\ rsem' = [rsem EXCEPT ![n] = "deleted"]
            /\ xpc' = [xpc EXCEPT ![c] = "none"]
            /\ target' = [target EXCEPT ![c] = NoThread]
            /\ UNCHANGED <<thread_hash, thread_list, num_threads, main_thread, tproc>>
  /\ UNCHANGED <<pstate, killed, wpc, wt, wsem, wres>>

\* Mutant: only a process that is gone is refused, not one in DEATH.
CreateCheckNoDeathCheck(c) ==
  LET n == target[c] IN
  /\ xpc[c] = "creating"
  /\ IF pstate # "freed"
       THEN /\ InsertThread(UserProc, n)
            /\ xpc' = [xpc EXCEPT ![c] = "inserted"]
            /\ UNCHANGED <<thread_hash, tstate, rsem, target>>
       ELSE /\ thread_hash' = thread_hash \ {n}
            /\ tstate' = [tstate EXCEPT ![n] = "free"]
            /\ rsem' = [rsem EXCEPT ![n] = "deleted"]
            /\ xpc' = [xpc EXCEPT ![c] = "none"]
            /\ target' = [target EXCEPT ![c] = NoThread]
            /\ UNCHANGED <<thread_list, num_threads, main_thread, tproc>>
  /\ UNCHANGED <<pstate, killed, wpc, wt, wsem, wres>>

\* Under the process lock: insert into the process unless it is gone or in
\* DEATH; otherwise hash_remove and delete_thread_struct, whose
\* sem_delete_etc(return_code_sem, -1) releases any waiter.
CreateCheck(c) ==
  LET n == target[c] IN
  /\ xpc[c] = "creating"
  /\ IF pstate = "normal"
       THEN /\ InsertThread(UserProc, n)
            /\ xpc' = [xpc EXCEPT ![c] = "inserted"]
            /\ UNCHANGED <<thread_hash, tstate, rsem, target>>
       ELSE /\ thread_hash' = thread_hash \ {n}
            /\ tstate' = [tstate EXCEPT ![n] = "free"]
            /\ rsem' = [rsem EXCEPT ![n] = "deleted"]
            /\ xpc' = [xpc EXCEPT ![c] = "none"]
            /\ target' = [target EXCEPT ![c] = NoThread]
            /\ UNCHANGED <<thread_list, num_threads, main_thread, tproc>>
  /\ UNCHANGED <<pstate, killed, wpc, wt, wsem, wres>>

\* The stacks are made and the new thread is left SUSPENDED.
CreateFinish(c) ==
  /\ xpc[c] = "inserted"
  /\ tstate' = [tstate EXCEPT ![target[c]] = "suspended"]
  /\ xpc' = [xpc EXCEPT ![c] = "none"]
  /\ target' = [target EXCEPT ![c] = NoThread]
  /\ UNCHANGED <<pstate, thread_list, num_threads, main_thread, thread_hash, tproc, killed,
                 rsem, wpc, wt, wsem, wres>>

\* CONT: a SUSPENDED thread becomes READY.
Cont(t) == tstate' = [tstate EXCEPT ![t] = IF @ = "suspended" THEN "ready" ELSE @]

\* thread_resume_thread: CONT to a thread that exists.
Resume(c, t) ==
  /\ InUser(c) /\ t \in thread_hash /\ tstate[t] = "suspended"
  /\ Cont(t)
  /\ UNCHANGED <<pstate, thread_list, num_threads, main_thread, thread_hash, tproc, killed,
                 rsem, xpc, target, wpc, wt, wsem, wres>>

\* thread_suspend_thread: STOP to a thread running user code.
Suspend(c, t) ==
  /\ InUser(c) /\ InUser(t)
  /\ tstate' = [tstate EXCEPT ![t] = "suspended"]
  /\ UNCHANGED <<pstate, thread_list, num_threads, main_thread, thread_hash, tproc, killed,
                 rsem, xpc, target, wpc, wt, wsem, wres>>

\* Mutant: a secondary thread's exit goes on to thread_exit2 without
\* deleting its return_code_sem.
ExitDetachSkipsPublish(t) ==
  /\ InUser(t)
  /\ thread_list' = [thread_list EXCEPT ![UserProc] = @ \ {t},
                                        ![KernelProc] = @ \cup {t}]
  /\ num_threads' = [num_threads EXCEPT ![UserProc] = @ - 1,
                                        ![KernelProc] = @ + 1]
  /\ tproc' = [tproc EXCEPT ![t] = KernelProc]
  /\ IF main_thread = t
       THEN pstate' = "death" /\ xpc' = [xpc EXCEPT ![t] = "kill"]
       ELSE UNCHANGED pstate /\ xpc' = [xpc EXCEPT ![t] = "exit2"]
  /\ UNCHANGED <<main_thread, thread_hash, tstate, killed, rsem, target,
                 wpc, wt, wsem, wres>>

\* thread_exit, called by the thread or on a pending SIGKILLTHR as it
\* leaves the kernel: under the process lock move to kernel_proc, and if
\* this is the main thread mark the process DEATH.
ExitDetach(t) ==
  /\ InUser(t)
  /\ thread_list' = [thread_list EXCEPT ![UserProc] = @ \ {t},
                                        ![KernelProc] = @ \cup {t}]
  /\ num_threads' = [num_threads EXCEPT ![UserProc] = @ - 1,
                                        ![KernelProc] = @ + 1]
  /\ tproc' = [tproc EXCEPT ![t] = KernelProc]
  /\ IF main_thread = t
       THEN pstate' = "death" /\ xpc' = [xpc EXCEPT ![t] = "kill"]
       ELSE UNCHANGED pstate /\ xpc' = [xpc EXCEPT ![t] = "publish"]
  /\ UNCHANGED <<main_thread, thread_hash, tstate, killed, rsem, target,
                 wpc, wt, wsem, wres>>

\* A pending SIGKILLTHR is acted on: thread_exit.
KillDeliver(t) == t \in killed /\ ExitDetach(t)

\* If threads remain, thread_kill_thread_nowait on each one in the list,
\* under the process lock.  No CONT is sent.
ExitKillSiblings(t) ==
  /\ xpc[t] = "kill"
  /\ killed' = killed \cup thread_list[UserProc]
  /\ xpc' = [xpc EXCEPT ![t] = "poll"]
  /\ UNCHANGED <<pstate, thread_list, num_threads, main_thread, thread_hash, tstate, tproc,
                 rsem, target, wpc, wt, wsem, wres>>

\* Mutant: the count is tested once (if, not while).
ExitPollOnce(t) ==
  /\ xpc[t] = "poll"
  /\ xpc' = [xpc EXCEPT ![t] = "teardown"]
  /\ UNCHANGED <<pstate, thread_list, num_threads, main_thread, thread_hash, tstate, tproc,
                 killed, rsem, target, wpc, wt, wsem, wres>>

\* while(p->num_threads > 0) thread_snooze(10000);
ExitPoll(t) ==
  /\ xpc[t] = "poll" /\ num_threads[UserProc] = 0
  /\ xpc' = [xpc EXCEPT ![t] = "teardown"]
  /\ UNCHANGED <<pstate, thread_list, num_threads, main_thread, thread_hash, tstate, tproc,
                 killed, rsem, target, wpc, wt, wsem, wres>>

\* The process leaves proc_hash and is freed (ProcGroups's ExitTeardown and
\* ExitFree).
ExitFreeProc(t) ==
  /\ xpc[t] = "teardown"
  /\ pstate' = "freed"
  /\ xpc' = [xpc EXCEPT ![t] = "publish"]
  /\ UNCHANGED <<thread_list, num_threads, main_thread, thread_hash, tstate, tproc,
                 killed, rsem, target, wpc, wt, wsem, wres>>

\* return_code_sem = -1, then sem_delete_etc(s, retcode): every waiter
\* blocked on it returns with the retcode.
ExitPublish(t) ==
  /\ xpc[t] = "publish"
  /\ rsem' = [rsem EXCEPT ![t] = "deleted"]
  /\ xpc' = [xpc EXCEPT ![t] = "exit2"]
  /\ UNCHANGED <<pstate, thread_list, num_threads, main_thread, thread_hash, tstate, tproc,
                 killed, target, wpc, wt, wsem, wres>>

\* Mutant: thread_exit2 removes the thread from its old process p rather
\* than from kernel_proc.
ExitRemoveFromOldProc(t) ==
  /\ xpc[t] = "exit2"
  /\ thread_list' = [thread_list EXCEPT ![KernelProc] = @ \ {t}]
  /\ num_threads' = [num_threads EXCEPT ![UserProc] = @ - 1]
  /\ thread_hash' = thread_hash \ {t}
  /\ tstate' = [tstate EXCEPT ![t] = "free"]
  /\ tproc' = [tproc EXCEPT ![t] = NoProc]
  /\ xpc' = [xpc EXCEPT ![t] = "done"]
  /\ UNCHANGED <<pstate, main_thread, killed, rsem, target, wpc, wt, wsem, wres>>

\* thread_exit2 on the death stack: leave kernel_proc and thread_hash; the
\* record goes to dead_q.
ExitRemove(t) ==
  /\ xpc[t] = "exit2"
  /\ thread_list' = [thread_list EXCEPT ![KernelProc] = @ \ {t}]
  /\ num_threads' = [num_threads EXCEPT ![KernelProc] = @ - 1]
  /\ thread_hash' = thread_hash \ {t}
  /\ tstate' = [tstate EXCEPT ![t] = "free"]
  /\ tproc' = [tproc EXCEPT ![t] = NoProc]
  /\ xpc' = [xpc EXCEPT ![t] = "done"]
  /\ UNCHANGED <<pstate, main_thread, killed, rsem, target, wpc, wt, wsem, wres>>

-----------------------------------------------------------------------------
(* Waiters.                                                                *)

\* thread_wait_on_thread starts with send_signal_etc(id, SIGCONT), which
\* fails for an id not in thread_hash.  thread_kill_thread sends
\* SIGKILLTHR first and then waits the same way.
WaitBegin(w, t, kill) ==
  /\ wpc[w] = "idle"
  /\ IF t \in thread_hash
       THEN /\ wt' = [wt EXCEPT ![w] = t]
            /\ Cont(t)
            /\ killed' = IF kill THEN killed \cup {t} ELSE killed
            /\ wpc' = [wpc EXCEPT ![w] = "lookup"]
            /\ UNCHANGED wres
       ELSE /\ wpc' = [wpc EXCEPT ![w] = "done"]
            /\ wres' = [wres EXCEPT ![w] = "err"]
            /\ UNCHANGED <<tstate, killed, wt>>
  /\ UNCHANGED <<pstate, thread_list, num_threads, main_thread, thread_hash, tproc, rsem,
                 xpc, target, wsem>>

\* proc_wait_on_proc: the main thread's id, read under the process lock,
\* then thread_wait_on_thread on it.
WaitProcBegin(w) ==
  /\ wpc[w] = "idle"
  /\ IF pstate # "freed" /\ main_thread # NoThread
       THEN WaitBegin(w, main_thread, FALSE)
       ELSE /\ wpc' = [wpc EXCEPT ![w] = "done"]
            /\ wres' = [wres EXCEPT ![w] = "err"]
            /\ UNCHANGED <<pstate, thread_list, num_threads, main_thread, thread_hash, tstate,
                           tproc, killed, rsem, xpc, target, wt, wsem>>

\* Under the thread lock: t->return_code_sem, or ERR_INVALID_HANDLE if the
\* thread is gone; -1 once the thread has started to delete it.
WaitLookup(w) ==
  /\ wpc[w] = "lookup"
  /\ wsem' = [wsem EXCEPT ![w] = wt[w] \in thread_hash /\ rsem[wt[w]] = "live"]
  /\ wpc' = [wpc EXCEPT ![w] = "acquire"]
  /\ UNCHANGED <<pstate, thread_list, num_threads, main_thread, thread_hash, tstate, tproc,
                 killed, rsem, xpc, target, wt, wres>>

\* sem_acquire_etc: blocks on a live semaphore and fails on a handle that
\* is invalid or already deleted.
WaitAcquire(w) ==
  /\ wpc[w] = "acquire"
  /\ IF wsem[w] /\ rsem[wt[w]] = "live"
       THEN wpc' = [wpc EXCEPT ![w] = "blocked"] /\ UNCHANGED wres
       ELSE /\ wpc' = [wpc EXCEPT ![w] = "done"]
            /\ wres' = [wres EXCEPT ![w] = "err"]
  /\ UNCHANGED <<pstate, thread_list, num_threads, main_thread, thread_hash, tstate, tproc,
                 killed, rsem, xpc, target, wt, wsem>>

\* The semaphore is deleted: ERR_SEM_DELETED, normalised to NO_ERROR, with
\* the retcode.
WaitWake(w) ==
  /\ wpc[w] = "blocked" /\ rsem[wt[w]] = "deleted"
  /\ wpc' = [wpc EXCEPT ![w] = "done"]
  /\ wres' = [wres EXCEPT ![w] = "ok"]
  /\ UNCHANGED <<pstate, thread_list, num_threads, main_thread, thread_hash, tstate, tproc,
                 killed, rsem, xpc, target, wt, wsem>>

-----------------------------------------------------------------------------
TNext ==
  \/ \E c \in Threads :
       \/ \E n \in Threads : CreateStart(c, n)
       \/ CreateCheck(c) \/ CreateFinish(c)
       \/ \E t \in Threads : Resume(c, t) \/ Suspend(c, t)
  \/ \E t \in Threads :
       \/ ExitDetach(t) \/ ExitKillSiblings(t) \/ ExitPoll(t)
       \/ ExitFreeProc(t) \/ ExitPublish(t) \/ ExitRemove(t)
  \/ \E w \in Waiters :
       \/ \E t \in Threads, kill \in BOOLEAN : WaitBegin(w, t, kill)
       \/ WaitProcBegin(w) \/ WaitLookup(w) \/ WaitAcquire(w) \/ WaitWake(w)

\* A thread in the kernel keeps running through thread_exit and through
\* _create_thread (the scheduler dispatches it; ThreadExit's fairness), a
\* READY thread with SIGKILLTHR pending reaches its kernel exit and acts on
\* it, and a waiter whose semaphore went away is woken.
TSpec ==
  /\ TInit /\ [][TNext]_tvars
  /\ \A t \in Threads :
       /\ WF_tvars(CreateCheck(t)) /\ WF_tvars(CreateFinish(t))
       /\ WF_tvars(KillDeliver(t))
       /\ WF_tvars(ExitKillSiblings(t)) /\ WF_tvars(ExitPoll(t))
       /\ WF_tvars(ExitFreeProc(t)) /\ WF_tvars(ExitPublish(t))
       /\ WF_tvars(ExitRemove(t))
  /\ \A w \in Waiters :
       WF_tvars(WaitLookup(w)) /\ WF_tvars(WaitAcquire(w)) /\ WF_tvars(WaitWake(w))

-----------------------------------------------------------------------------
(* Properties.                                                             *)

\* Spec scenario 6: every id in thread_hash is a thread of a live process
\* or of kernel_proc, or one _create_thread is still deciding about; a
\* creation that loses the race with the main thread's exit leaves no
\* record behind.
NoLeakedThreadRecord ==
  \A t \in thread_hash :
    \/ /\ tproc[t] \in Procs /\ t \in thread_list[tproc[t]]
       /\ (tproc[t] = KernelProc \/ pstate # "freed")
    \/ tstate[t] = "birth" /\ \E c \in Threads : xpc[c] = "creating" /\ target[c] = t

\* Once the exiting main thread has walked its thread list, every thread
\* still in the process has SIGKILLTHR pending: no thread can join a
\* process in DEATH after the walk (_create_thread's check under the same
\* lock), so none is left running while the main thread polls.
DyingProcThreadsKilled ==
  \A t \in Threads :
    xpc[t] \in {"poll", "teardown"} => thread_list[UserProc] \subseteq killed

\* The process record is freed only when no thread refers to it: the poll
\* loop waits for num_threads to reach 0 and the DEATH check keeps it there.
NoThreadOfFreedProc ==
  pstate = "freed" => \A t \in Threads : tproc[t] # UserProc

\* A wait never returns while its target still runs: thread_wait_on_thread
\* reads return_code_sem under the thread lock and acquires it after
\* dropping the lock, and however the target's exit (which sets the field
\* to -1 and deletes the semaphore) falls between the two, the waiter
\* returns, with the retcode or an error, only for a thread that never
\* existed or whose exit has deleted the semaphore.
WaitReturnsAfterExit ==
  \A w \in Waiters :
    wpc[w] = "done" /\ wt[w] \in Threads => rsem[wt[w]] # "live"

\* Spec section 4.2 (exit step 3): once the main thread marks the process
\* DEATH, the siblings are killed and the process is eventually torn down.
MainExitCompletes == pstate = "death" ~> pstate = "freed"


-----------------------------------------------------------------------------
(* Refinement: the threads of the user process implement ProcThreads.  A *)
(* thread is in the process while it is on p->thread_list, and has left  *)
(* it for good once it is in thread_exit.                                 *)

Exiting(t) == xpc[t] \in {"kill", "poll", "teardown", "publish", "exit2", "done"}

Abs == INSTANCE ProcThreads
         WITH state <- pstate, members <- thread_list[UserProc],
              exited <- {t \in Threads : Exiting(t)}

\* Every step of _create_thread, thread_exit and the waits, whatever the
\* interleaving, is a step of ProcThreads or leaves it unchanged: the DEATH
\* check under the process lock keeps new threads out of a dying process,
\* and the poll loop keeps the process from being freed before its last
\* thread has moved to kernel_proc.
ThreadsRefinement == Abs!Spec

=============================================================================
