----------------------------- MODULE Scheduler -----------------------------
(***************************************************************************)
(* The run queues and the dispatcher of the NewOS thread subsystem         *)
(* (src/kernel/net/udp.c, the part that is kernel/thread.c).               *)
(*                                                                         *)
(* Every operation below runs as one step: in the code it is a critical   *)
(* section under thread_spinlock with local interrupts disabled, so no    *)
(* other CPU can observe its intermediate states.  The one exception is   *)
(* thread_set_priority on the calling thread itself, which writes         *)
(* t->priority without the lock; it is still one step because it is a     *)
(* single store.                                                           *)
(*                                                                         *)
(* Blocking on and waking from a semaphore, and stopping and continuing a *)
(* thread by signal, are done by code outside src/ (sem.c, signal.c);     *)
(* they are modelled from the spec (section 3, thread states).            *)
(***************************************************************************)
EXTENDS Integers, Sequences, SequencesExt, FiniteSets, FiniteSetsExt

CONSTANTS
  CPUs,           \* the processors
  Workers,        \* threads other than the idle threads
  IdleThread,     \* idle_threads[]: CPU -> its idle thread
  IdlePrio,       \* THREAD_IDLE_PRIORITY
  MinPrio,        \* THREAD_MIN_PRIORITY
  MaxPrio,        \* THREAD_MAX_PRIORITY (highest regular level)
  MinRTPrio,      \* THREAD_MIN_RT_PRIORITY
  MaxRTPrio,      \* THREAD_MAX_RT_PRIORITY
  MediumPrio,     \* THREAD_MEDIUM_PRIORITY, given at creation
  PrioInputs      \* priorities passed to thread_set_priority

Threads == Workers \cup {IdleThread[c] : c \in CPUs}
Levels == IdlePrio .. MaxRTPrio              \* run_q[THREAD_NUM_PRIORITY_LEVELS]
RTLevels == MinRTPrio .. MaxRTPrio
RegLevels == (IdlePrio + 1) .. MaxPrio

ASSUME /\ DOMAIN IdleThread = CPUs
       /\ \A c, d \in CPUs : c # d => IdleThread[c] # IdleThread[d]
       /\ {IdleThread[c] : c \in CPUs} \cap Workers = {}
       /\ IdlePrio < MinPrio /\ MinPrio <= MaxPrio /\ MaxPrio < MinRTPrio
       /\ MinRTPrio <= MaxRTPrio /\ MediumPrio \in MinPrio .. MaxPrio
       /\ PrioInputs \subseteq Int

\* Thread states (THREAD_STATE_*)
BIRTH == "BIRTH"  READY == "READY"  RUNNING == "RUNNING"
WAITING == "WAITING"  SUSPENDED == "SUSPENDED"  FREE == "FREE_ON_RESCHED"
States == {BIRTH, READY, RUNNING, WAITING, SUSPENDED, FREE}

VARIABLES
  state,        \* t->state
  next_state,   \* t->next_state
  priority,     \* t->priority
  run_q,        \* run_q[]: level -> FIFO of threads
  dead_q,       \* dead_q: FIFO of thread records free for reuse
  thread_hash,  \* the threads thread_get_thread_struct_locked can find
  current,      \* the thread each CPU runs (arch current-thread pointer)
  rt_asked      \* history: threads whose last priority request was real-time

vars == <<state, next_state, priority, run_q, dead_q, thread_hash, current,
          rt_asked>>

-----------------------------------------------------------------------------
(* Helpers translated from the queue primitives.                           *)

\* thread_enqueue_run_q: clamp the priority to [0, THREAD_MAX_PRIORITY]
\* ("these shouldn't exist") and append to the tail of that level.
ClampRunQ(p) == IF p > MaxPrio THEN MaxPrio ELSE IF p < 0 THEN 0 ELSE p

EnqueueRunQ(q, t, p) == [q EXCEPT ![ClampRunQ(p)] = Append(@, t)]

\* thread_dequeue_thread: unlink t from whatever run queue holds it.
DequeueThread(q, t) == [l \in Levels |-> Remove(q[l], t)]

\* The level thread_resched takes its next thread from, given the set of
\* regular levels at which _rand() <= 0x3000 ("skip it sometimes").
\* Real-time levels are scanned high to low without skipping; regular
\* levels high to low, taking the first one not skipped; if every
\* non-empty regular level was skipped, last_thread_pri, the last (lowest)
\* one skipped; otherwise the idle level.
PickLevel(q, skip) ==
  LET rt    == {l \in RTLevels : q[l] # <<>>}
      reg   == {l \in RegLevels : q[l] # <<>>}
      taken == reg \ skip
  IN  IF rt # {} THEN Max(rt)
      ELSE IF taken # {} THEN Max(taken)
      ELSE IF reg # {} THEN Min(reg)
      ELSE IdlePrio

\* The scheduling fields of all threads, as one value, so that a critical
\* section that readies a thread and then reschedules composes in one step.
Sched == [st |-> state, nst |-> next_state, pr |-> priority, q |-> run_q]

\* What sem_release and a SIGCONT do to a thread under the thread lock:
\* state and next_state READY, then thread_enqueue_run_q.
MakeReady(s, t) ==
  [st |-> [s.st EXCEPT ![t] = READY], nst |-> [s.nst EXCEPT ![t] = READY],
   pr |-> [s.pr EXCEPT ![t] = ClampRunQ(@)], q |-> EnqueueRunQ(s.q, t, s.pr[t])]

-----------------------------------------------------------------------------
Init ==
  /\ state = [t \in Threads |-> IF t \in Workers THEN SUSPENDED ELSE RUNNING]
  /\ next_state = [t \in Threads |-> READY]
  /\ priority = [t \in Threads |-> IF t \in Workers THEN MediumPrio ELSE IdlePrio]
  /\ run_q = [l \in Levels |-> <<>>]
  /\ dead_q = <<>>
  /\ thread_hash = Threads
  /\ current = IdleThread
  /\ rt_asked = {}

(***************************************************************************)
(* Mutants: plausible slips in the code below, each of which a property    *)
(* of MCScheduler.cfg must catch.                                          *)
(***************************************************************************)

\* thread_resched without "old_thread->state = old_thread->next_state".
ReschedKeepsOldState(c, ns, skip, s) ==
  LET old  == current[c]
      runs == ns \in {RUNNING, READY}
      q1   == IF runs THEN EnqueueRunQ(s.q, old, s.pr[old]) ELSE s.q
      lvl  == PickLevel(q1, skip)
      nxt  == Head(q1[lvl])
  IN  /\ q1[lvl] # <<>>
      /\ run_q' = [q1 EXCEPT ![lvl] = Tail(@)]
      /\ dead_q' = IF ns = FREE THEN Append(dead_q, old) ELSE dead_q
      /\ priority' = IF runs THEN [s.pr EXCEPT ![old] = ClampRunQ(@)] ELSE s.pr
      /\ state' = [s.st EXCEPT ![nxt] = RUNNING]
      /\ next_state' = [[s.nst EXCEPT ![old] = ns] EXCEPT ![nxt] = READY]
      /\ current' = [current EXCEPT ![c] = nxt]

\* thread_resched whose switch forgets "case THREAD_STATE_READY:".
ReschedDropsReady(c, ns, skip, s) ==
  LET old  == current[c]
      runs == ns = RUNNING
      q1   == IF runs THEN EnqueueRunQ(s.q, old, s.pr[old]) ELSE s.q
      lvl  == PickLevel(q1, skip)
      nxt  == Head(q1[lvl])
  IN  /\ q1[lvl] # <<>>
      /\ run_q' = [q1 EXCEPT ![lvl] = Tail(@)]
      /\ dead_q' = IF ns = FREE THEN Append(dead_q, old) ELSE dead_q
      /\ priority' = IF runs THEN [s.pr EXCEPT ![old] = ClampRunQ(@)] ELSE s.pr
      /\ state' = [[s.st EXCEPT ![old] = ns] EXCEPT ![nxt] = RUNNING]
      /\ next_state' = [[s.nst EXCEPT ![old] = ns] EXCEPT ![nxt] = READY]
      /\ current' = [current EXCEPT ![c] = nxt]

\* thread_set_priority without the THREAD_MAX_RT_PRIORITY upper clamp.
SetPriorityNoUpperClamp(c, id, p0, user) ==
  LET p1 == IF user /\ p0 > MaxPrio THEN MaxPrio ELSE p0
      p  == IF p1 < MinPrio THEN MinPrio ELSE p1
  IN  /\ current[c] \in Workers
      /\ current[c] = id \/ id \in thread_hash
      /\ IF current[c] # id /\ state[id] = READY /\ priority[id] # p
           THEN /\ run_q' = EnqueueRunQ(DequeueThread(run_q, id), id, p)
                /\ priority' = [priority EXCEPT ![id] = ClampRunQ(p)]
           ELSE /\ priority' = [priority EXCEPT ![id] = p]
                /\ UNCHANGED run_q
      /\ rt_asked' = IF p \in RTLevels THEN rt_asked \cup {id}
                                       ELSE rt_asked \ {id}
      /\ UNCHANGED <<state, next_state, dead_q, thread_hash, current>>

\* thread_set_priority that changes a READY thread's priority in place,
\* without taking it off its run queue and re-inserting it.
SetPriorityNoRequeue(c, id, p0, user) ==
  LET p1 == IF user /\ p0 > MaxPrio THEN MaxPrio ELSE p0
      p2 == IF p1 > MaxRTPrio THEN MaxRTPrio ELSE p1
      p  == IF p2 < MinPrio THEN MinPrio ELSE p2
  IN  /\ current[c] \in Workers
      /\ current[c] = id \/ id \in thread_hash
      /\ priority' = [priority EXCEPT ![id] = p]
      /\ UNCHANGED run_q
      /\ rt_asked' = IF p \in RTLevels THEN rt_asked \cup {id}
                                       ELSE rt_asked \ {id}
      /\ UNCHANGED <<state, next_state, dead_q, thread_hash, current>>

-----------------------------------------------------------------------------

\* thread_resched on CPU c, with thread_spinlock held, from the scheduling
\* fields s, after the caller has set the outgoing thread's next_state to
\* ns.  The outgoing thread is queued according to ns (run queue, dead
\* queue, or none) and takes ns as its state; the picked thread becomes
\* RUNNING with next_state READY.  thread_context_switch (time accounting,
\* FPU, address space) and the re-arm of the quantum timer do not change
\* the state modelled here.
ReschedFrom(c, ns, skip, s) ==
  LET old  == current[c]
      runs == ns \in {RUNNING, READY}
      q1   == IF runs THEN EnqueueRunQ(s.q, old, s.pr[old]) ELSE s.q
      lvl  == PickLevel(q1, skip)
      nxt  == Head(q1[lvl])
  IN  /\ q1[lvl] # <<>>            \* else panic("next_thread == NULL!")
      /\ run_q' = [q1 EXCEPT ![lvl] = Tail(@)]
      /\ dead_q' = IF ns = FREE THEN Append(dead_q, old) ELSE dead_q
      /\ priority' = IF runs THEN [s.pr EXCEPT ![old] = ClampRunQ(@)] ELSE s.pr
      /\ state' = [[s.st EXCEPT ![old] = ns] EXCEPT ![nxt] = RUNNING]
      /\ next_state' = [[s.nst EXCEPT ![old] = ns] EXCEPT ![nxt] = READY]
      /\ current' = [current EXCEPT ![c] = nxt]

Resched(c, ns, skip) == ReschedFrom(c, ns, skip, Sched)

\* thread_yield, and the interrupt tail after the quantum timer's
\* reschedule_event returned INT_RESCHEDULE: both call thread_resched.
Yield(c) ==
  /\ \E skip \in SUBSET RegLevels : Resched(c, next_state[current[c]], skip)
  /\ UNCHANGED <<thread_hash, rt_asked>>

\* thread_set_priority(id, priority), called by the thread running on c;
\* user_thread_set_priority first clamps to THREAD_MAX_PRIORITY.  For the
\* caller itself the field is written directly; another thread is looked
\* up in the thread hash (ERR_INVALID_HANDLE, no change, if absent) and
\* re-queued if READY at another level.
SetPriority(c, id, p0, user) ==
  LET p1 == IF user /\ p0 > MaxPrio THEN MaxPrio ELSE p0
      p2 == IF p1 > MaxRTPrio THEN MaxRTPrio ELSE p1
      p  == IF p2 < MinPrio THEN MinPrio ELSE p2
  IN  /\ current[c] \in Workers
      /\ current[c] = id \/ id \in thread_hash
      /\ IF current[c] # id /\ state[id] = READY /\ priority[id] # p
           THEN /\ run_q' = EnqueueRunQ(DequeueThread(run_q, id), id, p)
                /\ priority' = [priority EXCEPT ![id] = ClampRunQ(p)]
           ELSE /\ priority' = [priority EXCEPT ![id] = p]
                /\ UNCHANGED run_q
      /\ rt_asked' = IF p \in RTLevels THEN rt_asked \cup {id}
                                       ELSE rt_asked \ {id}
      /\ UNCHANGED <<state, next_state, dead_q, thread_hash, current>>

\* sem_acquire on a semaphore without count (sem.c, from the spec): the
\* running thread sets next_state WAITING and calls thread_resched.
Block(c) ==
  /\ current[c] \in Workers
  /\ \E skip \in SUBSET RegLevels : Resched(c, WAITING, skip)
  /\ UNCHANGED <<thread_hash, rt_asked>>

\* sem_release (sem.c, from the spec): a waiting thread is made READY and
\* put on its run queue; with SEM_FLAG_NO_RESCHED the releaser goes on.
Wakeup(t) ==
  /\ state[t] = WAITING
  /\ LET s == MakeReady(Sched, t)
     IN  state' = s.st /\ next_state' = s.nst /\ priority' = s.pr /\ run_q' = s.q
  /\ UNCHANGED <<dead_q, thread_hash, current, rt_asked>>

\* SIGSTOP handled by the running thread itself (signal.c, from the spec):
\* next_state SUSPENDED, then thread_resched.
Suspend(c) ==
  /\ current[c] \in Workers
  /\ \E skip \in SUBSET RegLevels : Resched(c, SUSPENDED, skip)
  /\ UNCHANGED <<thread_hash, rt_asked>>

\* SIGCONT to a suspended thread (signal.c, from the spec), as sent by
\* thread_resume_thread: it becomes READY and is put on its run queue.
Resume(t) ==
  /\ state[t] = SUSPENDED
  /\ LET s == MakeReady(Sched, t)
     IN  state' = s.st /\ next_state' = s.nst /\ priority' = s.pr /\ run_q' = s.q
  /\ UNCHANGED <<dead_q, thread_hash, current, rt_asked>>

Next ==
  \/ \E c \in CPUs : Yield(c) \/ Block(c) \/ Suspend(c)
  \/ \E c \in CPUs, t \in Threads, p \in PrioInputs, u \in BOOLEAN :
       SetPriority(c, t, p, u)
  \/ \E t \in Threads : Wakeup(t) \/ Resume(t)

Spec == Init /\ [][Next]_vars

-----------------------------------------------------------------------------
(* Properties                                                              *)

TypeOK ==
  /\ state \in [Threads -> States]
  /\ next_state \in [Threads -> States]
  /\ priority \in [Threads -> Levels]
  /\ run_q \in [Levels -> Seq(Threads)]
  /\ dead_q \in Seq(Threads)
  /\ thread_hash \subseteq Threads
  /\ current \in [CPUs -> Threads]
  /\ rt_asked \subseteq Threads

\* Spec section 8: every READY thread is on exactly one run queue, the one
\* of its priority, and nothing else is on a run queue.  Broken if
\* thread_set_priority, thread_enqueue_run_q or thread_resched leaves a
\* thread queued twice, at a stale level, or queued while not READY.
ReadyIffQueued ==
  \A t \in Threads :
    \A l \in Levels :
      Cardinality({i \in 1..Len(run_q[l]) : run_q[l][i] = t}) =
        IF state[t] = READY /\ priority[t] = l THEN 1 ELSE 0

\* Spec section 8: exactly one thread per CPU is RUNNING, and a RUNNING
\* thread is the current thread of exactly one CPU (thread_resched's
\* state and current-thread updates stay in step on every CPU).
OneRunningPerCPU ==
  /\ \A c, d \in CPUs : c # d => current[c] # current[d]
  /\ \A t \in Threads : state[t] = RUNNING <=> \E c \in CPUs : current[c] = t

\* thread_resched never reaches panic("next_thread == NULL!"): a CPU whose
\* current thread may block or stop always finds another thread queued.
\* It rests on the idle threads, one per CPU, never leaving the run queues.
DispatchNeverEmpty ==
  \A c \in CPUs : current[c] \in Workers => \E l \in Levels : run_q[l] # <<>>

\* (THREAD_MIN_RT_PRIORITY..THREAD_MAX_RT_PRIORITY) by thread_set_priority
\* that is READY when a CPU dispatches is preferred to every thread that
\* was not: thread_resched scans the real-time levels first.
RTDispatchedFirst ==
  [][\A c \in CPUs :
       (current'[c] # current[c] /\ current'[c] \notin rt_asked)
         => ~\E t \in rt_asked : state[t] = READY /\ state'[t] = READY]_vars

=============================================================================
