---------------------------- MODULE ThreadExit ----------------------------
(***************************************************************************)
(* Thread self-teardown through the death stacks (thread_exit,             *)
(* get_death_stack, thread_exit2, put_death_stack_and_reschedule), built   *)
(* on the scheduler of module Scheduler.                                    *)
(*                                                                         *)
(* An exiting thread cannot free the kernel stack it runs on, so it moves *)
(* to one of num_death_stacks shared stacks, chosen as the lowest zero bit *)
(* of death_stack_bitmap under thread_spinlock; the counting semaphore     *)
(* death_stack_sem keeps more than num_death_stacks threads from looking.  *)
(* The stack is given back in the same critical section that reschedules  *)
(* away from it for the last time.                                         *)
(*                                                                         *)
(* xpc[t] is where thread t is in that sequence:                           *)
(*   "none"  not exiting;                                                  *)
(*   "sem"   thread_exit ran up to sem_acquire(death_stack_sem);          *)
(*   "grab"  holds a unit of the semaphore (or waits for one), about to   *)
(*           take a bit;                                                   *)
(*   "exit2" on death stack ds_index[t], in thread_exit2;                 *)
(*   "put"   removed from thread_hash, next_state FREE_ON_RESCHED;        *)
(*   "dead"  on dead_q, its record free for create_thread_struct.         *)
(* The process part of thread_exit (main thread, siblings, orphans) is    *)
(* module ProcGroups' business: exiting threads here belong to the kernel *)
(* process.  The semaphore (sem.c) is modelled from the spec: a count and *)
(* a FIFO of waiters; release wakes the first waiter, else counts.        *)
(***************************************************************************)
EXTENDS Scheduler, Bitwise

CONSTANTS
  HighPrio,       \* THREAD_HIGH_PRIORITY, the boost at the start of exit
  BitmapWidth,    \* bits of death_stack_bitmap (an unsigned int)
  MaxDeathStacks  \* the cap on num_death_stacks in thread_init (32)

ASSUME HighPrio \in MinPrio .. MaxPrio /\ MaxDeathStacks <= BitmapWidth

\* thread_init: num_death_stacks = smp_get_num_cpus(), capped.
NumDeathStacks == Min({Cardinality(CPUs), MaxDeathStacks})

Word == 2^BitmapWidth
Comp(x) == (Word - 1) - x                \* ~x on an unsigned int
Bit(i) == 2^i                           \* 1 << index
IsSet(b, i) == (b \div Bit(i)) % 2 = 1
BitsOf(b) == {i \in 0 .. BitmapWidth - 1 : IsSet(b, i)}

\* Mutant: the first complement dropped, (~bit) & ((~bit) - 1).
LowestZeroBitNoOuterNot(b) == Comp(b) & ((Comp(b) - 1) % Word)

\* Mutant: the "bit to number" loop started at i = 0 instead of -1.
RECURSIVE BitToNumberOffByOne(_)
BitToNumberOffByOne(bit) == IF bit = 0 THEN 0 ELSE 1 + BitToNumberOffByOne(bit \div 2)

\* get_death_stack: bit = (~bit) & ~((~bit) - 1), in unsigned arithmetic.
LowestZeroBit(b) == Comp(b) & Comp((Comp(b) - 1) % Word)

\* get_death_stack: "bit to number" (shift right until zero, counting).
RECURSIVE BitToNumber(_)
BitToNumber(bit) == IF bit = 0 THEN -1 ELSE 1 + BitToNumber(bit \div 2)

XPCs == {"none", "sem", "grab", "exit2", "put", "dead"}

VARIABLES
  xpc,                 \* per thread: where it is in the exit sequence
  ds_index,            \* per thread: args.death_stack, -1 before it has one
  death_stack_bitmap,
  ds_count,            \* death_stack_sem's count
  ds_waiters           \* threads blocked in sem_acquire(death_stack_sem)

evars == <<xpc, ds_index, death_stack_bitmap, ds_count, ds_waiters>>
allvars == <<vars, evars>>

Exiting == {t \in Workers : xpc[t] # "none"}
\* Threads that hold a unit of death_stack_sem but no bit yet.
SemHolders == {t \in Workers : xpc[t] = "grab" /\ t \notin Range(ds_waiters)}
\* Threads running on (or about to leave) death stack i.
OnDeathStack(i) == {t \in Workers : xpc[t] \in {"exit2", "put"} /\ ds_index[t] = i}

ExitInit ==
  /\ Init
  /\ xpc = [t \in Workers |-> "none"]
  /\ ds_index = [t \in Workers |-> -1]
  /\ death_stack_bitmap = 0
  /\ ds_count = NumDeathStacks           \* sem_create(num_death_stacks, ...)
  /\ ds_waiters = <<>>

-----------------------------------------------------------------------------
(* The scheduler's operations, limited to where the exit path allows them: *)
(* preemption only where interrupts are enabled, and blocking, stopping   *)
(* and priority calls only by threads not inside thread_exit.             *)

IntsEnabled(t) == IF t \in Workers THEN xpc[t] \in {"none", "sem", "grab", "exit2"} ELSE TRUE

SchedStep ==
  \/ \E c \in CPUs : IntsEnabled(current[c]) /\ Yield(c) /\ UNCHANGED evars
  \/ \E c \in CPUs :
       /\ current[c] \in Workers /\ xpc[current[c]] = "none"
       /\ \/ \E id \in Threads, p \in PrioInputs, u \in BOOLEAN : SetPriority(c, id, p, u)
          \/ Block(c)
          \/ Suspend(c)
       /\ UNCHANGED evars
  \/ \E t \in Workers : xpc[t] = "none" /\ (Wakeup(t) \/ Resume(t)) /\ UNCHANGED evars

-----------------------------------------------------------------------------
(* The exit path.                                                          *)

\* thread_exit up to get_death_stack: thread_set_priority(t->id,
\* THREAD_HIGH_PRIORITY) on itself (a plain store), then the alarm, user
\* stack, SIGCHLD and return_code_sem work, none of which touches the
\* state modelled here.
ExitBegin(c) ==
  LET t == current[c] IN
  /\ t \in Workers /\ xpc[t] = "none"
  /\ priority' = [priority EXCEPT ![t] = HighPrio]
  /\ rt_asked' = rt_asked \ {t}
  /\ xpc' = [xpc EXCEPT ![t] = "sem"]
  /\ UNCHANGED <<state, next_state, run_q, dead_q, thread_hash, current,
                 ds_index, death_stack_bitmap, ds_count, ds_waiters>>

\* Mutant: a semaphore acquire that never takes the unit it is granted.
DeathSemAcquireNoDecrement(c) ==
  LET t == current[c] IN
  /\ t \in Workers /\ xpc[t] = "sem"
  /\ xpc' = [xpc EXCEPT ![t] = "grab"]
  /\ IF ds_count > 0
       THEN UNCHANGED <<vars, ds_waiters, ds_count>>
       ELSE /\ ds_waiters' = Append(ds_waiters, t)
            /\ \E skip \in SUBSET RegLevels : Resched(c, WAITING, skip)
            /\ UNCHANGED <<thread_hash, rt_asked, ds_count>>
  /\ UNCHANGED <<ds_index, death_stack_bitmap>>

\* get_death_stack: sem_acquire(death_stack_sem, 1).  With the count at 0
\* the thread queues on the semaphore and reschedules as WAITING; it goes
\* on from "grab" when put_death_stack_and_reschedule wakes it.
DeathSemAcquire(c) ==
  LET t == current[c] IN
  /\ t \in Workers /\ xpc[t] = "sem"
  /\ xpc' = [xpc EXCEPT ![t] = "grab"]
  /\ IF ds_count > 0
       THEN /\ ds_count' = ds_count - 1
            /\ UNCHANGED <<vars, ds_waiters>>
       ELSE /\ ds_waiters' = Append(ds_waiters, t)
            /\ \E skip \in SUBSET RegLevels : Resched(c, WAITING, skip)
            /\ UNCHANGED <<thread_hash, rt_asked, ds_count>>
  /\ UNCHANGED <<ds_index, death_stack_bitmap>>

\* get_death_stack after the semaphore: with interrupts off and the
\* thread lock held, take the lowest zero bit; then, still with interrupts
\* off, thread_exit switches to that stack and thread_exit2 restores them.
DeathStackGrab(c) ==
  LET t   == current[c]
      bit == LowestZeroBit(death_stack_bitmap)
  IN  /\ t \in Workers /\ xpc[t] = "grab"
      /\ death_stack_bitmap' = death_stack_bitmap | bit
      /\ ds_index' = [ds_index EXCEPT ![t] = BitToNumber(bit)]
      /\ xpc' = [xpc EXCEPT ![t] = "exit2"]
      /\ UNCHANGED <<vars, ds_count, ds_waiters>>

\* Mutant: thread_exit2 without hash_remove(thread_hash, args.t).
Exit2RemoveKeepsHash(c) ==
  LET t == current[c] IN
  /\ t \in Workers /\ xpc[t] = "exit2"
  /\ next_state' = [next_state EXCEPT ![t] = FREE]
  /\ xpc' = [xpc EXCEPT ![t] = "put"]
  /\ UNCHANGED <<state, priority, run_q, dead_q, thread_hash, current, rt_asked,
                 ds_index, death_stack_bitmap, ds_count, ds_waiters>>

\* thread_exit2: remove the thread from thread_hash (thread lock held),
\* then, with interrupts still off, next_state = FREE_ON_RESCHED.
Exit2Remove(c) ==
  LET t == current[c] IN
  /\ t \in Workers /\ xpc[t] = "exit2"
  /\ thread_hash' = thread_hash \ {t}
  /\ next_state' = [next_state EXCEPT ![t] = FREE]
  /\ xpc' = [xpc EXCEPT ![t] = "put"]
  /\ UNCHANGED <<state, priority, run_q, dead_q, current, rt_asked,
                 ds_index, death_stack_bitmap, ds_count, ds_waiters>>

\* sem_release_etc(death_stack_sem, 1, SEM_FLAG_NO_RESCHED): the first
\* waiter becomes READY, else the count goes up.
SemRelease(s) ==
  IF ds_waiters = <<>>
    THEN [sched |-> s, count |-> ds_count + 1, waiters |-> <<>>]
    ELSE [sched |-> MakeReady(s, Head(ds_waiters)), count |-> ds_count,
          waiters |-> Tail(ds_waiters)]

\* Mutant: put_death_stack_and_reschedule without the sem_release_etc.
PutDeathStackNoSemRelease(c) ==
  LET t == current[c] IN
  /\ t \in Workers /\ xpc[t] = "put"
  /\ death_stack_bitmap' = death_stack_bitmap & Comp(Bit(ds_index[t]))
  /\ \E skip \in SUBSET RegLevels : ReschedFrom(c, FREE, skip, Sched)
  /\ xpc' = [xpc EXCEPT ![t] = "dead"]
  /\ ds_index' = [ds_index EXCEPT ![t] = -1]
  /\ UNCHANGED <<thread_hash, rt_asked, ds_count, ds_waiters>>

\* put_death_stack_and_reschedule: clear the bit, release the semaphore
\* without rescheduling, and reschedule with the thread lock still held;
\* thread_resched puts the FREE_ON_RESCHED thread on dead_q.
PutDeathStack(c) ==
  LET t == current[c]
      r == SemRelease(Sched)
  IN  /\ t \in Workers /\ xpc[t] = "put"
      /\ death_stack_bitmap' = death_stack_bitmap & Comp(Bit(ds_index[t]))
      /\ ds_count' = r.count
      /\ ds_waiters' = r.waiters
      /\ \E skip \in SUBSET RegLevels : ReschedFrom(c, FREE, skip, r.sched)
      /\ xpc' = [xpc EXCEPT ![t] = "dead"]
      /\ ds_index' = [ds_index EXCEPT ![t] = -1]
      /\ UNCHANGED <<thread_hash, rt_asked>>

\* _create_thread with the record create_thread_struct takes from the head
\* of dead_q: inserted into thread_hash, THREAD_MEDIUM_PRIORITY, state and
\* next_state SUSPENDED, for thread_resume_thread.  The BIRTH window and
\* the abort into a dying process are module ProcGroups' business; a
\* fresh kmalloc'd record (dead_q empty) is outside the fixed set Workers.
Create(c) ==
  LET t == Head(dead_q) IN
  /\ current[c] \in Workers /\ xpc[current[c]] = "none"
  /\ dead_q # <<>>
  /\ dead_q' = Tail(dead_q)
  /\ thread_hash' = thread_hash \cup {t}
  /\ state' = [state EXCEPT ![t] = SUSPENDED]
  /\ next_state' = [next_state EXCEPT ![t] = SUSPENDED]
  /\ priority' = [priority EXCEPT ![t] = MediumPrio]
  /\ rt_asked' = rt_asked \ {t}
  /\ xpc' = [xpc EXCEPT ![t] = "none"]
  /\ UNCHANGED <<run_q, current, ds_index, death_stack_bitmap,
                 ds_count, ds_waiters>>

ExitNext ==
  \/ SchedStep
  \/ \E c \in CPUs : \/ ExitBegin(c) \/ DeathSemAcquire(c) \/ DeathStackGrab(c)
                     \/ Exit2Remove(c) \/ PutDeathStack(c) \/ Create(c)

ExitSpec == ExitInit /\ [][ExitNext]_allvars

-----------------------------------------------------------------------------
(* Fairness.  The quantum timer preempts every CPU, and thread_resched     *)
(* skips each non-empty regular level with probability about 3/8, so a    *)
(* READY thread that no real-time thread starves is dispatched with       *)
(* probability 1 if it stays dispatchable: strong fairness on being       *)
(* dispatched.  A thread inside thread_exit that runs takes its next step *)
(* unless preempted first, and it is dispatched again and again: strong   *)
(* fairness on its exit steps.                                             *)

Dispatch(t) ==
  \E c \in CPUs : IntsEnabled(current[c]) /\ Yield(c) /\ current'[c] = t
                  /\ UNCHANGED evars

ExitStep(t) ==
  \E c \in CPUs : current[c] = t /\ (DeathSemAcquire(c) \/ DeathStackGrab(c)
                                      \/ Exit2Remove(c) \/ PutDeathStack(c))

FairExitSpec ==
  /\ ExitSpec
  /\ \A t \in Threads : SF_allvars(Dispatch(t))
  /\ \A t \in Workers : SF_allvars(ExitStep(t))

-----------------------------------------------------------------------------
(* Properties.                                                             *)

ExitTypeOK ==
  /\ TypeOK
  /\ xpc \in [Workers -> XPCs]
  /\ ds_index \in [Workers -> -1 .. BitmapWidth - 1]
  /\ death_stack_bitmap \in 0 .. Word - 1
  /\ ds_count \in 0 .. NumDeathStacks
  /\ ds_waiters \in Seq(Workers)

\* death_stack_sem counts the death stacks nobody has claimed: its count,
\* the bits set in death_stack_bitmap and the threads between
\* sem_acquire and taking their bit always add up to num_death_stacks, and
\* threads wait on the semaphore only while its count is 0.  Broken if
\* get_death_stack or put_death_stack_and_reschedule lose or double a unit.
\* (The spec's shorter equation, count = num_death_stacks - popcount, leaves
\* out the threads between sem_acquire and the bitmap update, which are in
\* separate critical sections, and is false while any thread is there.)
DeathStackAccounting ==
  /\ ds_count + Cardinality(BitsOf(death_stack_bitmap)) + Cardinality(SemHolders)
       = NumDeathStacks
  /\ ds_waiters # <<>> => ds_count = 0

\* No two threads ever run on the same death stack, every bit set in
\* death_stack_bitmap belongs to exactly one thread on that stack, and the
\* index get_death_stack hands out names one of the num_death_stacks
\* stacks (get_death_stack's panics never fire).
DeathStacksExclusive ==
  /\ \A i \in 0 .. BitmapWidth - 1 :
       IsSet(death_stack_bitmap, i) <=> Cardinality(OnDeathStack(i)) = 1
  /\ \A t \in Workers :
       xpc[t] \in {"exit2", "put"} => ds_index[t] \in 0 .. NumDeathStacks - 1

\* A record on dead_q, which create_thread_struct may hand out again, is
\* really retired: FREE_ON_RESCHED, on no CPU and no run queue, no longer
\* in thread_hash (so thread_set_priority and signals cannot reach it), on
\* dead_q once, and every thread that finished thread_exit is there.
DeadRecordsRetired ==
  /\ IsInjective(dead_q)
  /\ \A t \in Workers : xpc[t] = "dead" <=> t \in Range(dead_q)
  /\ \A t \in Range(dead_q) :
       /\ state[t] = FREE /\ t \notin thread_hash
       /\ t \notin Range(current)
       /\ \A l \in Levels : t \notin Range(run_q[l])

\* Every thread that starts thread_exit gets a death stack, gives it back
\* and ends on dead_q, even when more threads exit than there are death
\* stacks (spec scenario 5: no deadlock on the gate semaphore).
ExitCompletes == \A t \in Workers : xpc[t] = "sem" ~> xpc[t] = "dead"

====
