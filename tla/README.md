# TLA+ models of the NewOS thread and process subsystem

These modules model the kernel thread subsystem and the UDP endpoints of NewOS that is kept in
`src/kernel/net/udp.c`. Lines 1–362 of that file are the UDP code. Lines
365–3219 are `kernel/thread.c`: threads, processes, process groups, sessions,
the scheduler and the death stacks. `spec.md` describes the subsystem. The
models are translated from the code, and `PROJECT.json` maps every modelling
definition to the lines it stands for.

## The system

| Part | State in the code | Operations |
|---|---|---|
| Run queues and dispatcher | `run_q[]` (one FIFO per priority level), `t->state`, `t->next_state`, `t->priority`, the current thread per CPU | `thread_enqueue_run_q`, `thread_dequeue_thread`, `thread_resched`, `thread_yield`, quantum timer `reschedule_event`, `thread_set_priority` |
| Thread lifecycle | `thread_hash`, `dead_q`, the thread records | `create_thread_struct`, `_create_thread`, `thread_exit`, `thread_exit2`, kill, wait |
| Death stacks | `death_stack_bitmap`, `death_stack_sem`, `num_death_stacks` | `get_death_stack`, `put_death_stack_and_reschedule` |
| Processes | `proc_hash`, parent/children lists, `main_thread`, `num_threads`, `state` | `proc_create_proc`, the process part of `thread_exit`, `proc_reparent_children`, `proc_kill_proc` |
| Process groups and sessions | `pgid_hash`, `sid_hash`, membership lists | `setpgid`, `setsid`, `add/remove_proc_to/from_pgroup/session`, orphan check |
| UDP endpoints | endpoint table, refcount, receive queue and semaphore | `udp_open`, `udp_close`, `udp_input`, `udp_recvfrom`, `udp_sendto` |

How the parts interact:

- Every thread operation takes `thread_spinlock` with interrupts disabled.
  Process operations take `proc_spinlock`.
- The dispatcher runs only under the thread lock.
- A thread leaves a CPU in one of two ways:
  - It sets its `next_state` and calls `thread_resched`. This is how yield,
    blocking, stopping and exit work.
  - The quantum timer preempts it.
- Exit ends in the dispatcher. The dying thread is moved to `dead_q`, and
  `create_thread_struct` later reuses its record.
- Semaphores (`sem.c`) and signals (`signal.c`) are not under `src/`. They are
  modelled from `spec.md`:
  - a semaphore is a count plus a FIFO of waiters;
  - a release wakes the first waiter, or otherwise adds to the count;
  - SIGSTOP and SIGCONT suspend and resume a thread.

## Modules

### Scheduler (`Scheduler.tla`, `MCScheduler.tla`)

**State.** The variables map one-to-one onto the code:

| Variable | Code |
|---|---|
| `state` | `t->state` |
| `next_state` | `t->next_state` |
| `priority` | `t->priority` |
| `run_q` | `run_q[]` |
| `dead_q` | `dead_q` |
| `thread_hash` | the threads a lookup by id finds |
| `current` | the current thread per CPU |

There is also `rt_asked`, a history variable. It holds the threads whose last
priority request was real-time.

**Actions.** Each action is one critical section:

- `Resched`/`ReschedFrom` are `thread_resched`. This covers the switch on
  `next_state`, the real-time scan, and the regular scan with the random skip.
  The skip is a nondeterministic subset of regular levels, and the fallback is
  `last_thread_pri` or the idle level.
- `Yield` is `thread_yield` and the quantum timer.
- `SetPriority` is `thread_set_priority` plus `user_thread_set_priority`.
- `Block`, `Wakeup`, `Suspend` and `Resume` are the semaphore and signal
  collaborators.

### ThreadExit (`ThreadExit.tla`, `MCThreadExit.tla`)

ThreadExit extends Scheduler with the death-stack state:

- `death_stack_bitmap`;
- the count and waiters of `death_stack_sem`;
- `ds_index`, which is `args.death_stack`;
- `xpc`, where each thread is in the exit sequence.

The exit sequence has one action per critical section:

| Action | Code |
|---|---|
| `ExitBegin` | the priority boost in `thread_exit` |
| `DeathSemAcquire` | `sem_acquire(death_stack_sem)`, which may block and reschedule |
| `DeathStackGrab` | the bitmap search, with the exact unsigned expression `(~b) & ~((~b)-1)` and the bit-to-index loop |
| `Exit2Remove` | `thread_exit2` up to `next_state = FREE_ON_RESCHED` |
| `PutDeathStack` | `put_death_stack_and_reschedule`: clear the bit, release the semaphore, then reschedule the dying thread onto `dead_q`, all in one step because the thread lock is held throughout |

`Create` is the reuse of a `dead_q` record by `create_thread_struct` and
`_create_thread`.

The scheduler's operations stay available, but only where the code allows
them:

- Preemption is possible only where interrupts are enabled. They are disabled
  from the bitmap search to `thread_exit2`'s `int_restore_interrupts`, and
  again from the hash removal to the final resched.
- Blocking, stopping and priority calls are made only by threads that are not
  exiting.

### ProcGroups (`ProcGroups.tla`, `MCProcGroups.tla`)

Processes, process groups and sessions, under `proc_spinlock`.

**What a process is here.** A process has only its main thread. The
scheduler and the death stacks are left to the modules above.

**State.** The variables are the code's fields:

| Variable | Code |
|---|---|
| `pstate` | `p->state`, plus "unused" before `create_proc_struct` and "freed" after `kfree` |
| `proc_hash` | `proc_hash` |
| `parent` | `p->parent` |
| `children` | `p->children`, as a sequence, head first |
| `pgid`, `sid` | `p->pgid`, `p->sid` |
| `pgid_hash`, `sid_hash` | `pgid_hash`, `sid_hash` |
| `pg_list`, `sess_list` | each node's member list |
| `has_main` | `p->main_thread != NULL` |
| `killed` | a pending SIGKILLTHR |

`pc[a]` records where process `a`'s main thread is, inside an operation that
drops the lock part way. Two per-step variables record what a step signalled:
`sig_to` (whose `main_thread` it dereferenced) and `hup` (the groups sent
SIGHUP and SIGCONT).

**Actions.**

| Action | Code |
|---|---|
| `ProcCreate` | `proc_create_proc`'s critical section: link into `proc_hash`, the creator's children, and the group and session |
| `ProcCreateFail` | `err1`..`err5`: the undo, which is only `hash_remove(proc_hash)` |
| `ProcCreateThread` | `thread_create_kernel_thread_etc` plus resume |
| `ProcStart` | `proc_create_proc2` setting NORMAL |
| `ProcKill` | `proc_kill_proc` |
| `ProcGetMainThread` | `proc_get_main_thread`: reads `p->main_thread->id` under the lock |
| `GroupSignal`, `SessionSignal` | `send_pgrp_signal_etc`, `send_session_signal_etc`: signal every member's `main_thread` |
| `ExitBegin` | `thread_exit`'s move to `kernel_proc` and `PROC_STATE_DEATH` |
| `ExitTeardown` | the own-group orphan check, `hash_remove`, `proc_reparent_children` (`ReparentOne` per child, folded over the children list in order, each with its own orphan check), removal from group, session and parent |
| `ExitFree` | `kfree(p)` |
| `SetpgidBegin`, `SetpgidFinish`, `SetpgidNoMem` | `setpgid`, split at its lock drop |
| `SetsidBegin`, `SetsidFinish`, `SetsidNoMem` | `setsid`, split the same way |

**Who calls what.** `setpgid` and `setsid` are system calls, so only user
processes call them. Killing `kernel_proc` ends one kernel thread and no
process, so the model leaves it out.

**What it implements (`ProcTree.tla`).** `ProcTree` is the abstract
specification of the process layer: the live processes and each one's
parent, group and session. Every operation is one atomic step:

- `Create`: a new process in its creator's group and session, in a new group,
  or in a new session;
- `Abort`: a childless process vanishes (a failed create);
- `Exit`: the children of the exiting process move to its parent;
- `SetPgid` and `SetSid`.

`ProcGroups` instantiates it with `live <- proc_hash`, and with `parent`,
`pgid` and `sid` read only for processes in `proc_hash` (`Alive`).
`TreeRefinement` checks that every step of `ProcGroups` is a `ProcTree` step
or a stutter. The lock drops, the list order and the group and session nodes
are refinement details. The steps that change the abstract state are
`ProcCreate`, the `proc_hash` removal of `ProcCreateFail`, `ExitTeardown` and
the finishing halves of `setpgid` and `setsid`.

### ThreadProc (`ThreadProc.tla`, `MCThreadProc.tla`)

The threads of one user process: secondary threads created into it, the
main thread's exit that kills them, and kernel threads that wait on them.
Groups and sessions are left to ProcGroups, the death stack to ThreadExit,
so the teardown and the death-stack sequence are one step each here.

**State.**

| Variable | Code |
|---|---|
| `pstate` | the user process's `p->state`, plus "freed" after `kfree` |
| `thread_list`, `num_threads`, `main_thread` | `p->thread_list`, `p->num_threads`, `p->main_thread` of the user process and `kernel_proc` |
| `thread_hash` | `thread_hash` |
| `tstate`, `tproc` | `t->state` (BIRTH, SUSPENDED, READY, FREE), `t->proc` |
| `killed` | SIGKILLTHR pending |
| `rsem` | `t->return_code_sem`: not yet made, live, or deleted by the exit |
| `xpc`, `target` | where a thread is in `_create_thread` or `thread_exit`, and the thread it is creating |
| `wpc`, `wt`, `wsem`, `wres` | each waiter's position, the thread it waits on (set once `send_signal_etc` has found it), the semaphore it read, and what it returned |

**Actions.**

| Action | Code |
|---|---|
| `CreateStart` | `create_thread_struct` and `hash_insert` (lines 767–787) |
| `CreateCheck` | the DEATH check under the proc lock: `insert_thread_into_proc`, or the abort with `hash_remove` and `delete_thread_struct` (789–807) |
| `CreateFinish` | the stacks and `t->state = SUSPENDED` (809–855) |
| `Suspend`, `Resume` | `thread_suspend_thread`, `thread_resume_thread` (SIGSTOP, SIGCONT) |
| `ExitDetach`, `KillDeliver` | `thread_exit`'s move to `kernel_proc`, setting DEATH for the main thread (1705–1722); `KillDeliver` is the same entered from a pending SIGKILLTHR in `thread_atkernel_exit` or `thread_atinterrupt_exit` |
| `ExitKillSiblings`, `ExitPoll` | `thread_kill_thread_nowait` on every thread of the list, then the `num_threads > 0` poll (1725–1748) |
| `ExitFreeProc`, `ExitPublish`, `ExitRemove` | the process teardown and `kfree`, deleting `return_code_sem`, and `thread_exit2`'s removal from `kernel_proc` and `thread_hash` |
| `WaitBegin`, `WaitProcBegin` | `thread_kill_thread`, `thread_wait_on_thread` (SIGCONT first) and `proc_wait_on_proc` (reading `main_thread`) |
| `WaitLookup`, `WaitAcquire`, `WaitWake` | the lookup of `return_code_sem` under the thread lock, `sem_acquire` after dropping it, and the wake by `sem_delete` with `ERR_SEM_DELETED` turned into success |

**What it implements (`ProcThreads.tla`).** `ProcThreads` is the abstract
thread membership of a process: a thread joins only a process in NORMAL,
leaves once, the main thread's leaving starts the process's death, and the
process is freed only with no thread left. `ThreadProc` instantiates it with
`members <- thread_list[UserProc]` and `exited` the threads inside
`thread_exit`; `ThreadsRefinement` checks every step against it. The joining
step is `CreateCheck`'s insertion, the leaving step `ExitDetach`, the freeing
step `ExitFreeProc`; hash insertion, the kill loop, the poll and the waits
are stutters.

### Udp (`Udp.tla`, `MCUdp.tla`)

The UDP endpoints in lines 1–362 of `udp.c`.

**Abstractions.**
- A packet is a count. The queue is its length, `qlen`, and the blocking
  semaphore is its count, `sem`.
- The header and checksum tests of `udp_input` are one nondeterministic drop.
- `hash_lookup` may return any open endpoint with the port. `udp_open` does
  not check for duplicate ports, and `khash.c` is outside `src/`.

**State.**

| Variable | Code |
|---|---|
| `estate` | "unused", "open" (in `endpoints`) or "closed" (removed by `udp_close`) |
| `port`, `ref_count` | `e->port`, `e->ref_count` |
| `destroyed` | `mutex_destroy` and `sem_delete` have run |
| `qlen`, `sem` | `e->q.count`, the count of `e->blocking_sem` |
| `ipc`, `ie` | each `udp_input` thread's position and endpoint |
| `rpc`, `re` | each `udp_recvfrom` thread's position and endpoint |
| `sent` | packets handed to `udp_input`, bounded by `MaxPackets` |

**Actions.**

| Action | Code |
|---|---|
| `Open`, `Close` | `udp_open`, `udp_close` |
| `ReleaseRef` (inside the callers) | `udp_endpoint_release_ref`: the release from 1 destroys the lock and semaphore and drains the queue without the lock |
| `InputLookup` | `udp_input` up to the lookup: the drop, or `acquire_ref` under `endpoints_lock` |
| `InputNoMem`, `InputPush`, `InputSignal`, `InputRelease` | the `kmalloc` failure, the push under `e->lock`, `sem_release`, the final release |
| `RecvBegin`, `RecvAcquire`, `RecvLock`, `RecvPop` | `udp_recvfrom`: entry, `sem_acquire` (which fails on a deleted semaphore), `mutex_lock`, then the pop with its `goto retry` |

`udp_recvfrom` takes no reference. Nothing in `udp.c` stops the socket layer
from running `udp_close` while a receive is in progress, so the model lets
them interleave. Once the mutex is destroyed, `mutex_lock` no longer
excludes anyone (`LockFree`).

## Runs

| Run | Checks | Result |
|---|---|---|
| `scheduler_rt_clamp` | `RTDispatchedFirst` | violation: `thread_enqueue_run_q` demotes real-time threads |
| `death_stack_safety` | `ExitTypeOK`, `DeathStackAccounting`, `DeathStacksExclusive`, `DeadRecordsRetired`, `ReadyIffQueued`, `OneRunningPerCPU`, `DispatchNeverEmpty` | pass (about 1.75 million states) |
| `death_stack_liveness` | `ExitCompletes` | pass |
| `proc_groups_safety` | `PGTypeOK`, `ProcLinksConsistent`, `OrphanSignalComplete`, `TreeRefinement`, with the allocations allowed to fail | pass (85,855 states) |
| `proc_create_leak` | `NoFreedProcLinked` | violation: the error paths of `proc_create_proc` |
| `setpgid_stale_proc` | `ProcLinksConsistent` | violation: `setpgid` on a process that exits during the lock drop |
| `kill_threadless_proc` | `NoSignalToThreadless` | violation: NULL `main_thread` |
| `spurious_orphan_hup` | `OrphanSignalSound` | violation |
| `thread_proc_safety` | `ThreadTypeOK`, `NoLeakedThreadRecord`, `DyingProcThreadsKilled`, `NoThreadOfFreedProc`, `WaitReturnsAfterExit`, `ThreadsRefinement` | pass (237,392 states) |
| `thread_exit_hang` | `MainExitCompletes` | violation: the exiting main thread polls forever for a SUSPENDED sibling |
| `udp_safety` | `TypeOK`, `RefCountAccurate`, `SemMatchesQueue`, `RecvReturns` | pass (31,888 states) |
| `udp_recv_close_race` | `RecvNeverUsesDestroyed` | violation: `udp_close` destroys the lock under a receiver |

`ProcLinksConsistent` exempts a child left behind by a failed create
(`LeakedByCreate`). `proc_create_leak` checks that case on its own with
`NoFreedProcLinked`.

What the ThreadProc properties say:

- `NoLeakedThreadRecord`: every thread in `thread_hash` is in the list of the
  process its `t->proc` names, and that process is not freed, except a
  thread its creator has just hashed and not yet checked.
- `DyingProcThreadsKilled`: while the main thread polls or tears down, every
  thread still in the process has a kill pending. A creation that passed the
  DEATH check after the kill loop would break it.
- `NoThreadOfFreedProc`: once the process is freed, no thread's `t->proc`
  points at it.
- `WaitReturnsAfterExit`: a wait that found its target returns only once the
  target's exit has deleted `return_code_sem`. `thread_wait_on_thread` reads
  the semaphore id under the thread lock and acquires it after dropping the
  lock; the target may exit before the lookup, between the lookup and the
  acquire, or after, and in none of these does the waiter return early. A
  wait that loses the race gets an error instead of the retcode, against the
  spec's "wait returns its exit code"; the model shows it and no run asserts
  it.

What the scheduler properties in `death_stack_safety` say: `run_q[0]` is
shared by the idle threads of all CPUs, so a CPU may take another CPU's idle
thread. `OneRunningPerCPU` (no thread is current on two CPUs) and
`DispatchNeverEmpty` (every CPU's `thread_resched` finds a thread, so the
panic at line 2115 is unreachable) hold in spite of that.

What the Udp properties say:

- `RefCountAccurate`: the count is the hash's reference plus one per
  `udp_input` holding the endpoint, and the endpoint is destroyed exactly when
  it is closed and the count is 0.
- `SemMatchesQueue`: on a live endpoint, the queue length is the semaphore
  count, plus pushes not yet signalled, plus receivers that took a unit and
  have not popped. So `goto retry` is taken only on a destroyed endpoint.
- `RecvReturns`: a receiver that took a unit returns, with a packet or, after
  one retry, with the error from the deleted semaphore.

What the violations show:

- **`RTDispatchedFirst`.**
  1. A thread sets another thread to real-time priority 3.
  2. `thread_enqueue_run_q` stores priority 2 (`THREAD_MAX_PRIORITY`).
  3. A regular thread is dispatched ahead of it.
- **The spec's death-stack equation.** The spec says the semaphore's value is
  `num_death_stacks - popcount(bitmap)`. The semaphore is decremented in one
  critical section and the bit is set in the next, so the equation is false
  in between. `DeathStackAccounting` is the equation that does hold: it also
  counts the threads between those two steps.
- **`proc_create_leak`.** A failed `proc_create_proc` (lines 2575–2593)
  removes the child from `proc_hash` only. The freed child stays on its
  creator's children list and in its group and session lists.
- **`setpgid_stale_proc`.** `setpgid(p2, 0)` finds `p2` and drops the lock to
  allocate group `p2`. Then `p2` exits and is torn down. `setpgid` takes the
  lock again and adds the dead `p2` to the new group (line 3100).
- **A group spanning sessions.** `setpgid` joins any existing group,
  whatever its session, and `setsid` keeps the caller's group, so a group can
  span two sessions, against the spec's rule that a session wholly contains
  its groups. `ProcGroups` still defines `SessionContainsGroups`, and TLC
  finds it violated under the `MCProcGroups` constants; no run keeps that
  check, to keep one run per question, and the hazard at line 3071 records it.
- **`thread_exit_hang`.**
  1. The main thread creates `t2`; `_create_thread` leaves it SUSPENDED.
  2. The main thread exits: DEATH, then `thread_kill_thread_nowait(t2)`,
     which is SIGKILLTHR without SIGCONT.
  3. A SUSPENDED thread acts on a pending kill only after CONT
     (spec.md, Wait), so `t2` never reaches `thread_exit` and
     `num_threads` stays 1. The poll at line 1745 never ends.

  `thread_kill_thread` gets the CONT from `thread_wait_on_thread`; the exit
  path has no such step.
- **`kill_threadless_proc`.** `proc_kill_proc` on a child that is in
  `proc_hash` but has no thread yet reads `p->main_thread->id` through NULL
  (line 2643). `proc_get_main_thread` (line 2668) and the group and session
  signals (`send_pgrp_signal_etc_locked`, line 3030 for sessions) do the same
  for a BIRTH member of the group or session; TLC's shortest trace is a
  group signal from one process to the group its new child has just joined.
- **`spurious_orphan_hup`.**
  1. `p1`, in its own group under `kernel_proc` in the same session, has a
     child `p2` in `p1`'s group.
  2. `p1` exits. Its own-group test runs before reparenting, while `p2`'s
     parent is still `p1`, so it finds no connection and sends SIGHUP.
  3. After reparenting, `p2`'s parent is `kernel_proc`. That is another group
     of the same session, so by the glossary the group is not orphaned.
- **`udp_recv_close_race`.**
  1. A packet is queued and signalled.
  2. A receiver takes the semaphore unit.
  3. `udp_close` drops the last reference. `release_ref` destroys `e->lock`
     and the semaphore and drains the queue.
  4. The receiver calls `mutex_lock` on the destroyed lock (line 276).

  The record is never `kfree`d (a leak of its own), so in this build the
  receiver reads stale memory rather than freed memory. `spec.md` describes
  the release from 1 as freeing the endpoint. The same window lets the
  unlocked drain (line 127) run while a receiver holds the lock.

### Bounds

**`MCScheduler`:**
- 2 CPUs and 2 workers.
- Priority levels: idle 0, regular 1..2, real-time 3.
- Priority inputs 0, 2 and 4 (only `scheduler_rt_clamp` uses this module).
- Symmetry over the workers. This is sound because no property names a
  worker.

**`MCThreadExit`:**
- 2 CPUs, so `num_death_stacks = 2`.
- 3 workers, so more threads can exit than there are stacks.
- Priority inputs 2 and 4: a regular request, and one above the real-time
  maximum that `thread_set_priority` clamps to 3. A real-time thread then
  runs ahead of the others, which is the case the dispatcher properties need.
- A 2-bit bitmap, so both stacks taken means a full word. This is the
  scaled-down form of 32 CPUs on a 32-bit unsigned word. TLC's integers
  cannot hold 2^32.

**`MCProcGroups`:**
- `kernel_proc` and two user process ids, with symmetry over the user ids.
  Ids are only compared, and no property names one.
- Two ids are enough for a three-level chain: `kernel_proc`, parent, child.
  That covers reparenting across groups and all five process violations above.
- With three ids the state space passes 6.7 million states without
  finishing in six minutes.
- What two ids leave out. An exiting process has at most one child, so
  `OrphanSignalComplete` is checked only for the reparent check of a single
  child: the case of several children of one group, where only the check
  after the last move can see the group orphaned (hazard at line 2692), is
  not reached. `pgid_hash` and `sid_hash` are sets of ids, so a node
  inserted twice by two racing `setpgid` calls (hazard at line 3091) cannot
  be represented; the model checks that the second caller finds the first
  one's node, not what a double insert would do.
- Ids are never reused. That is why `CHECK_DEADLOCK FALSE`: once every id
  has been used and has exited, only `kernel_proc` remains and nothing is
  left to do.
- `OrphanSignalComplete` is checked only for exits from states where every
  group lies within one session. The code's tests compare group ids only,
  so they cannot be right for a group that spans sessions, which the
  code allows (see above).

**`MCThreadProc`:**
- `kernel_proc`, one user process, its main thread and two more thread ids,
  and two waiters, so that a kill and a wait, or two waits, race the same
  exit. Two secondary threads let one be created while the other
  is alive, killed or being waited on, and let the main thread's kill loop
  meet a SUSPENDED sibling and a running one.
- Thread ids are not reused, so the model ends; hence `CHECK_DEADLOCK FALSE`.
- No symmetry, because `MainExitCompletes` is a liveness property and the
  safety run uses the same constants.

**`MCUdp`:**
- Two endpoints on one port, so a lookup can choose between two endpoints
  and one can be closed while the other is open.
- Two input threads and two receivers, so two references, two pushes and a
  contended `e->lock` can all happen at once.
- `MaxPackets = 3`, enough for two receivers each to get a packet and one
  more to be drained by the last release.
- No symmetry, because `RecvReturns` is a liveness property.
- `CHECK_DEADLOCK FALSE`, because a receiver blocks in `sem_acquire` for as
  long as no packet comes. That is how `udp_recvfrom` is meant to behave.

**Liveness run:**
- 1 CPU, so one death stack, with two workers (spec scenario 5).
- No real-time priority inputs.
- No symmetry, because it is unsound with liveness.

### Fairness

`FairExitSpec` assumes two kinds of strong fairness:

- **Being dispatched, for every thread.** The quantum timer preempts every
  CPU, and `thread_resched` passes over each non-empty regular level when
  `_rand() <= 0x3000`, which is about 3/8 of the time. A READY thread that
  stays at the head of a dispatchable level is therefore picked with
  probability 1.
- **The exiting thread's own next step** whenever it runs.

A real-time thread that never blocks starves all regular threads by design.
That is why the liveness run allows no real-time priorities.

`TSpec` assumes weak fairness of every step a thread takes inside
`_create_thread`, inside `thread_exit` once it has begun, and of each
waiter's lookup, acquire and wake. These are kernel code paths that run to
their next blocking point. `KillDeliver` is weakly fair too: a READY thread
with a kill pending is scheduled, leaves the kernel and acts on it. Nothing
is fair for user threads deciding to create, exit, suspend, resume or wait. A SUSPENDED thread is not enabled to act on it, which is the point of
`thread_exit_hang`.

`USpec` assumes weak fairness of each receiver's `sem_acquire`, `mutex_lock`
and pop. Receivers are kernel threads that the scheduler runs while they are
runnable, and `e->lock` is held only for one pop or one push. Inputs and
closes get no fairness: whether packets arrive, and whether a socket is
closed, is up to the network and the program.

## Not modelled (yet), and the plan

The plan, in order:

1. **ProcGroups:** a liveness property for a process whose ELF load fails
   while in BIRTH.
2. **Composition.** Compose ThreadProc's exit with ProcGroups's teardown and
   ThreadExit's death-stack sequence, so that one process exit runs through
   all three.
3. **Udp.** Give packets identities, to check FIFO delivery and that the
   drain frees exactly the packets no receiver got.

The other parts are not modelled:

- **`udp_sendto`.** It builds a header and checksum and passes the buffer
  to `ipv4_output`, touching no UDP state.
- **The dispatcher's fallback level.** When every non-empty regular level is
  skipped, the spec takes the highest skipped level and the code takes
  `last_thread_pri`, the lowest. No run checks this, because the two have
  the same set of behaviours: each can dispatch any non-empty regular level.
  They differ only in how likely each choice is, and TLC cannot see
  probabilities.
- **The info queries, the debugger commands and the time accounting.** They
  change no state worth checking. The signal delivery in
  `thread_atkernel_exit` is modelled (`KillDeliver`); the times it adds up
  are not.
- **NULL group and session nodes.** `proc_create_proc` does not check
  `create_session_struct` and `create_pgroup_struct` (lines 2495–2499); a
  failed node allocation puts NULL into `pgid_hash` or `sid_hash`. ProcGroups
  lets only the checked allocations fail. A run for this would need its own
  property and violation run, beyond the run list kept here.
- **Enumeration.** `proc_get_next_proc_info` resumes from the cookie's
  process; if that process has exited it returns `ERR_NO_MORE_HANDLES` early.
  The queries change no kernel state, so they are not modelled; the hazard
  list records it.
- **The interruption of a wait.** `sem_acquire_etc` is called with
  `SEM_FLAG_INTERRUPTABLE`; a signal to the waiter itself ends its wait with
  an error. `sem.c` is outside `src/`, and the waiters in ThreadProc are
  kernel threads that nothing signals.
- **`vm_store_device`** (`src/unnamed/part_000`). It is a stateless adapter.
