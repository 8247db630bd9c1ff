---------------------------- MODULE ProcGroups ----------------------------
(***************************************************************************)
(* Processes, process groups and sessions of the NewOS thread subsystem    *)
(* (src/kernel/net/udp.c, the part that is kernel/thread.c).               *)
(*                                                                         *)
(* Every process is driven by its main thread; the scheduler and the       *)
(* death stacks are module ThreadExit's business, and a process here has *)
(* no thread but its main one.  Each step is one critical section under   *)
(* proc_spinlock, or the work between two of them that other processes    *)
(* can observe.  pc[a] is where the main thread of process a is inside an *)
(* operation that drops the lock part way:                                 *)
(*   proc_create_proc   between linking the child and creating its thread; *)
(*   setpgid, setsid    while allocating a group or session node;          *)
(*   thread_exit        between marking DEATH and the teardown, and        *)
(*                      between the teardown and kfree(p).                 *)
(* Signals (signal.c) are modelled from the spec: sending one to a         *)
(* process dereferences its main_thread; sig_to records whose, per step,   *)
(* and hup records which process groups got SIGHUP and SIGCONT in it.    *)
(***************************************************************************)
EXTENDS Integers, Sequences, SequencesExt, FiniteSets

CONSTANTS
  KernelProc,      \* kernel_proc
  UserProcs,       \* ids proc_create_proc may hand out (never reused)
  NoProc,          \* NULL / -1
  AllocCanFail,    \* whether the allocations in proc_create_proc,
                   \* setpgid and setsid may fail
  SetpgidAnyPid    \* whether setpgid may name another process than the caller

Procs == {KernelProc} \cup UserProcs

ASSUME NoProc \notin Procs /\ AllocCanFail \in BOOLEAN /\ SetpgidAnyPid \in BOOLEAN

\* PROC_STATE_BIRTH, _NORMAL, _DEATH; "unused" before create_proc_struct,
\* "freed" after kfree.
PStates == {"unused", "birth", "normal", "death", "freed"}
\* proc_create_proc's flags
CreateFlags == {"none", "new_pgroup", "new_session"}

VARIABLES
  pstate,       \* p->state
  proc_hash,    \* the processes proc_get_proc_struct_locked finds
  parent,       \* p->parent
  children,     \* p->children, head first
  pgid,         \* p->pgid
  sid,          \* p->sid
  pgid_hash,    \* the ids of the pgid_node records in pgid_hash
  sid_hash,     \* the ids of the sid_node records in sid_hash
  pg_list,      \* node->list of each pgid_node
  sess_list,    \* node->list of each sid_node
  has_main,     \* p->main_thread != NULL
  killed,       \* a SIGKILLTHR is pending for p's main thread
  pc,           \* per process: where its main thread is (see above)
  sig_to,       \* processes whose main_thread the step dereferenced
  hup           \* process groups sent SIGHUP and SIGCONT by the step

pvars == <<pstate, proc_hash, parent, children, pgid, sid, pgid_hash, sid_hash,
           pg_list, sess_list, has_main, killed, pc, sig_to, hup>>

Idle == [op |-> "idle", p |-> NoProc, g |-> NoProc]

-----------------------------------------------------------------------------
(* Helpers translated from the list and hash helpers.                      *)

\* check_for_pgrp_connection(g, check_for, ignore): does a member of group
\* g other than ignore have a parent whose pgid is check_for?  par is the
\* parent pointers at the time of the call.
CheckForPgrpConnection(g, check_for, ignore, par) ==
  /\ g \in pgid_hash
  /\ \E q \in pg_list[g] : q # ignore /\ par[q] \in Procs /\ pgid[par[q]] = check_for

\* send_pgrp_signal_etc_locked(g, SIGHUP / SIGCONT): every member's
\* main_thread; nothing if the group is not in pgid_hash.
PgrpMembers(g) == IF g \in pgid_hash THEN pg_list[g] ELSE {}

\* proc_reparent_children, one child: move c from p to p->parent, then the
\* orphan check of c's group against p's group.  acc holds the parent and
\* children pointers and the groups to signal.
ReparentOneNoCheck(p, acc, c) ==
  [par |-> [acc.par EXCEPT ![c] = parent[p]], groups |-> acc.groups,
   kids |-> [acc.kids EXCEPT ![p] = Remove(@, c), ![parent[p]] = <<c>> \o @]]

ReparentOneKeepsParent(p, acc, c) ==
  [par |-> acc.par, groups |-> acc.groups,
   kids |-> [acc.kids EXCEPT ![p] = Remove(@, c), ![parent[p]] = <<c>> \o @]]

ReparentOne(p, acc, c) ==
  LET gp   == parent[p]
      par2 == [acc.par EXCEPT ![c] = gp]
      kids == [acc.kids EXCEPT ![p] = Remove(@, c), ![gp] = <<c>> \o @]
      orph == /\ sid[p] = sid[c] /\ pgid[p] # pgid[c]
              /\ ~CheckForPgrpConnection(pgid[c], pgid[p], NoProc, par2)
  IN  [par |-> par2, kids |-> kids,
       groups |-> IF orph THEN acc.groups \cup {pgid[c]} ELSE acc.groups]

ReparentChildren(p, acc) ==
  FoldLeft(LAMBDA a, c : ReparentOne(p, a, c), acc, children[p])

-----------------------------------------------------------------------------
Init ==   \* thread_init: the kernel process, its own parent, group, session
  /\ pstate = [p \in Procs |-> IF p = KernelProc THEN "normal" ELSE "unused"]
  /\ proc_hash = {KernelProc}
  /\ parent = [p \in Procs |-> IF p = KernelProc THEN KernelProc ELSE NoProc]
  /\ children = [p \in Procs |-> <<>>]
  /\ pgid = [p \in Procs |-> IF p = KernelProc THEN KernelProc ELSE NoProc]
  /\ sid = [p \in Procs |-> IF p = KernelProc THEN KernelProc ELSE NoProc]
  /\ pgid_hash = {KernelProc}
  /\ sid_hash = {KernelProc}
  /\ pg_list = [g \in Procs |-> IF g = KernelProc THEN {KernelProc} ELSE {}]
  /\ sess_list = [s \in Procs |-> IF s = KernelProc THEN {KernelProc} ELSE {}]
  /\ has_main = [p \in Procs |-> p = KernelProc]
  /\ killed = [p \in Procs |-> FALSE]
  /\ pc = [p \in Procs |-> Idle]
  /\ sig_to = {}
  /\ hup = {}

\* The main thread of process a can start an operation: it runs user code
\* (state NORMAL), is not inside another operation and not being killed.
Ready(a) == pstate[a] = "normal" /\ has_main[a] /\ pc[a] = Idle /\ ~killed[a]

-----------------------------------------------------------------------------
(* proc_create_proc                                                        *)

ProcCreateNoChild(a, p, fl) ==
  LET s == IF fl = "new_session" THEN p ELSE sid[a]
      g == IF fl \in {"new_session", "new_pgroup"} THEN p ELSE pgid[a]
  IN  /\ Ready(a) /\ pstate[p] = "unused"
      /\ pstate' = [pstate EXCEPT ![p] = "birth"]
      /\ proc_hash' = proc_hash \cup {p}
      /\ parent' = [parent EXCEPT ![p] = a]
      /\ sid_hash' = IF fl = "new_session" THEN sid_hash \cup {p} ELSE sid_hash
      /\ pgid_hash' = IF g = p THEN pgid_hash \cup {p} ELSE pgid_hash
      /\ sid' = [sid EXCEPT ![p] = s] /\ pgid' = [pgid EXCEPT ![p] = g]
      /\ sess_list' = [sess_list EXCEPT ![s] = @ \cup {p}]
      /\ pg_list' = [pg_list EXCEPT ![g] = @ \cup {p}]
      /\ pc' = [pc EXCEPT ![a] = [op |-> "create", p |-> p, g |-> NoProc]]
      /\ sig_to' = {} /\ hup' = {}
      /\ UNCHANGED <<children, has_main, killed>>

\* create_proc_struct (PROC_STATE_BIRTH), the pre-allocated pgroup and
\* session nodes, and the critical section that puts the child into
\* proc_hash, its creator's children, and its session and group: new ones
\* for PROC_FLAG_NEW_SESSION (which implies PROC_FLAG_NEW_PGROUP) and
\* PROC_FLAG_NEW_PGROUP, the creator's otherwise.
ProcCreate(a, p, fl) ==
  LET newsess == fl = "new_session"
      newpg   == fl \in {"new_session", "new_pgroup"}
      s       == IF newsess THEN p ELSE sid[a]
      g       == IF newpg THEN p ELSE pgid[a]
  IN  /\ Ready(a) /\ pstate[p] = "unused"
      /\ pstate' = [pstate EXCEPT ![p] = "birth"]
      /\ proc_hash' = proc_hash \cup {p}
      /\ parent' = [parent EXCEPT ![p] = a]
      /\ children' = [children EXCEPT ![a] = <<p>> \o @]
      /\ sid_hash' = IF newsess THEN sid_hash \cup {p} ELSE sid_hash
      /\ pgid_hash' = IF newpg THEN pgid_hash \cup {p} ELSE pgid_hash
      /\ sid' = [sid EXCEPT ![p] = s]
      /\ pgid' = [pgid EXCEPT ![p] = g]
      /\ sess_list' = [sess_list EXCEPT ![s] = @ \cup {p}]
      /\ pg_list' = [pg_list EXCEPT ![g] = @ \cup {p}]
      /\ pc' = [pc EXCEPT ![a] = [op |-> "create", p |-> p, g |-> NoProc]]
      /\ sig_to' = {} /\ hup' = {}
      /\ UNCHANGED <<has_main, killed>>

\* The error paths err1..err5 (argument copy, I/O context, address space or
\* thread creation failed): the child is taken out of proc_hash, and only
\* out of proc_hash, and its record is freed.
ProcCreateFail(a) ==
  LET p == pc[a].p IN
  /\ AllocCanFail /\ pc[a].op = "create"
  /\ proc_hash' = proc_hash \ {p}
  /\ pstate' = [pstate EXCEPT ![p] = "freed"]
  /\ pc' = [pc EXCEPT ![a] = Idle]
  /\ sig_to' = {} /\ hup' = {}
  /\ UNCHANGED <<parent, children, pgid, sid, pgid_hash, sid_hash, pg_list,
                 sess_list, has_main, killed>>

\* thread_create_kernel_thread_etc(name, proc_create_proc2, pargs, p):
\* _create_thread finds p, not in DEATH, and makes the thread its
\* main_thread; then thread_resume_thread.
ProcCreateThread(a) ==
  LET p == pc[a].p IN
  /\ pc[a].op = "create"
  /\ p \in proc_hash /\ pstate[p] # "death"
  /\ has_main' = [has_main EXCEPT ![p] = TRUE]
  /\ pc' = [pc EXCEPT ![a] = Idle]
  /\ sig_to' = {} /\ hup' = {}
  /\ UNCHANGED <<pstate, proc_hash, parent, children, pgid, sid, pgid_hash,
                 sid_hash, pg_list, sess_list, killed>>

\* proc_create_proc2 in the new process: the ELF image is loaded and the
\* process becomes PROC_STATE_NORMAL.
ProcStart(p) ==
  /\ pstate[p] = "birth" /\ has_main[p] /\ pc[p] = Idle
  /\ pstate' = [pstate EXCEPT ![p] = "normal"]
  /\ sig_to' = {} /\ hup' = {}
  /\ UNCHANGED <<proc_hash, parent, children, pgid, sid, pgid_hash, sid_hash,
                 pg_list, sess_list, has_main, killed, pc>>

\* proc_kill_proc(q): look q up and send SIGKILLTHR to p->main_thread->id
\* (a NULL main_thread is dereferenced all the same).  Killing kernel_proc
\* ends one kernel thread and no process (thread_exit skips kernel_proc),
\* so it is left out.
ProcKill(a, q) ==
  /\ Ready(a) /\ q \in proc_hash \ {KernelProc}
  /\ sig_to' = {q} /\ hup' = {}
  /\ killed' = IF has_main[q] THEN [killed EXCEPT ![q] = TRUE] ELSE killed
  /\ UNCHANGED <<pstate, proc_hash, parent, children, pgid, sid, pgid_hash,
                 sid_hash, pg_list, sess_list, has_main, pc>>

\* proc_get_main_thread(q): under the process lock, p->main_thread->id for
\* a q in proc_hash, with no NULL check; it changes nothing.
ProcGetMainThread(a, q) ==
  /\ Ready(a) /\ q \in proc_hash
  /\ sig_to' = {q} /\ hup' = {}
  /\ UNCHANGED <<pstate, proc_hash, parent, children, pgid, sid, pgid_hash,
                 sid_hash, pg_list, sess_list, has_main, killed, pc>>

\* send_pgrp_signal_etc(g, ...) and send_session_signal_etc(s, ...): under
\* the process lock, look the node up (ERR_NOT_FOUND if it is not hashed)
\* and signal every member's main_thread.  Which signal is left open: only
\* SIGKILLTHR has an effect the model tracks, and proc_kill_proc sends it.
GroupSignal(a, g) ==
  /\ Ready(a)
  /\ sig_to' = PgrpMembers(g) /\ hup' = {}
  /\ UNCHANGED <<pstate, proc_hash, parent, children, pgid, sid, pgid_hash,
                 sid_hash, pg_list, sess_list, has_main, killed, pc>>

SessionSignal(a, s) ==
  /\ Ready(a)
  /\ sig_to' = IF s \in sid_hash THEN sess_list[s] ELSE {}
  /\ hup' = {}
  /\ UNCHANGED <<pstate, proc_hash, parent, children, pgid, sid, pgid_hash,
                 sid_hash, pg_list, sess_list, has_main, killed, pc>>

-----------------------------------------------------------------------------
(* The process half of thread_exit, run by the main thread of process a.  *)

\* Moved to kernel_proc, and as the main thread: PROC_STATE_DEATH.  It runs
\* on being killed, on returning from proc_create_proc2 with an ELF load
\* error (still BIRTH), or by the process's choice.
ExitBegin(a) ==
  /\ a # KernelProc /\ pstate[a] \in {"birth", "normal"} /\ has_main[a]
  /\ pc[a] = Idle
  /\ pstate' = [pstate EXCEPT ![a] = "death"]
  /\ pc' = [pc EXCEPT ![a] = [op |-> "exit", p |-> a, g |-> NoProc]]
  /\ sig_to' = {} /\ hup' = {}
  /\ UNCHANGED <<proc_hash, parent, children, pgid, sid, pgid_hash, sid_hash,
                 pg_list, sess_list, has_main, killed>>

\* The critical section after the sibling threads are gone: the orphan
\* check of a's own group against its parent's, hash_remove(proc_hash),
\* proc_reparent_children (with its orphan check per child), removal from
\* the group and the session, and remove_proc_from_parent.  Orphaned groups
\* get SIGHUP and SIGCONT at every member's main_thread.
ExitTeardown(a) ==
  LET gp    == parent[a]
      own   == /\ sid[a] = sid[gp] /\ pgid[a] # pgid[gp]
               /\ ~CheckForPgrpConnection(pgid[a], pgid[gp], a, parent)
      r     == ReparentChildren(a, [par |-> parent, kids |-> children,
                                    groups |-> IF own THEN {pgid[a]} ELSE {}])
      sigd  == UNION {PgrpMembers(g) : g \in r.groups}
  IN  /\ pc[a].op = "exit"
      /\ proc_hash' = proc_hash \ {a}
      /\ parent' = [r.par EXCEPT ![a] = NoProc]
      /\ children' = [r.kids EXCEPT ![gp] = Remove(@, a)]
      /\ pg_list' = [pg_list EXCEPT ![pgid[a]] = @ \ {a}]
      /\ sess_list' = [sess_list EXCEPT ![sid[a]] = @ \ {a}]
      /\ sig_to' = sigd /\ hup' = r.groups
      /\ pc' = [pc EXCEPT ![a] = [op |-> "teardown", p |-> a, g |-> NoProc]]
      /\ UNCHANGED <<pstate, pgid, sid, pgid_hash, sid_hash, has_main, killed>>

\* Address space, ports, semaphores and I/O context released, kfree(p);
\* the thread goes on to SIGCHLD and the death stacks (module ThreadExit).
ExitFree(a) ==
  /\ pc[a].op = "teardown"
  /\ pstate' = [pstate EXCEPT ![a] = "freed"]
  /\ pc' = [pc EXCEPT ![a] = [op |-> "gone", p |-> a, g |-> NoProc]]
  /\ sig_to' = {} /\ hup' = {}
  /\ UNCHANGED <<proc_hash, parent, children, pgid, sid, pgid_hash, sid_hash,
                 pg_list, sess_list, has_main, killed>>

-----------------------------------------------------------------------------
(* setpgid and setsid                                                      *)

\* Move p from its group to group g (remove_proc_from_pgroup, then
\* add_proc_to_pgroup), whatever has become of p.
MovePgroup(p, g) ==
  /\ pg_list' = [pg_list EXCEPT ![pgid[p]] = @ \ {p}, ![g] = @ \cup {p}]
  /\ pgid' = [pgid EXCEPT ![p] = g]

SetpgidBeginNoDefault(a, pid0, g0) ==
  LET p == IF pid0 = 0 THEN a ELSE pid0
  IN  /\ Ready(a) /\ a \in UserProcs /\ p \in proc_hash /\ pgid[p] # g0
      /\ IF g0 \in pgid_hash
           THEN MovePgroup(p, g0) /\ UNCHANGED pc
           ELSE /\ pc' = [pc EXCEPT ![a] = [op |-> "setpgid", p |-> p, g |-> g0]]
                /\ UNCHANGED <<pg_list, pgid>>
      /\ sig_to' = {} /\ hup' = {}
      /\ UNCHANGED <<pstate, proc_hash, parent, children, sid, pgid_hash,
                     sid_hash, sess_list, has_main, killed>>

\* setpgid(pid, pgid) by process a (a system call, so a user process), up to the first release of the lock:
\* pid 0 is the caller and pgid 0 is pid; ERR_NOT_FOUND and "already in
\* the group" change nothing; an existing group is joined at once; for a
\* new one the lock is dropped to allocate the node, and p is kept.
SetpgidBegin(a, pid0, g0) ==
  LET p == IF pid0 = 0 THEN a ELSE pid0
      g == IF g0 = 0 THEN p ELSE g0
  IN  /\ Ready(a) /\ a \in UserProcs
      /\ p \in proc_hash /\ pgid[p] # g
      /\ IF g \in pgid_hash
           THEN /\ MovePgroup(p, g)
                /\ UNCHANGED pc
           ELSE /\ pc' = [pc EXCEPT ![a] = [op |-> "setpgid", p |-> p, g |-> g]]
                /\ UNCHANGED <<pg_list, pgid>>
      /\ sig_to' = {} /\ hup' = {}
      /\ UNCHANGED <<pstate, proc_hash, parent, children, sid, pgid_hash,
                     sid_hash, sess_list, has_main, killed>>

\* setpgid after create_pgroup_struct: take the lock again, publish the
\* node unless another setpgid did meanwhile, and move the p found before
\* the lock was dropped, without looking it up again.
SetpgidFinish(a) ==
  LET p == pc[a].p
      g == pc[a].g
  IN  /\ pc[a].op = "setpgid"
      /\ pgid_hash' = pgid_hash \cup {g}
      /\ MovePgroup(p, g)
      /\ pc' = [pc EXCEPT ![a] = Idle]
      /\ sig_to' = {} /\ hup' = {}
      /\ UNCHANGED <<pstate, proc_hash, parent, children, sid, sid_hash,
                     sess_list, has_main, killed>>

\* setpgid when create_pgroup_struct fails: ERR_NO_MEMORY.
SetpgidNoMem(a) ==
  /\ AllocCanFail /\ pc[a].op = "setpgid"
  /\ pc' = [pc EXCEPT ![a] = Idle]
  /\ sig_to' = {} /\ hup' = {}
  /\ UNCHANGED <<pstate, proc_hash, parent, children, pgid, sid, pgid_hash,
                 sid_hash, pg_list, sess_list, has_main, killed>>

MoveSession(p, s) ==
  /\ sess_list' = [sess_list EXCEPT ![sid[p]] = @ \ {p}, ![s] = @ \cup {p}]
  /\ sid' = [sid EXCEPT ![p] = s]

\* setsid() by process a (a system call: a user process): the new session has a's id; a's process group is
\* left as it is.  The same lock drop as setpgid for a new node.
SetsidBegin(a) ==
  /\ Ready(a) /\ a \in UserProcs /\ sid[a] # a
  /\ IF a \in sid_hash
       THEN /\ MoveSession(a, a)
            /\ UNCHANGED pc
       ELSE /\ pc' = [pc EXCEPT ![a] = [op |-> "setsid", p |-> a, g |-> a]]
            /\ UNCHANGED <<sess_list, sid>>
  /\ sig_to' = {} /\ hup' = {}
  /\ UNCHANGED <<pstate, proc_hash, parent, children, pgid, pgid_hash, sid_hash,
                 pg_list, has_main, killed>>

SetsidFinish(a) ==
  /\ pc[a].op = "setsid"
  /\ sid_hash' = sid_hash \cup {a}
  /\ MoveSession(a, a)
  /\ pc' = [pc EXCEPT ![a] = Idle]
  /\ sig_to' = {} /\ hup' = {}
  /\ UNCHANGED <<pstate, proc_hash, parent, children, pgid, pgid_hash, pg_list,
                 has_main, killed>>

SetsidNoMem(a) ==
  /\ AllocCanFail /\ pc[a].op = "setsid"
  /\ pc' = [pc EXCEPT ![a] = Idle]
  /\ sig_to' = {} /\ hup' = {}
  /\ UNCHANGED <<pstate, proc_hash, parent, children, pgid, sid, pgid_hash,
                 sid_hash, pg_list, sess_list, has_main, killed>>

-----------------------------------------------------------------------------
\* The pids setpgid is called with: 0 (the caller) and, if allowed, others.
PidInputs == IF SetpgidAnyPid THEN {0} \cup UserProcs ELSE {0}

PGNext ==
  \E a \in Procs :
    \/ \E p \in UserProcs, fl \in CreateFlags : ProcCreate(a, p, fl)
    \/ ProcCreateFail(a) \/ ProcCreateThread(a) \/ ProcStart(a)
    \/ \E q \in Procs : ProcKill(a, q) \/ ProcGetMainThread(a, q)
                      \/ GroupSignal(a, q) \/ SessionSignal(a, q)
    \/ ExitBegin(a) \/ ExitTeardown(a) \/ ExitFree(a)
    \/ \E pid \in PidInputs, g \in {0} \cup Procs : SetpgidBegin(a, pid, g)
    \/ SetpgidFinish(a) \/ SetpgidNoMem(a)
    \/ SetsidBegin(a) \/ SetsidFinish(a) \/ SetsidNoMem(a)

PGSpec == Init /\ [][PGNext]_pvars

-----------------------------------------------------------------------------
(* Properties                                                              *)

PGTypeOK ==
  /\ pstate \in [Procs -> PStates]
  /\ proc_hash \subseteq Procs
  /\ parent \in [Procs -> Procs \cup {NoProc}]
  /\ \A p \in Procs : children[p] \in Seq(Procs)
  /\ pgid \in [Procs -> Procs \cup {NoProc}]
  /\ sid \in [Procs -> Procs \cup {NoProc}]
  /\ pgid_hash \subseteq Procs /\ sid_hash \subseteq Procs
  /\ pg_list \in [Procs -> SUBSET Procs]
  /\ sess_list \in [Procs -> SUBSET Procs]
  /\ has_main \in [Procs -> BOOLEAN] /\ killed \in [Procs -> BOOLEAN]
  /\ pc \in [Procs -> [op : {"idle", "create", "exit", "teardown", "gone",
                             "setpgid", "setsid"},
                       p : Procs \cup {NoProc}, g : Procs \cup {NoProc}]]
  /\ sig_to \subseteq Procs /\ hup \subseteq Procs

\* A record freed by proc_create_proc's error paths: freed before its
\* thread ever ran (an exited process's thread ends with pc "gone").
LeakedByCreate(p) == pstate[p] = "freed" /\ pc[p] = Idle

\* The links proc_create_proc, thread_exit, proc_reparent_children, setpgid
\* and setsid maintain between proc_hash, the parent and children lists and
\* the group and session lists (spec 3.2, invariants 4 and 5): a process in
\* proc_hash has a parent in proc_hash and is on its children list (only
\* kernel_proc is its own parent), and is on the list of its group and of
\* its session, both in their hashes; and every list holds only processes
\* in proc_hash, with the group or session id of the list.  The records
\* that the create error paths leave linked (NoFreedProcLinked) are
\* exempt, so that the rest is checked with allocations failing too.
ProcLinksConsistent ==
  LET Listed(q) == q \in proc_hash \/ LeakedByCreate(q) IN
  /\ \A p \in proc_hash :
       /\ parent[p] \in proc_hash
       /\ (parent[p] = p) <=> (p = KernelProc)
       /\ p # KernelProc => p \in Range(children[parent[p]])
       /\ pgid[p] \in pgid_hash /\ p \in pg_list[pgid[p]]
       /\ sid[p] \in sid_hash /\ p \in sess_list[sid[p]]
  /\ \A p \in Procs :
       /\ \A c \in Range(children[p]) : Listed(c) /\ parent[c] = p
       /\ \A q \in pg_list[p] : Listed(q) /\ pgid[q] = p
       /\ \A q \in sess_list[p] : Listed(q) /\ sid[q] = p

\* No list still reaches a freed proc record: neither a children list nor
\* a group or session list (a freed record on one is used after kfree by
\* the next walk of that list).
NoFreedProcLinked ==
  \A p \in Procs : pstate[p] = "freed" =>
    \A q \in Procs : p \notin Range(children[q]) \cup pg_list[q] \cup sess_list[q]

\* A session wholly contains every process group it references (spec 2,
\* Session; glossary): all members of a group share one session, whatever
\* setsid and setpgid have done.
SessionContainsGroups ==
  \A g \in pgid_hash : \A q, r \in pg_list[g] : sid[q] = sid[r]

\* A signal is only ever sent to a process that has a main thread: no step
\* (proc_kill_proc, proc_get_main_thread, the group and session signals,
\* thread_exit's SIGHUP to an orphaned group) dereferences a NULL
\* p->main_thread.
NoSignalToThreadless == [][\A q \in sig_to' : has_main'[q]]_pvars

\* The glossary's orphaned process group: no member has a parent outside
\* the group but within the member's session.
Orphaned(g) ==
  \A q \in pg_list[g] :
    parent[q] \in Procs => (pgid[parent[q]] = g \/ sid[parent[q]] # sid[q])

\* thread_exit sends SIGHUP and SIGCONT only to a group that its exit has
\* left orphaned (spec 4.4).
OrphanSignalSound == [][\A g \in hup' : Orphaned(g)']_pvars

\* Every non-empty group that a process's exit leaves newly orphaned gets
\* SIGHUP and SIGCONT from thread_exit's checks (spec 4.4, scenario 4).
\* The checks compare parents' group ids only, which tells a connection
\* apart only while every group lies within one session; exits from states
\* where setpgid has spread a group over two sessions (SessionContainsGroups)
\* are left out.
OrphanSignalComplete ==
  [][\A a \in Procs :
       (SessionContainsGroups /\ pc[a].op = "exit" /\ pc'[a].op = "teardown") =>
         \A g \in pgid_hash :
           (~Orphaned(g) /\ Orphaned(g)' /\ pg_list'[g] # {}) => g \in hup'
    ]_pvars

-----------------------------------------------------------------------------
(* Refinement: the detailed process layer implements ProcTree.  A process *)
(* exists once it is in proc_hash; its parent, group and session are the *)
(* fields of its record.                                                   *)

Alive(f) == [p \in Procs |-> IF p \in proc_hash THEN f[p] ELSE NoProc]

Tree == INSTANCE ProcTree
          WITH live <- proc_hash, par <- Alive(parent),
               grp <- Alive(pgid), ses <- Alive(sid)

\* Every step of proc_create_proc, thread_exit, setpgid and setsid, lock
\* drops included, is a step of ProcTree or leaves it unchanged: creation
\* links the child under its creator, exit hands every child to the
\* exiting process's parent, setpgid and setsid change only the caller.
TreeRefinement == Tree!Spec

====
