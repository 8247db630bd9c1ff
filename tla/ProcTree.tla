----------------------------- MODULE ProcTree -----------------------------
(***************************************************************************)
(* What the process layer promises (spec 3.3, 4.4), with every operation  *)
(* one atomic step: the live processes, each one's parent, process group  *)
(* and session.  Locks, lock drops, the order of the children lists and   *)
(* the group and session nodes are the detailed module's business          *)
(* (ProcGroups); it implements this one.                                  *)
(***************************************************************************)
CONSTANTS KernelProc, UserProcs, NoProc

Procs == {KernelProc} \cup UserProcs

VARIABLES
  live,   \* the processes that exist
  par,    \* parent of a live process, NoProc otherwise
  grp,    \* process group of a live process, NoProc otherwise
  ses     \* session of a live process, NoProc otherwise

tvars == <<live, par, grp, ses>>

Init ==
  /\ live = {KernelProc}
  /\ par = [p \in Procs |-> IF p = KernelProc THEN KernelProc ELSE NoProc]
  /\ grp = par
  /\ ses = par

\* Forget a process: it has no parent, group or session any more.
Drop(f, p) == [f EXCEPT ![p] = NoProc]

\* a creates p, in its own session and group, in a new group of a's
\* session, or in a's group and session.
Create(a, p) ==
  /\ a \in live /\ p \in UserProcs /\ par[p] = NoProc /\ p \notin live
  /\ live' = live \cup {p}
  /\ par' = [par EXCEPT ![p] = a]
  /\ \/ grp' = [grp EXCEPT ![p] = p] /\ ses' = [ses EXCEPT ![p] = p]
     \/ grp' = [grp EXCEPT ![p] = p] /\ ses' = [ses EXCEPT ![p] = ses[a]]
     \/ grp' = [grp EXCEPT ![p] = grp[a]] /\ ses' = [ses EXCEPT ![p] = ses[a]]

\* A process whose creation failed before it ran disappears; it has no
\* children yet.
Abort(p) ==
  /\ p \in live \ {KernelProc} /\ \A c \in live : par[c] # p
  /\ live' = live \ {p}
  /\ par' = Drop(par, p) /\ grp' = Drop(grp, p) /\ ses' = Drop(ses, p)

\* p exits: its children become children of its parent.
Exit(p) ==
  /\ p \in live \ {KernelProc}
  /\ live' = live \ {p}
  /\ par' = [c \in Procs |-> IF c = p THEN NoProc
                             ELSE IF par[c] = p THEN par[p] ELSE par[c]]
  /\ grp' = Drop(grp, p) /\ ses' = Drop(ses, p)

\* p joins, or founds, process group g.
SetPgid(p, g) ==
  /\ p \in live /\ g \in Procs
  /\ grp' = [grp EXCEPT ![p] = g]
  /\ UNCHANGED <<live, par, ses>>

\* p founds session p.
SetSid(p) ==
  /\ p \in live
  /\ ses' = [ses EXCEPT ![p] = p]
  /\ UNCHANGED <<live, par, grp>>

Next ==
  \E p \in Procs :
    \/ \E a \in Procs : Create(a, p)
    \/ Abort(p) \/ Exit(p) \/ SetSid(p)
    \/ \E g \in Procs : SetPgid(p, g)

Spec == Init /\ [][Next]_tvars

====
