---------------------------- MODULE MCProcGroups ----------------------------
(* The kernel process and three process ids for proc_create_proc: enough  *)
(* for a grandparent, a parent and a child in three groups of one session, *)
(* the shape of spec scenario 4 and of a reparenting across groups.        *)
EXTENDS ProcGroups, TLC

CONSTANTS k, p1, p2, p3

MCUserProcs3 == {p1, p2, p3}
MCUserProcs2 == {p1, p2}

\* Process ids are only compared for equality, and no property names one.
MCSymmetry3 == Permutations(MCUserProcs3)
MCSymmetry2 == Permutations(MCUserProcs2)
=============================================================================
