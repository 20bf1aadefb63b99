----------------------------- MODULE MCWorkspace -----------------------------
(* Model values for the runs of Workspace. *)
EXTENDS Workspace, TLC

CONSTANTS p1, p2, w1, w2, t1, t2

WorkspaceSymmetry == Permutations({p1, p2}) \cup Permutations({w1, w2})
                       \cup Permutations({t1, t2})

=============================================================================
