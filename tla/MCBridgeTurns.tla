--------------------------- MODULE MCBridgeTurns ---------------------------
(* Model values and the workspaces of the sessions for the runs of BridgeTurns. *)
EXTENDS BridgeTurns, TLC

CONSTANTS c1, c2, r1, r2, t1, t2, w1

\* Two sessions on one workspace.
SharedWorkspace == [th \in Threads |-> w1]

CallerSymmetry == Permutations({c1, c2}) \cup Permutations({r1, r2})
ThreadSymmetry == CallerSymmetry \cup Permutations({t1, t2})

\* The last call interrupts only if two others start: the hazards are between a turn, the
\* one after it, and the call that stops either.
Starting(c) == call[c].step \in {"session", "reserve", "revise"}
StartsBegun == nextRevision + Cardinality({c \in Callers : Starting(c)})
LastCall == calls # MaxCalls /\ calls' = MaxCalls

CallsSpec == BridgeInit /\ [][BridgeNext /\ (LastCall => StartsBegun' >= 2)]_bridgeVars

=============================================================================
