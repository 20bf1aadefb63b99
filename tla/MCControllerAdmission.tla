----------------------- MODULE MCControllerAdmission -----------------------
(* Model values for the run of the ledger. *)
EXTENDS ControllerAdmission, TLC

CONSTANTS r1, r2, t1, t2, i1, i2

TurnSymmetry ==
  Permutations({r1, r2}) \cup Permutations({t1, t2}) \cup Permutations({i1, i2})

\* The kind of an operation is read by snapshot only, for its counts.
LedgerView == <<claimed, closed, generation, lease, ActiveOperations, turns, byThread,
                completed, unknown>>

=============================================================================
