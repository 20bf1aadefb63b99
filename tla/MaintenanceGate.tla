-------------------------- MODULE MaintenanceGate --------------------------
(***************************************************************************)
(* What ControllerAdmission promises (the docstring of admission.py): work *)
(* is admitted one piece at a time while the gate is open; the gate is     *)
(* held only from a moment at which nothing is in progress and nothing has *)
(* ever gone unaccounted for; a taint is never cleared and never stops     *)
(* normal work; close is final.                                            *)
(***************************************************************************)
CONSTANT Work

VARIABLES
  busy,     \* work in progress
  tainted,  \* some outcome is unknown
  gate      \* "unclaimed", "open", "held" or "closed"

gateState == <<busy, tainted, gate>>

Init == busy = {} /\ tainted = FALSE /\ gate = "unclaimed"

Claim ==
  /\ gate = "unclaimed"
  /\ gate' = "open"
  /\ UNCHANGED <<busy, tainted>>

Admit(w) ==
  /\ gate = "open"
  /\ w \notin busy
  /\ busy' = busy \cup {w}
  /\ UNCHANGED <<tainted, gate>>

\* Work may end in doubt, after close as well as before.
Release(w) ==
  /\ gate \in {"open", "closed"}
  /\ w \in busy
  /\ busy' = busy \ {w}
  /\ tainted' \in {tainted, TRUE}
  /\ UNCHANGED gate

Taint ==
  /\ tainted' = TRUE
  /\ UNCHANGED <<busy, gate>>

Enter ==
  /\ gate = "open"
  /\ busy = {}
  /\ ~tainted
  /\ gate' = "held"
  /\ UNCHANGED <<busy, tainted>>

Leave ==
  /\ gate = "held"
  /\ gate' = "open"
  /\ UNCHANGED <<busy, tainted>>

Close ==
  /\ gate # "closed"
  /\ gate' = "closed"
  /\ UNCHANGED <<busy, tainted>>

Next ==
  \/ Claim
  \/ \E w \in Work : Admit(w) \/ Release(w)
  \/ Taint
  \/ Enter
  \/ Leave
  \/ Close

Spec == Init /\ [][Next]_gateState

=============================================================================
