----------------------------- MODULE MCPublication -----------------------------
(* Model values for the runs of Publication, and what each tree changes. *)
EXTENDS Publication

CONSTANTS p1, p2, guarded

OnePathEach ==
  [t \in Trees |-> IF t = BaseTree THEN {} ELSE IF t = guarded THEN {"policy"} ELSE {"source"}]

\* The bounds are not reached together: two plans and two calls, or one and three; a plan
\* with an override counts twice while it is at work.
Overriding == {p \in Callers : plan[p].allowed # {}}
BoundedNext == PublicationNext /\ planned' + begun' + Cardinality(Overriding)' <= 4
BoundedSpec == PublicationInit /\ [][BoundedNext]_publicationVars

=============================================================================
