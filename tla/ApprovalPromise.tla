---------------------------- MODULE ApprovalPromise ----------------------------
(***************************************************************************)
(* What the approval of requests promises to people and to the worker      *)
(* (resolve_approval and _handle_app_approval_request): people may rule on *)
(* a request, and rule again, until its answer is taken; the worker then   *)
(* hears the ruling that stands, once and before anything else; and after  *)
(* a failure it hears refusals only.                                       *)
(***************************************************************************)
EXTENDS Sequences

CONSTANTS
  Requests, \* what the worker may ask for
  Levels,   \* of permission
  Refusal   \* the level that is none, which stands unless someone rules

VARIABLES
  stage,  \* of each request: "open", "taken", or "failed"
  ruling, \* the level that stands
  heard   \* what the worker may have heard

promiseVars == <<stage, ruling, heard>>

Init ==
  /\ stage = [q \in Requests |-> "open"]
  /\ ruling = [q \in Requests |-> Refusal]
  /\ heard = [q \in Requests |-> <<>>]

\* Someone is told that this is the ruling.  It is not, once the answer is taken; where
\* something failed nobody can know.
Rule(q, level) ==
  /\ stage[q] # "taken"
  /\ ruling' = [ruling EXCEPT ![q] = level]
  /\ UNCHANGED <<stage, heard>>

Take(q) ==
  /\ stage[q] = "open"
  /\ stage' = [stage EXCEPT ![q] = "taken"]
  /\ UNCHANGED <<ruling, heard>>

\* The worker hears it, though the telling may fail.
Tell(q) ==
  /\ stage[q] = "taken" /\ heard[q] = <<>>
  /\ heard' = [heard EXCEPT ![q] = <<ruling[q]>>]
  /\ stage' \in {stage, [stage EXCEPT ![q] = "failed"]}
  /\ UNCHANGED ruling

Refuse(q) ==
  /\ stage[q] = "failed"
  /\ heard' = [heard EXCEPT ![q] = Append(@, Refusal)]
  /\ UNCHANGED <<stage, ruling>>

\* Something fails, for any number of requests at once.
Fail(S) ==
  /\ stage' = [q \in Requests |-> IF q \in S THEN "failed" ELSE stage[q]]
  /\ UNCHANGED <<ruling, heard>>

Next ==
  \/ \E q \in Requests :
       (\E level \in Levels : Rule(q, level)) \/ Take(q) \/ Tell(q) \/ Refuse(q)
  \/ \E S \in SUBSET Requests : Fail(S)

Spec == Init /\ [][Next]_promiseVars

=============================================================================
