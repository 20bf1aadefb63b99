----------------------------- MODULE MCManaged -----------------------------
(***************************************************************************)
(* What runs processes and has to answer for them: the managed service,    *)
(* one disposable start of a managed Bridge, and a validation command.     *)
(* They share no state, so they stand side by side: the subject is chosen  *)
(* at the start, and the others do not move.  The validation is looked at  *)
(* twice, with a command that writes and leaves children, and with         *)
(* operators who bind another interpreter while it runs.                   *)
(***************************************************************************)
EXTENDS ManagedService, ManagedStartup, ValidationRun, TLC

VARIABLE subject

managedVars == <<subject, serviceVars, startupVars, validationVars>>

ManagedInit ==
  /\ subject \in {"service", "startup", "command", "binding"}
  /\ ServiceInit /\ StartupInit /\ ValidationInit
  /\ subject \in {"service", "startup"} => binding = Unbound

\* A command with an interpreter that stays, or one that only runs and ends
\* while its interpreter is changed.
ValidationStep ==
  \/ subject = "command" /\ ValidationNext /\ UNCHANGED <<interpreter, plan>>
  \/ subject = "binding" /\ ValidationNext /\ UNCHANGED straggler
     /\ leader' # "quiet"
     /\ \A s \in Streams : pipe'[s].written = 0

ManagedNext ==
  \/ subject = "service" /\ ServiceNext /\ UNCHANGED <<subject, startupVars, validationVars>>
  \/ subject = "startup" /\ StartupNext /\ UNCHANGED <<subject, serviceVars, validationVars>>
  \/ ValidationStep /\ UNCHANGED <<subject, serviceVars, startupVars>>

\* The fairness of each, asked of the subject only: the others are not running.
ManagedFairness ==
  /\ WF_serviceVars(subject = "service" /\ (StartRuns \/ StartFails))
  /\ WF_serviceVars(subject = "service" /\ CleanupStep)
  /\ WF_startupVars(subject = "startup" /\ probeStep # "idle" /\ SupervisorStep)
  /\ WF_startupVars(subject = "startup" /\ DeadlinePasses)
  /\ WF_validationVars(subject \in {"command", "binding"} /\ Spawn)
  /\ WF_validationVars(subject \in {"command", "binding"} /\ RunnerStep)
  /\ WF_validationVars(subject \in {"command", "binding"} /\ RunDeadlinePasses)

ManagedSpec == ManagedInit /\ [][ManagedNext]_managedVars /\ ManagedFairness

ManagedTypes == ServiceTypeOK /\ StartupTypeOK /\ ValidationTypeOK

\* Of the service and of a start of it: what runs and listens is what was reviewed, and what
\* is told of it is so.
ManagedSound == ServiceSound /\ StartupSound

\* What no step does: serve twice, consume a challenge twice, signal a group that was
\* reaped, or replace a binding nobody reviewed.
ManagedSteps ==
  ServiceOneShot /\ StartupSteps /\ NoSignalAfterReaping /\ BindingReplacesReviewed

\* What comes to an end: a start and a clean-up of the service, a probe, a command.
ManagedProgress == ServiceSettles /\ ProbeEnds /\ RunEnds

=============================================================================
