------------------------------- MODULE MCSetup -------------------------------
(***************************************************************************)
(* What people set up, approve and publish, across lost answers and        *)
(* restarts: the guided set-up of a host, the records an upgrade of its    *)
(* service starts from, a workspace on an SSH host, and the approval of    *)
(* requests when the Bridge's process ends.  They share no state, so they  *)
(* stand side by side: the subject is chosen at the start, and the others  *)
(* do not move.                                                            *)
(***************************************************************************)
EXTENDS GuidedSetup, RuntimeRecords, RemotePublication, ApprovalBroker, TLC

CONSTANTS q1, q2

ApprovalTokens == Resolvers \cup (ApprovalRequests \X {"reply", "handler"})
\* Requests that offer one grant only.
Narrow == [q \in ApprovalRequests |-> IF q = q1 THEN {Once} ELSE {Session}]

VARIABLE subject

setupSideVars == <<subject, setupVars, recordsVars, remoteVars, allVars>>

SideInit ==
  /\ subject \in {"setup", "records", "remote", "approval"}
  /\ SetupInit /\ RecordsInit /\ RemoteInit /\ ApprovalInit
  \* Where the subject is another one, which of these it is makes no difference.
  /\ subject # "setup" => NewHost
  /\ originUrl = CHOOSE u \in Urls : TRUE

\* The bounds of each are not reached together: two commands, or one and a lapse; two
\* adopters and preparers and one change, or one and two changes; two approvals for the
\* remote workspace and one commit in it, or one and two commits.
SetupBound == commandsRun + lapses <= 2
RecordsBound ==
  Cardinality({a \in Adopters : ~ AdoptionAt(a, "idle")})
    + Cardinality({p \in Preparers : ~ PreparationAt(p, "idle")})
    <= IF edits < HostEdits THEN 2 ELSE 1
RemoteBound == Len(commits) + Len(approvalsGiven) <= 4

SideNext ==
  \/ subject = "setup" /\ SetupNext /\ SetupBound'
     /\ UNCHANGED <<subject, recordsVars, remoteVars, allVars>>
  \/ subject = "records" /\ RecordsNext /\ RecordsBound'
     /\ UNCHANGED <<subject, setupVars, remoteVars, allVars>>
  \/ subject = "remote" /\ RemoteNext /\ RemoteBound'
     /\ UNCHANGED <<subject, setupVars, recordsVars, allVars>>
  \/ subject = "approval" /\ ApprovalNext
     /\ UNCHANGED <<subject, setupVars, recordsVars, remoteVars>>

SideSpec == SideInit /\ [][SideNext]_setupSideVars

\* Interchangeable are two terminals, adopters, calls; two projects and preparers; and two
\* tunnels.  One subject moves, so those of several are exchanged together.
Other(S, e) == CHOOSE o \in S : o # e
Exchanged(sets) ==
  LET all == UNION sets IN
    {[e \in all |-> e], [e \in all |-> Other(CHOOSE S \in sets : e \in S, e)]}
Alike ==
  {p @@ q @@ r : p \in Exchanged({Terminals, Adopters, Calls}),
                 q \in Exchanged({Projects, Preparers}),
                 r \in Permutations(Tunnels)}

SideTypes == SetupTypeOK /\ RecordsTypeOK /\ RemoteTypeOK /\ ApprovalTypeOK

\* What is set up on a host, and recorded there for an upgrade, is what was reviewed.
HostRecordsSound == SetupSound /\ RecordsSound

\* What no step does: lose a recorded phase that it had read, connect a tunnel nobody
\* recorded, replace a record, leave a commit behind, or break the promise of approvals.
SideSteps ==
  /\ PhasesKept /\ RepairOnlyRecorded /\ CreatedOnce /\ LocalCommitsKept
  /\ ImplementsPromise

=============================================================================
