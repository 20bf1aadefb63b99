------------------------------- MODULE MCHost -------------------------------
(***************************************************************************)
(* The parts of the program in which processes of one machine meet by way  *)
(* of locked files: the file lock, the tunnel's supervisor and the         *)
(* migration of the endpoints.  They share no state, so they stand side by *)
(* side: the subject is chosen at the start, and the others do not move.   *)
(* The tunnel is looked at twice, with a client that stops it and with a   *)
(* configuration saved under it; the migration with one operator and       *)
(* faults, and with two operators.                                         *)
(***************************************************************************)
EXTENDS FileLock, TunnelSupervisor, EndpointMigration, FiniteSets, TLC

CONSTANTS k1, k2, k3, n1, n2, u1, p1, p2

\* Two processes, one of them with two threads; two profiles of one tunnel.
Placement == k1 :> n1 @@ k2 :> n1 @@ k3 :> n2
OneTunnel == p1 :> u1 @@ p2 :> u1

VARIABLE subject

hostVars == <<subject, lockVars, tunnelVars, migrationVars>>

HostInit ==
  /\ subject \in {"lock", "stop", "configure", "migration", "race"}
  /\ Init /\ MigrationInit
  /\ TunnelInit /\ saved = p1
  /\ subject \in {"lock", "stop", "configure"} => \A f \in Files : file[f].scheme = "http"

\* The client's stop and the configuration never come in one behaviour, nor do the
\* configuration and an owner that is killed, or a stop and a signal.
TunnelStep ==
  \/ subject = "stop" /\ TunnelNext /\ setter' = setter
     /\ \A o \in Owners : ~ SignalOwner(o)
  \/ subject = "configure" /\ TunnelNext
     /\ \A c \in Clients : stopping'[c] = stopping[c]
     /\ \A o \in Owners : owner'[o].step # "killed"

MigrationStep ==
  \/ subject = "migration" /\ MigrationNext
     /\ Cardinality({m \in Migrators : migrator'[m] # Resting \/ manifest'[m] # NoManifest}) <= 1
  \/ subject = "race" /\ MigrationNext /\ faults' = faults

HostNext ==
  \/ subject = "lock" /\ Next /\ UNCHANGED <<subject, tunnelVars, migrationVars>>
  \/ TunnelStep /\ UNCHANGED <<subject, lockVars, migrationVars>>
  \/ MigrationStep /\ UNCHANGED <<subject, lockVars, tunnelVars>>

\* The fairness of each, asked of the subject only: the others are not running.
HostFairness ==
  /\ \A t \in Threads : WF_lockVars(subject = "lock" /\ LockStep(t))
  /\ \A o \in Owners :
       WF_tunnelVars(subject \in {"stop", "configure"} /\ OwnerStep(o) /\ owner[o].step # "new")
  /\ \A c \in Stoppers : WF_tunnelVars(subject \in {"stop", "configure"} /\ StopStep(c))
  /\ \A m \in Migrators : WF_migrationVars(subject = "race" /\ MigratorStep(m))
  /\ WF_migrationVars(subject = "migration" /\ MigrationStep /\ \E m \in Migrators : MigratorStep(m))

HostSpec == HostInit /\ [][HostNext]_hostVars /\ HostFairness

HostTypes == LockTypeOK /\ TunnelTypeOK /\ MigrationTypeOK

\* What no step does: signal a process group whose number may be somebody else's, or
\* write what no operator reviewed.
HostSteps == NeverSignalsReapedGroup /\ ChangesOnlyAsReviewed

\* What comes to an end: an attempt to lock, a stop that was asked for, and a migration
\* that is run again until it is done.
HostProgress ==
  /\ AttemptsEnd
  /\ StopIsHonoured
  /\ subject \in {"migration", "race"} => MigrationFinishes

=============================================================================
