------------------------ MODULE EndpointMigration ------------------------
(***************************************************************************)
(* https_migration.py: the local files that name the GitLab endpoint (the  *)
(* user's .env, the cached repositories' configs, the workspaces' records) *)
(* are moved from http to https.  A migrator previews a plan, applies it   *)
(* under a lock that does not wait, keeps a journal of every file before   *)
(* and after, and may fail or be killed between any two of its writes; the *)
(* way on is to run it again.  Editors and workers write meanwhile.        *)
(***************************************************************************)
EXTENDS Naturals

CONSTANTS
  Files,       \* the files that name the endpoint
  Migrators,   \* processes of the migration command
  NoMigrator,  \* no process holds the lock
  EditBound,   \* bound: how often a file, or the refs, change by others
  FaultBound   \* bound: how often a migrator fails or is killed

ASSUME MigrationAssumption ==
  /\ NoMigrator \notin Migrators
  /\ EditBound \in Nat /\ FaultBound \in Nat

VARIABLES
  file,           \* file -> its scheme and the version of everything else in it
  refs,           \* the version of the Git refs and worktrees
  migrator,       \* process -> step, the plan it holds, files to go, file in hand
  migrationLock,  \* who holds .https-migration.lock
  backups,        \* every copy some journal holds of a file before its change
  manifest,       \* process -> the manifest of its last journal
  faults          \* failures so far

migrationVars == <<file, refs, migrator, migrationLock, backups, manifest, faults>>

Contents == [scheme : {"http", "https"}, rest : 0..EditBound]
\* build_plan(): the digest covers every input, the refs and the worktrees.
BuildPlan == [file |-> file, refs |-> refs]
Changes(plan) == {f \in Files : plan.file[f].scheme = "http"}
Upgraded(content) == [content EXCEPT !.scheme = "https"]

NoManifest == [status |-> "none", state |-> [f \in Files |-> "none"]]

Unread == [file |-> [f \in Files |-> [scheme |-> "unread", rest |-> 0]], refs |-> 0]
Resting == [step |-> "idle", plan |-> Unread, todo |-> {}, inHand |-> {}]

MigrationInit ==
  /\ file \in [Files -> {[scheme |-> s, rest |-> 0] : s \in {"http", "https"}}]
  /\ \E f \in Files : file[f].scheme = "http"
  /\ refs = 0
  /\ migrator = [m \in Migrators |-> Resting]
  /\ migrationLock = NoMigrator
  /\ backups = {}
  /\ manifest = [m \in Migrators |-> NoManifest]
  /\ faults = 0

MigrationAt(m, step) == migrator[m].step = step
Rest(m) == migrator' = [migrator EXCEPT ![m] = Resting]
MigrationGoto(m, step) == migrator' = [migrator EXCEPT ![m].step = step]

\* main(): the preview; the plan is shown and confirmed as it stands.
Preview(m) ==
  /\ MigrationAt(m, "idle")
  /\ migrator' = [migrator EXCEPT ![m].step = "reviewed", ![m].plan = BuildPlan]
  /\ UNCHANGED <<file, refs, migrationLock, backups, manifest, faults>>

TakeMigrationLock(m) ==
  /\ MigrationAt(m, "reviewed")
  /\ IF migrationLock = NoMigrator
     THEN MigrationGoto(m, "rebuilding") /\ migrationLock' = m
     ELSE Rest(m) /\ UNCHANGED migrationLock
  /\ UNCHANGED <<file, refs, backups, manifest, faults>>

\* The plan is built again under the lock; another digest, or nothing to do, ends it.
Rebuild(m) ==
  /\ MigrationAt(m, "rebuilding")
  /\ LET same == BuildPlan = migrator[m].plan
     IN IF same /\ Changes(BuildPlan) # {}
        THEN /\ migrator' = [migrator EXCEPT ![m].step = "preparing",
                                             ![m].todo = Changes(BuildPlan)]
             /\ UNCHANGED migrationLock
        ELSE /\ Rest(m)
             /\ migrationLock' = NoMigrator
  /\ UNCHANGED <<file, refs, backups, manifest, faults>>

FaultyPrepareJournal(m) ==
  /\ MigrationAt(m, "preparing")
  /\ manifest' = [manifest EXCEPT ![m] =
       [status |-> "prepared", state |-> [f \in Files |-> "pending"]]]
  /\ MigrationGoto(m, "applying")
  /\ UNCHANGED <<file, refs, migrationLock, backups, faults>>

\* All copies and the manifest exist before the first file changes.
PrepareJournal(m) ==
  /\ MigrationAt(m, "preparing")
  /\ backups' = backups \cup {<<f, migrator[m].plan.file[f]>> : f \in migrator[m].todo}
  /\ manifest' = [manifest EXCEPT ![m] =
       [status |-> "prepared",
        state |-> [f \in Files |-> IF f \in migrator[m].todo THEN "pending" ELSE "none"]]]
  /\ MigrationGoto(m, "applying")
  /\ UNCHANGED <<file, refs, migrationLock, faults>>

\* What happens to the manifest and the lock when apply ends with an error; the
\* last write of the manifest may fail too.
Interrupt(m) ==
  /\ \/ manifest' = [manifest EXCEPT ![m].status = "interrupted"]
     \/ UNCHANGED manifest
  /\ Rest(m)
  /\ migrationLock' = NoMigrator

\* A file that is not as the plan saw it stops the migration; otherwise the
\* manifest says that it is being written.
MarkWriting(m) ==
  /\ MigrationAt(m, "applying")
  /\ \E f \in migrator[m].todo :
       IF file[f] # migrator[m].plan.file[f] THEN Interrupt(m)
       ELSE /\ manifest' = [manifest EXCEPT ![m].state[f] = "writing"]
            /\ migrator' = [migrator EXCEPT ![m].step = "writing", ![m].inHand = {f}]
            /\ UNCHANGED migrationLock
  /\ UNCHANGED <<file, refs, backups, faults>>

WriteFile(m) ==
  /\ MigrationAt(m, "writing")
  /\ file' = [f \in Files |-> IF f \in migrator[m].inHand
                              THEN Upgraded(migrator[m].plan.file[f]) ELSE file[f]]
  /\ MigrationGoto(m, "written")
  /\ UNCHANGED <<refs, migrationLock, backups, manifest, faults>>

MarkApplied(m) ==
  /\ MigrationAt(m, "written")
  /\ manifest' = [manifest EXCEPT ![m].state = [f \in Files |->
       IF f \in migrator[m].inHand THEN "applied" ELSE @[f]]]
  /\ migrator' = [migrator EXCEPT ![m].step = "applying", ![m].inHand = {},
                                  ![m].todo = @ \ migrator[m].inHand]
  /\ UNCHANGED <<file, refs, migrationLock, backups, faults>>

\* The plan built once more has to be empty and the refs as they were.
Verify(m) ==
  /\ MigrationAt(m, "applying") /\ migrator[m].todo = {}
  /\ IF Changes(BuildPlan) = {} /\ refs = migrator[m].plan.refs
     THEN /\ manifest' = [manifest EXCEPT ![m].status = "completed"]
          /\ Rest(m)
          /\ migrationLock' = NoMigrator
     ELSE Interrupt(m)
  /\ UNCHANGED <<file, refs, backups, faults>>

\* A write that fails, or the process killed: then nothing more is recorded.
Fault(m) ==
  /\ faults < FaultBound /\ faults' = faults + 1
  /\ migrator[m].step \notin {"idle", "reviewed"}
  /\ Interrupt(m)
  /\ UNCHANGED <<file, refs, backups>>

\* Somebody edits a file, or a worker commits.
OthersWrite ==
  /\ \/ /\ \E f \in Files : /\ file[f].rest < EditBound
                            /\ file' = [file EXCEPT ![f].rest = @ + 1]
        /\ UNCHANGED refs
     \/ refs < EditBound /\ refs' = refs + 1 /\ UNCHANGED file
  /\ UNCHANGED <<migrator, migrationLock, backups, manifest, faults>>

MigratorStep(m) ==
  \/ Preview(m) \/ TakeMigrationLock(m) \/ Rebuild(m) \/ PrepareJournal(m)
  \/ MarkWriting(m) \/ WriteFile(m) \/ MarkApplied(m) \/ Verify(m)

MigrationNext ==
  \/ \E m \in Migrators : MigratorStep(m) \/ Fault(m)
  \/ OthersWrite

\* The operator runs the command until it is done.
MigrationFairness == \A m \in Migrators : WF_migrationVars(MigratorStep(m))

MigrationSpec == MigrationInit /\ [][MigrationNext]_migrationVars /\ MigrationFairness

(***************************************************************************)
(* Properties.                                                             *)
(***************************************************************************)
MigrationTypeOK ==
  /\ file \in [Files -> Contents]
  /\ migrationLock \in Migrators \cup {NoMigrator}
  /\ backups \subseteq Files \X Contents
  /\ \A m \in Migrators :
       /\ migrator[m].todo \subseteq Files
       /\ manifest[m].status \in {"none", "prepared", "interrupted", "completed"}

\* Whenever it stops, every file a manifest calls written has a copy of what it was.
JournalExplains ==
  \A m \in Migrators, f \in Files :
    manifest[m].state[f] \in {"writing", "applied"} =>
      \E c \in Contents : c.scheme = "http" /\ <<f, c>> \in backups

\* A migration that reported completion left no file of the inventory on http,
\* and no later fault, rerun or second migrator brings one back.
CompletedMeansUpgraded ==
  (\E m \in Migrators : manifest[m].status = "completed") =>
    \A f \in Files : file[f].scheme = "https"

\* An interrupted migration can be understood and undone, and a completed one is complete.
MigrationRecoverable == JournalExplains /\ CompletedMeansUpgraded

\* A file changes its scheme only into what its operator reviewed: the contents of
\* the preview with the new endpoint, of which a journal holds the original.
ChangesOnlyAsReviewed ==
  [][\A f \in Files : file'[f].scheme # file[f].scheme =>
       \E m \in Migrators :
         /\ file'[f] = Upgraded(migrator[m].plan.file[f])
         /\ <<f, migrator[m].plan.file[f]>> \in backups]_migrationVars

\* Interrupted as often as it may be, running the command again finishes it.
MigrationFinishes == <>[](\A f \in Files : file[f].scheme = "https")
=============================================================================
