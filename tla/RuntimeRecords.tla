---------------------------- MODULE RuntimeRecords ----------------------------
(***************************************************************************)
(* What an upgrade of the Bridge's service starts from (upgrade/           *)
(* deployment.py, runtime.py, pairing.py, launch_review.py,                *)
(* loaded_service.py): a record of the service as it is registered, and a  *)
(* runtime prepared beside it.  Both are created once and never replaced,  *)
(* by processes that may fail or be killed between any two steps; reviews  *)
(* read them together.  Nothing is locked: whoever reads reads again.      *)
(*                                                                         *)
(* A file is the version of its content.  An edit makes a new version: an  *)
(* edit that is undone between two readings goes unseen, as pairing.py     *)
(* says ("NOT a lock, atomic snapshot, ABA protection").                   *)
(***************************************************************************)
EXTENDS Naturals, Sequences

CONSTANTS
  Adopters,    \* processes of `deployment adopt`
  Preparers,   \* processes of `runtime prepare`
  Reviewers,   \* processes that review the two together
  HostEdits    \* bound: how often files change, or the job is loaded again, by others

ASSUME EditsAssumption == HostEdits \in Nat

VARIABLES
  registration,  \* the service's plist
  adopted,       \* the deployment record: its digest, and whose file is linked there
  adoption,      \* adopter -> its step, the digest it was told, its temporary file
  wheels,        \* the wheelhouse
  basePython,    \* the interpreter a runtime is built from
  runtimes,      \* runtime id -> its directory
  preparation,   \* preparer -> its step and the runtime id it was told
  launcher,      \* the files the registration launches
  job,           \* the registration that launchd has loaded
  review,        \* reviewer -> what it reads, how far it is, what it saw
  edits,         \* edits so far
  coexisted      \* history: what was recorded, registered, prepared and loaded at once

adoptionVars == <<registration, adopted, adoption>>
runtimeVars == <<wheels, basePython, runtimes, preparation>>
reviewVars == <<launcher, job, review, edits>>
recordsVars == <<adoptionVars, runtimeVars, reviewVars, coexisted>>

Versions == 1..(HostEdits + 1)
\* plan(): the id is the digest of every input.
Inputs == [wheels : Versions, python : Versions]
CurrentInputs == [wheels |-> wheels, python |-> basePython]

NoRecord == [digest |-> 0]
Adoptions == [digest : Versions, by : Adopters]
NoDirectory == [made |-> FALSE, wheels |-> 0, python |-> 0, tree |-> "none", manifest |-> FALSE]

NotReviewing(step) ==
  [step |-> step, id |-> [wheels |-> 1, python |-> 1], reads |-> <<>>, launcher |-> 0, job |-> 0]

RecordsInit ==
  /\ registration = 1 /\ wheels = 1 /\ basePython = 1 /\ launcher = 1 /\ job = 1
  /\ adopted = NoRecord
  /\ adoption = [a \in Adopters |-> [step |-> "idle", expect |-> 0, temporary |-> FALSE]]
  /\ runtimes = [id \in Inputs |-> NoDirectory]
  /\ preparation = [p \in Preparers |-> [step |-> "idle", id |-> CurrentInputs]]
  /\ review = [r \in Reviewers |-> NotReviewing("idle")]
  /\ edits = 0
  /\ coexisted = {}

(* The deployment record *)

AdoptionAt(a, step) == adoption[a].step = step
AdoptionGoto(a, step) == adoption' = [adoption EXCEPT ![a].step = step]

\* _read_at(), _check(): a file with a second name is not read.  The temporary file is
\* one until it is unlinked.
Readable == adopted = NoRecord \/ ~ adoption[adopted.by].temporary

\* adopt_deployment(): the digest was shown by a plan; the plan is made again.
BeginAdoption(a) ==
  /\ AdoptionAt(a, "idle")
  /\ \E digest \in 1..registration :
       adoption' = [adoption EXCEPT ![a].expect = digest,
                                    ![a].step = IF registration = digest THEN "reading" ELSE "failed"]
  /\ UNCHANGED <<registration, adopted>>

ReadRecord(a) ==
  /\ AdoptionAt(a, "reading")
  /\ AdoptionGoto(a, CASE ~ Readable -> "failed"
                       [] Readable /\ adopted = NoRecord -> "writing"
                       [] OTHER -> IF adopted.digest = adoption[a].expect THEN "already" ELSE "failed")
  /\ UNCHANGED <<registration, adopted>>

WriteTemporary(a) ==
  /\ AdoptionAt(a, "writing")
  /\ adoption' = [adoption EXCEPT ![a].step = "checking", ![a].temporary = TRUE]
  /\ UNCHANGED <<registration, adopted>>

CheckRegistration(a) ==
  /\ AdoptionAt(a, "checking")
  /\ AdoptionGoto(a, IF registration = adoption[a].expect THEN "linking" ELSE "discarding")
  /\ UNCHANGED <<registration, adopted>>

\* The mutant renames the temporary file over whatever is there.
FaultyNameFree == TRUE
\* link() fails when the name is taken.
NameFree == adopted = NoRecord

LinkRecord(a) ==
  /\ AdoptionAt(a, "linking")
  /\ IF NameFree
     THEN adopted' = [digest |-> adoption[a].expect, by |-> a] /\ AdoptionGoto(a, "unlinking")
     ELSE AdoptionGoto(a, "discarding") /\ UNCHANGED adopted
  /\ UNCHANGED registration

UnlinkTemporary(a) ==
  /\ adoption[a].step \in {"unlinking", "discarding"}
  /\ adoption' = [adoption EXCEPT ![a].temporary = FALSE,
                                  ![a].step = IF @ = "unlinking" THEN "confirming" ELSE "failed"]
  /\ UNCHANGED <<registration, adopted>>

\* The record is read again under its name.
ConfirmRecord(a) ==
  /\ AdoptionAt(a, "confirming")
  /\ AdoptionGoto(a, IF Readable /\ adopted.digest = adoption[a].expect THEN "verifying" ELSE "failed")
  /\ UNCHANGED <<registration, adopted>>

VerifyRegistration(a) ==
  /\ AdoptionAt(a, "verifying")
  /\ AdoptionGoto(a, IF registration = adoption[a].expect THEN "adopted" ELSE "outdated")
  /\ UNCHANGED <<registration, adopted>>

\* Writing, linking, unlinking or flushing fails: "inspect status before retrying".
StorageFails(a) ==
  /\ \/ adoption[a].step \in {"writing", "unlinking", "discarding", "confirming"} /\ AdoptionGoto(a, "failed")
     \/ adoption[a].step \in {"checking", "linking"} /\ AdoptionGoto(a, "discarding")
  /\ UNCHANGED <<registration, adopted>>

Ended == {"idle", "already", "adopted", "outdated", "prepared", "verified", "failed", "killed"}

AdopterKilled(a) ==
  /\ adoption[a].step \notin Ended
  /\ AdoptionGoto(a, "killed")
  /\ UNCHANGED <<registration, adopted>>

AdoptionStep(a) ==
  \/ BeginAdoption(a) \/ ReadRecord(a) \/ WriteTemporary(a) \/ CheckRegistration(a)
  \/ LinkRecord(a) \/ UnlinkTemporary(a) \/ ConfirmRecord(a) \/ VerifyRegistration(a)
  \/ StorageFails(a) \/ AdopterKilled(a)

(* The prepared runtime *)

PreparationAt(p, step) == preparation[p].step = step
PreparationGoto(p, step) == preparation' = [preparation EXCEPT ![p].step = step]
Target(p) == preparation[p].id

\* _tree(): the installed files are those whose digests the manifest holds.  It holds
\* those it finds: what others change after the installation and before the record is in
\* the record, and only what they change later shows.
TreeMatches(id) == runtimes[id].tree = "built"

\* status(): what anyone may ask, whenever.
Prepared(id) == runtimes[id].manifest /\ TreeMatches(id) /\ basePython = id.python

\* prepare(): the id was shown by a plan; the plan is made again.
PlanRuntime(p) ==
  /\ PreparationAt(p, "idle")
  /\ \E id \in [wheels : 1..wheels, python : 1..basePython] :
       preparation' = [preparation EXCEPT
         ![p] = [id |-> id, step |-> IF id = CurrentInputs /\ ~ runtimes[id].made
                                     THEN "creating" ELSE "failed"]]
  /\ UNCHANGED <<wheels, basePython, runtimes>>

\* The mutant takes a directory that is there for its own.
FaultyFirst(id) == TRUE
\* mkdir() fails when the name is taken.
First(id) == ~ runtimes[id].made

CreateDestination(p) ==
  /\ PreparationAt(p, "creating")
  /\ IF First(Target(p))
     THEN runtimes' = [runtimes EXCEPT ![Target(p)].made = TRUE] /\ PreparationGoto(p, "copying")
     ELSE PreparationGoto(p, "failed") /\ UNCHANGED runtimes
  /\ UNCHANGED <<wheels, basePython>>

\* The mutant trusts the plan: what is copied is not hashed again.
FaultyAsPlanned(p) == TRUE
AsPlanned(p) == wheels = Target(p).wheels

CopyInputs(p) ==
  /\ PreparationAt(p, "copying")
  /\ IF AsPlanned(p)
     THEN runtimes' = [runtimes EXCEPT ![Target(p)].wheels = wheels] /\ PreparationGoto(p, "probing")
     ELSE PreparationGoto(p, "failed") /\ UNCHANGED runtimes
  /\ UNCHANGED <<wheels, basePython>>

ProbePython(p) ==
  /\ PreparationAt(p, "probing")
  /\ PreparationGoto(p, IF basePython = Target(p).python THEN "building" ELSE "failed")
  /\ UNCHANGED <<wheels, basePython, runtimes>>

\* The environment is made and its packages installed from the copied wheels.
BuildRuntime(p) ==
  /\ PreparationAt(p, "building")
  /\ runtimes' = [runtimes EXCEPT ![Target(p)].tree = "built", ![Target(p)].python = basePython]
  /\ PreparationGoto(p, "observing")
  /\ UNCHANGED <<wheels, basePython>>

\* The installed package is probed, and the interpreter is what it was.
ObservePackage(p) ==
  /\ PreparationAt(p, "observing")
  /\ PreparationGoto(p, IF basePython = Target(p).python THEN "recording" ELSE "failed")
  /\ UNCHANGED <<wheels, basePython, runtimes>>

RecordManifest(p) ==
  /\ PreparationAt(p, "recording")
  /\ runtimes' = [runtimes EXCEPT ![Target(p)].manifest = TRUE]
  /\ PreparationGoto(p, "judging")
  /\ UNCHANGED <<wheels, basePython>>

JudgeRuntime(p) ==
  /\ PreparationAt(p, "judging")
  /\ PreparationGoto(p, IF Prepared(Target(p)) THEN "prepared" ELSE "failed")
  /\ UNCHANGED <<wheels, basePython, runtimes>>

\* A command fails or takes too long, a file cannot be written, or the process is killed:
\* the directory is kept as it is.
PreparationStops(p) ==
  /\ preparation[p].step \notin Ended
  /\ PreparationGoto(p, "failed")
  /\ UNCHANGED <<wheels, basePython, runtimes>>

PreparationStep(p) ==
  \/ PlanRuntime(p) \/ CreateDestination(p) \/ CopyInputs(p) \/ ProbePython(p)
  \/ BuildRuntime(p) \/ ObservePackage(p) \/ RecordManifest(p) \/ JudgeRuntime(p)
  \/ PreparationStops(p)

(* The reviews *)

\* The mutant reads each record once.
FaultyPairingReads == <<"record", "runtime">>
\* pairing.plan(): the two records, and both again.
PairingReads == <<"record", "runtime", "record", "runtime">>
\* launch_review.plan(): a pairing, the launcher twice, the pairing again.
LaunchReads == PairingReads \o <<"launcher", "launcher">> \o PairingReads
\* loaded_service.inspect(): the launch review around everything it reads.
LoadedReads ==
  LaunchReads \o <<"registration">> \o LaunchReads \o <<"job", "job", "registration">> \o LaunchReads

RecordHolds == adopted # NoRecord /\ Readable /\ registration = adopted.digest
\* What was read before, if anything was, is what is read now.
Same(seen, now) == seen \in {0, now}

Holds(r, what) ==
  \/ what = "record" /\ RecordHolds
  \/ what = "runtime" /\ Prepared(review[r].id)
  \/ what = "launcher" /\ registration = adopted.digest /\ Same(review[r].launcher, launcher)
  \/ what = "registration" /\ registration = adopted.digest
  \/ what = "job" /\ Same(review[r].job, job)

BeginReview(r) ==
  /\ review[r].step = "idle"
  /\ \E id \in {i \in Inputs : runtimes[i].made}, reads \in {PairingReads, LaunchReads, LoadedReads} :
       review' = [review EXCEPT ![r] = [@ EXCEPT !.step = "reading", !.id = id, !.reads = reads]]
  /\ UNCHANGED <<launcher, job, edits>>

\* One reading; the first that is not as expected ends the review, and nothing is returned.
ReadNext(r) ==
  /\ review[r].step = "reading" /\ review[r].reads # <<>>
  /\ LET what == Head(review[r].reads) IN
     review' = IF Holds(r, what)
               THEN [review EXCEPT ![r].reads = Tail(@),
                                   ![r].launcher = IF what = "launcher" THEN launcher ELSE @,
                                   ![r].job = IF what = "job" THEN job ELSE @]
               ELSE [review EXCEPT ![r] = NotReviewing("failed")]
  /\ UNCHANGED <<launcher, job, edits>>

\* The helper that asks launchd does not answer in time, or says too much.
QueryFails(r) ==
  /\ review[r].step = "reading" /\ review[r].reads # <<>> /\ Head(review[r].reads) = "job"
  /\ review' = [review EXCEPT ![r] = NotReviewing("failed")]
  /\ UNCHANGED <<launcher, job, edits>>

EndReview(r) ==
  /\ review[r].step = "reading" /\ review[r].reads = <<>>
  /\ review' = [review EXCEPT ![r].step = "verified"]
  /\ UNCHANGED <<launcher, job, edits>>

ReviewStep(r) == BeginReview(r) \/ ReadNext(r) \/ QueryFails(r) \/ EndReview(r)

(* Everybody else *)

HostEdit ==
  /\ edits < HostEdits /\ edits' = edits + 1
  /\ \/ registration' = registration + 1 /\ UNCHANGED <<wheels, basePython, runtimes, launcher, job>>
     \/ wheels' = wheels + 1 /\ UNCHANGED <<registration, basePython, runtimes, launcher, job>>
     \/ basePython' = basePython + 1 /\ UNCHANGED <<registration, wheels, runtimes, launcher, job>>
     \/ launcher' = launcher + 1 /\ UNCHANGED <<registration, wheels, basePython, runtimes, job>>
     \/ job # registration /\ job' = registration
        /\ UNCHANGED <<registration, wheels, basePython, runtimes, launcher>>
     \/ \E id \in Inputs :
          /\ runtimes[id].manifest
          /\ runtimes' = [runtimes EXCEPT ![id].tree = "changed"]
          /\ UNCHANGED <<registration, wheels, basePython, launcher, job>>
  /\ UNCHANGED <<adopted, adoption, preparation, review>>

Together(id) == RecordHolds /\ Prepared(id)

RecordsNext ==
  /\ \/ (\E a \in Adopters : AdoptionStep(a)) /\ UNCHANGED <<runtimeVars, reviewVars>>
     \/ (\E p \in Preparers : PreparationStep(p)) /\ UNCHANGED <<adoptionVars, reviewVars>>
     \/ (\E r \in Reviewers : ReviewStep(r)) /\ UNCHANGED <<adoptionVars, runtimeVars>>
     \/ HostEdit
  /\ coexisted' = coexisted \cup
       {[id |-> id, launcher |-> launcher', job |-> job'] : id \in {i \in Inputs : Together(i)'}}

RecordsSpec == RecordsInit /\ [][RecordsNext]_recordsVars

RecordsTypeOK ==
  /\ {registration, wheels, basePython, launcher, job} \subseteq Versions
  /\ adopted \in Adoptions \cup {NoRecord}
  /\ \A a \in Adopters : adoption[a].expect \in 0..registration /\ adoption[a].temporary \in BOOLEAN
  /\ \A id \in Inputs : runtimes[id].wheels \in 0..wheels /\ runtimes[id].python \in 0..basePython
  /\ \A p \in Preparers : Target(p) \in Inputs
  /\ \A r \in Reviewers : review[r].launcher \in 0..launcher /\ review[r].job \in 0..job
  /\ edits \in 0..HostEdits

\* An adoption that says a record is written, or was there, is right about whose record it
\* is and what it says, whatever other adopters did, and however they ended.
AdoptionsTold ==
  \A a \in Adopters :
    /\ adoption[a].step \in {"already", "adopted", "outdated"} =>
         adopted # NoRecord /\ adopted.digest = adoption[a].expect
    /\ adoption[a].step \in {"adopted", "outdated"} => adopted.by = a

\* One process builds in a directory, and a runtime that counts as prepared was built from
\* the wheels and the interpreter that were reviewed.
PreparedAsReviewed ==
  /\ \A p, q \in Preparers :
       p # q /\ Target(p) = Target(q) =>
         ~ {preparation[p].step, preparation[q].step} \subseteq
             {"copying", "probing", "building", "observing", "recording"}
  /\ \A id \in Inputs :
       Prepared(id) => runtimes[id].wheels = id.wheels /\ runtimes[id].python = id.python

\* A review that succeeds has seen a moment: its record, registration and runtime, and the
\* launcher and the loaded job it compared, stood side by side at one time.
ReviewsSawAMoment ==
  \A r \in Reviewers :
    review[r].step = "verified" =>
      \E c \in coexisted :
        /\ c.id = review[r].id
        /\ Same(review[r].launcher, c.launcher)
        /\ Same(review[r].job, c.job)

RecordsSound == AdoptionsTold /\ PreparedAsReviewed /\ ReviewsSawAMoment

\* A record is never replaced or removed, and neither is a runtime's manifest or the inputs
\* it was built from: both are created once (deployment.py, runtime.py "create-only").
CreatedOnce ==
  [][/\ adopted # NoRecord => adopted' = adopted
     /\ \A id \in Inputs :
          runtimes[id].manifest =>
            /\ runtimes'[id].manifest
            /\ runtimes'[id].wheels = runtimes[id].wheels
            /\ runtimes'[id].python = runtimes[id].python]_recordsVars

=============================================================================
