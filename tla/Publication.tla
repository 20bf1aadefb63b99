------------------------------ MODULE Publication ------------------------------
(***************************************************************************)
(* The reviewed publication of a local workspace: the finish plan and its  *)
(* execution (finish.py), reached through the preview and finish of the    *)
(* bridge (controller.py) and the finish command (cli.py), on top of the   *)
(* workspaces.                                                             *)
(*                                                                         *)
(* A plan reads the state, runs the validations, and then reads the        *)
(* status, the paths that changed and the diff that is scanned, one after  *)
(* another.  None of this holds the lock of the workspace; the commit and  *)
(* the push that follow take it once each.  A person may override the gate *)
(* of protected paths and that of secrets.  The other gates (validations,  *)
(* reviewability, coverage) may stop a plan or not.                        *)
(***************************************************************************)
EXTENDS Workspace

CONSTANTS
  Finishers, \* the callers that preview and finish
  Secret,    \* trees in which the scan finds a secret
  Paths,     \* the paths of the project
  Guarded,   \* the protected ones
  Changes,   \* the paths in which each tree differs from the base
  Allowed,   \* the sets of overrides that people ask for
  MaxPlans   \* bound on the plans that are built

\* The trees that change a protected path of the base.
Protected == {t \in Trees : Changes[t] \cap Guarded # {}}

\* allow_protected, allow_secret_match
Overrides == {"protected", "secret"}

ASSUME PublicationAssumption ==
  /\ Finishers \subseteq Callers
  /\ Secret \subseteq Trees
  /\ Changes \in [Trees -> SUBSET Paths] /\ Changes[BaseTree] = {}
  /\ Allowed \subseteq SUBSET Overrides
  /\ MaxPlans \in Nat

VARIABLES
  plan,      \* the plan each caller is building or executing
  preview,   \* local_finish_preview of the session of each workspace
  planned,   \* the number of plans that were begun
  disturbed  \* history: the callers that rely on what has changed since they compared it

publicationVars == <<workspaceVars, plan, preview, planned, disturbed>>

Stages == {"none", "validate", "status", "paths", "scan", "gates",
           "check status", "check diff", "commit", "committing", "push", "pushing"}

\* The snapshot whose digest is compared.
Snapshots == [head : Histories, dirty : BOOLEAN, porcelain : SUBSET Paths, scanned : Trees,
              pushed : BOOLEAN, mr : BOOLEAN]

\* What a preview records, and a finish of the bridge must agree with.
Previews == [snapshot : Snapshots, allowed : SUBSET Overrides]

Kinds == {"preview", "bridge", "cli"}

Plans == [stage : Stages,
          kind : Kinds,
          ws : Ids \cup {Absent},
          allowed : SUBSET Overrides,
          listed : Trees \cup {Absent},          \* the files when their paths were listed
          read : [head : Histories \cup {Absent}, dirty : BOOLEAN, porcelain : SUBSET Paths,
                  scanned : Trees \cup {Absent}, pushed : BOOLEAN, mr : BOOLEAN],
          approved : Snapshots \cup {Absent}]    \* what a person has approved

NothingRead == [head |-> Absent, dirty |-> FALSE, porcelain |-> {}, scanned |-> Absent,
                pushed |-> FALSE, mr |-> FALSE]

NoPlan == [stage |-> "none", kind |-> "cli", ws |-> Absent, allowed |-> {}, listed |-> Absent,
           read |-> NothingRead, approved |-> Absent]

PublicationTypeOK ==
  /\ plan \in [Callers -> Plans]
  /\ preview \in [Ids -> Previews \cup {Absent}]
  /\ planned \in 0..MaxPlans
  /\ disturbed \subseteq Callers

-----------------------------------------------------------------------------
Planning(p) == plan[p].stage # "none"
Ws(p) == plan[p].ws

\* Within commit or push, which are calls of the workspace.
Calling(p) == plan[p].stage \in {"committing", "pushing"}

\* Relying on what was compared last.
Relying(p) == Calling(p) \/ plan[p].stage \in {"check diff", "commit", "push"}

Stage(p, s) == plan[p].stage = s
Set(p, r) == plan' = [plan EXCEPT ![p] = r]

-----------------------------------------------------------------------------
(* build_finish_plan *)

\* The bridge takes a digest for approved only if it is that of the latest preview, made
\* with the same overrides.
BeginPlan(p, w, kind, allowed) ==
  /\ ~Planning(p) /\ Free(p)
  /\ planned < MaxPlans
  /\ Known(w)
  /\ kind = "bridge" => preview[w] # Absent /\ preview[w].allowed = allowed
  /\ plan' = [plan EXCEPT ![p] =
       [NoPlan EXCEPT !.stage = "validate", !.kind = kind, !.ws = w, !.allowed = allowed,
                      !.approved = IF kind = "bridge" THEN preview[w].snapshot ELSE Absent,
                      !.read.pushed = saved[w].pushed, !.read.mr = saved[w].mr]]
  /\ planned' = planned + 1
  /\ UNCHANGED <<workspaceVars, preview>>

\* The validations pass.  They hold the lock while they run, and may write files.
Validate(p) ==
  /\ Stage(p, "validate")
  /\ Known(Ws(p))
  /\ lock[Ws(p)] = Absent
  /\ \E t \in Trees : tree' = [tree EXCEPT ![Ws(p)] = t]
  /\ Set(p, [plan[p] EXCEPT !.stage = "status"])
  /\ UNCHANGED <<branch, remote, published, saved, lock, call, begun, preview, planned>>

\* git status --porcelain: the paths in which the files differ from the commit.
Porcelain(w) ==
  {x \in Paths : (x \in Changes[tree[w]]) # (x \in Changes[TipTree(branch)])}

ReadStatus(p) ==
  /\ Stage(p, "status")
  /\ Known(Ws(p))
  /\ branch # Absent
  /\ Set(p, [plan[p] EXCEPT !.stage = "paths", !.read.head = branch,
                               !.read.dirty = Dirty(Ws(p)),
                               !.read.porcelain = Porcelain(Ws(p))])
  /\ UNCHANGED <<workspaceVars, preview, planned>>

\* changed_paths
ReadPaths(p) ==
  /\ Stage(p, "paths")
  /\ Known(Ws(p))
  /\ Set(p, [plan[p] EXCEPT !.stage = "scan", !.listed = tree[Ws(p)]])
  /\ UNCHANGED <<workspaceVars, preview, planned>>

\* Mutant: the plan does without the scan.
FaultyReadScanned(p) ==
  /\ Stage(p, "scan")
  /\ Known(Ws(p))
  /\ Set(p, [plan[p] EXCEPT !.stage = "gates"])
  /\ UNCHANGED <<workspaceVars, preview, planned>>

\* security_diff
ReadScanned(p) ==
  /\ Stage(p, "scan")
  /\ Known(Ws(p))
  /\ Set(p, [plan[p] EXCEPT !.stage = "gates", !.read.scanned = tree[Ws(p)]])
  /\ UNCHANGED <<workspaceVars, preview, planned>>

\* scan_history_secrets: no commit since the base adds a secret.
CleanHistory(h) == \A i \in 1..Len(h) : h[i] \notin Secret

\* Mutant: the gate of protected paths is left out.
FaultyGatesPass(r) ==
  "secret" \in r.allowed \/ (r.read.scanned \notin Secret /\ CleanHistory(r.read.head))

\* evaluate_review_gates: protected paths by what was listed, secrets by what was scanned.
GatesPass(r) ==
  /\ "protected" \in r.allowed \/ r.listed \notin Protected
  /\ "secret" \in r.allowed \/ (r.read.scanned \notin Secret /\ CleanHistory(r.read.head))

\* The plan has no blockers.
Passes(r) ==
  /\ GatesPass(r)
  /\ r.read.dirty \/ Len(r.read.head) > 0
  /\ r.read.pushed => r.read.mr

\* finish_preview records what it found; a blocked preview cannot be approved.
RecordPreview(p) ==
  /\ Stage(p, "gates")
  /\ plan[p].kind = "preview"
  /\ Set(p, NoPlan)
  /\ \E ok \in BOOLEAN :
       /\ ok => Passes(plan[p])
       /\ preview' = [preview EXCEPT ![Ws(p)] =
            IF ok THEN [snapshot |-> plan[p].read, allowed |-> plan[p].allowed] ELSE Absent]
  /\ UNCHANGED <<workspaceVars, planned>>

\* The bridge compares the new plan with the approved one; on the command line a
\* person approves the plan itself.
Approve(p) ==
  /\ Stage(p, "gates")
  /\ Passes(plan[p])
  /\ \/ plan[p].kind = "bridge" /\ plan[p].read = plan[p].approved
     \/ plan[p].kind = "cli"
  /\ Set(p, [plan[p] EXCEPT !.stage = "check status", !.approved = plan[p].read])
  /\ UNCHANGED <<workspaceVars, preview, planned>>

-----------------------------------------------------------------------------
(* execute_finish *)

SameState(w, read) == saved[w].pushed = read.pushed /\ saved[w].mr = read.mr

CheckStatus(p) ==
  /\ Stage(p, "check status")
  /\ Known(Ws(p))
  /\ branch = plan[p].read.head
  /\ Dirty(Ws(p)) = plan[p].read.dirty
  /\ Porcelain(Ws(p)) = plan[p].read.porcelain
  /\ SameState(Ws(p), plan[p].read)
  /\ Set(p, [plan[p] EXCEPT !.stage = "check diff"])
  /\ UNCHANGED <<workspaceVars, preview, planned>>

\* Mutant: only the status is compared.
FaultyCheckDiff(p) ==
  /\ Stage(p, "check diff")
  /\ Known(Ws(p))
  /\ Set(p, [plan[p] EXCEPT !.stage = IF plan[p].read.dirty THEN "commit" ELSE "push"])
  /\ UNCHANGED <<workspaceVars, preview, planned>>

CheckDiff(p) ==
  /\ Stage(p, "check diff")
  /\ Known(Ws(p))
  /\ tree[Ws(p)] = plan[p].read.scanned
  /\ Set(p, [plan[p] EXCEPT !.stage = IF plan[p].read.dirty THEN "commit" ELSE "push"])
  /\ UNCHANGED <<workspaceVars, preview, planned>>

CountCall == begun < MaxCalls /\ begun' = begun + 1

StartCommit(p) ==
  /\ Stage(p, "commit")
  /\ CountCall
  /\ BeginCommit(p, Ws(p))
  /\ Set(p, [plan[p] EXCEPT !.stage = "committing"])
  /\ UNCHANGED <<preview, planned>>

\* The plan says whether this is the first push, which asks for a merge request.
StartPush(p) ==
  /\ Stage(p, "push")
  /\ CountCall
  /\ IF plan[p].read.pushed THEN BeginPush(p, Ws(p)) ELSE BeginPushMr(p, Ws(p))
  /\ Set(p, [plan[p] EXCEPT !.stage = "pushing"])
  /\ UNCHANGED <<preview, planned>>

\* A step of the commit or of the push that leaves it under way.
StayInCall(p) ==
  /\ Calling(p)
  /\ \/ Commit(p)
     \/ CheckPush(p, "check push", "push") \/ CheckPush(p, "check push-mr", "push-mr")
     \/ Push(p) \/ PushMr(p)
  /\ Set(p, plan[p])
  /\ UNCHANGED <<begun, preview, planned>>

LeaveCall(p) ==
  /\ Calling(p)
  /\ Save(p)
  /\ Set(p, IF plan[p].stage = "committing" THEN [plan[p] EXCEPT !.stage = "push"] ELSE NoPlan)
  /\ UNCHANGED <<begun, preview, planned>>

\* A comparison fails, the plan is blocked or refused, a call raises, or the process ends.
GiveUp(p) ==
  /\ Planning(p)
  /\ IF Calling(p) THEN Fail(p) /\ UNCHANGED begun ELSE UNCHANGED workspaceVars
  /\ Set(p, NoPlan)
  /\ UNCHANGED <<preview, planned>>

PlanStep(p) ==
  \/ \E w \in Ids, kind \in Kinds, allowed \in Allowed : BeginPlan(p, w, kind, allowed)
  \/ Validate(p) \/ ReadStatus(p) \/ ReadPaths(p) \/ ReadScanned(p)
  \/ RecordPreview(p) \/ Approve(p)
  \/ CheckStatus(p) \/ CheckDiff(p)
  \/ StartCommit(p) \/ StartPush(p) \/ StayInCall(p) \/ LeaveCall(p)
  \/ GiveUp(p)

-----------------------------------------------------------------------------
\* The workspace has just been created, or checked out with its merge request.
PublicationInit ==
  /\ \/ branch = <<>> /\ remote = Absent
     \/ \E t \in Trees \ {BaseTree} : branch = <<t>> /\ remote = branch
  /\ published = {<<>>, branch}
  /\ \E own \in Ids :
       /\ tree = [w \in Ids |-> IF w = own THEN TipTree(branch) ELSE Absent]
       /\ saved = [w \in Ids |-> IF w # own THEN Absent ELSE
            [pushed |-> remote # Absent, mr |-> remote # Absent, attempts |-> 0]]
  /\ lock = [w \in Ids |-> Absent]
  /\ call = [p \in Callers |-> NoCall("idle")]
  /\ begun = 0
  /\ plan = [p \in Callers |-> NoPlan]
  /\ preview = [w \in Ids |-> Absent]
  /\ planned = 0
  /\ disturbed = {}

\* What is not part of a plan: other calls, the worker and the people.  What others do
\* on the server can only make a push fail, which it may do in any case.
Elsewhere ==
  /\ \/ \E p \in Callers, w \in Ids :
          /\ ~Planning(p)
          /\ BeginCall(p, w)
     \/ \E p \in Callers : ~Planning(p) /\ CallStep(p) /\ UNCHANGED begun
     \/ (\E w \in Ids : Edit(w)) /\ UNCHANGED begun
  /\ UNCHANGED <<plan, preview, planned>>

\* A step that changes the files or the branch disturbs those who rely on them.
Disturb(others) ==
  disturbed' = {q \in Callers :
    /\ Relying(q)'
    /\ \/ q \in disturbed
       \/ q \in others /\ (branch' # branch \/ tree'[Ws(q)] # tree[Ws(q)])}

PublicationNext ==
  \/ Elsewhere /\ Disturb(Callers)
  \/ \E p \in Finishers : PlanStep(p) /\ Disturb(Callers \ {p})

PublicationSpec == PublicationInit /\ [][PublicationNext]_publicationVars

-----------------------------------------------------------------------------
(* Properties *)

\* The commit that was reviewed as snapshot s.
Reviewed(s) == IF s.dirty THEN Append(s.head, s.scanned) ELSE s.head

\* A finish moves the branch on the server.
Publishes(p) ==
  /\ plan[p].stage = "pushing"
  /\ call[p].at \in {"push", "push-mr"} /\ call'[p].at = "save"
  /\ remote' # remote

\* Unless the files or the branch change after its last comparison, what a finish
\* publishes is the commit that was approved, and no commit of it holds a secret that the
\* scan finds, unless the person said so (build_finish_plan, finish and execute_finish against
\* the worker, validations, other finishes, and retries after a commit or a push that failed).
PublishedAsReviewed ==
  [][\A p \in Callers : Publishes(p) /\ p \notin disturbed =>
       /\ remote' = Reviewed(plan[p].approved)
       /\ "secret" \in plan[p].allowed \/ CleanHistory(remote')]_publicationVars

\* A finish whose files stayed the same between the listing of the paths and the scan, and
\* that is not disturbed after its last comparison, publishes a change of a protected path
\* only if the person allowed it: the tip that goes to the server is the tree that was
\* listed, whatever the worker did between the other readings (build_finish_plan, the
\* comparison of execute_finish, and the clean worktree that a push asks for).
GatesHonoured ==
  [][\A p \in Callers :
       /\ Publishes(p)
       /\ p \notin disturbed
       /\ plan[p].listed = plan[p].read.scanned
       /\ TipTree(remote') \in Protected
       => "protected" \in plan[p].allowed]_publicationVars

\* What docs/CHAT_ONLY_PRACTICE.md:215 says of finish: what is published is what was
\* approved, and a change after the review is refused.
OnlyReviewedPublished ==
  [][\A p \in Callers : Publishes(p) => remote' = Reviewed(plan[p].approved)]_publicationVars

=============================================================================
