------------------------------ MODULE Workspace ------------------------------
(***************************************************************************)
(* WorkspaceManager (workspace.py): one managed branch, the workspaces     *)
(* that are made for it, and the processes that commit, push, record and   *)
(* clean up.  The repository cache, the remote, a workspace's files and    *)
(* its saved state are changed one after another, so a call may be         *)
(* overtaken by another one, or end, between any two of its effects.       *)
(*                                                                         *)
(* A commit is the sequence of the trees committed since the base: its     *)
(* ancestors are its prefixes, and <<>> is the base itself.  Files are     *)
(* abstracted to a tree, so a workspace is dirty when its tree is not the  *)
(* one at the tip.  The per-workspace lock is used as FileLock promises.   *)
(***************************************************************************)
EXTENDS Naturals, FiniteSets, SequencesExt

CONSTANTS
  Ids,          \* workspace ids
  Callers,      \* processes that run the manager, one call at a time each
  Trees,
  BaseTree,     \* the tree at the base
  Root,         \* marks a history that does not start at the base
  Absent,
  MaxHistory,   \* bound on the commits above the base
  MaxPublished, \* bound on the tips of the server to which others add
  MaxAttempts,  \* MAX_ATTEMPTS: how many attempts a state keeps
  MaxCalls,     \* bound on the calls that begin
  MrAnswers     \* whether a push that asks for a merge request learns its URL

\* A history that does not start at the base has at least one tree.
Histories == {h \in Seq(Trees \cup {Root}) : h = <<>> \/ Last(h) \in Trees}

\* A merge request is known only of a branch that was pushed.
States == {s \in [pushed : BOOLEAN, mr : BOOLEAN, attempts : 0..MaxAttempts] : s.mr => s.pushed}

ASSUME WorkspaceAssumption ==
  /\ BaseTree \in Trees
  /\ Root \notin Trees
  /\ Absent \notin Callers \cup Ids \cup Trees \cup States \cup Seq(Trees \cup {Root})
  /\ MaxHistory \in Nat
  /\ MaxPublished \in Nat
  /\ MaxAttempts \in Nat
  /\ MaxCalls \in Nat
  /\ MrAnswers \subseteq BOOLEAN

VARIABLES
  branch,     \* refs/heads/<branch> of the repository cache
  remote,     \* the branch on the server
  published,  \* history: every tip the server has had
  tree,       \* the files of each workspace, Absent without a worktree
  saved,      \* the state file of each workspace
  lock,       \* who holds mutation_lock of each workspace
  call,       \* what each caller is doing
  begun       \* the number of calls that have begun

repoVars == <<branch, remote, published, tree>>
workspaceVars == <<branch, remote, published, tree, saved, lock, call, begun>>

NewState == [pushed |-> FALSE, mr |-> FALSE, attempts |-> 0]

Points == {"idle",
           "add new", "fetch", "look", "replace", "add",
           "commit", "check push", "check push-mr", "push", "push-mr", "save",
           "check", "probe", "recheck", "remove", "drop", "forget"}

\* The locals of one call.
Calls == [at : Points,
          ws : Ids \cup {Absent},
          state : States \cup {Absent},      \* what get_state returned, as changed since
          head : Histories \cup {Absent},    \* the local commit that was looked at
          target : Histories \cup {Absent},  \* the fetched commit to check out
          dirty : BOOLEAN,                   \* the status that was looked at
          force : BOOLEAN]

NoCall(at) == [at |-> at, ws |-> Absent, state |-> Absent, head |-> Absent,
               target |-> Absent, dirty |-> FALSE, force |-> FALSE]

WorkspaceTypeOK ==
  /\ branch \in Histories \cup {Absent}
  /\ remote \in Histories \cup {Absent}
  /\ published \subseteq Histories
  /\ tree \in [Ids -> Trees \cup {Absent}]
  /\ saved \in [Ids -> States \cup {Absent}]
  /\ lock \in [Ids -> Callers \cup {Absent}]
  /\ call \in [Callers -> Calls]
  /\ begun \in 0..MaxCalls

-----------------------------------------------------------------------------
\* The tree at a commit.
TipTree(h) == IF h = <<>> THEN BaseTree ELSE Last(h)

\* A workspace whose branch is gone has no commit: what it commits starts a history.
Onto(h) == IF h = Absent THEN <<Root>> ELSE h

Dirty(w) == ~(branch # Absent /\ tree[w] = TipTree(branch))

\* merge-base --is-ancestor
IsAncestor(h, g) == h # Absent /\ g # Absent /\ IsPrefix(h, g)

\* A commit that the server has had.
WasPublished(h) == \E g \in published : IsPrefix(h, g)

Free(p) == call[p].at = "idle"
At(p, at) == call[p].at = at
Goto(p, at) == call' = [call EXCEPT ![p].at = at]

Unlocked(p) == [w \in Ids |-> IF lock[w] = p THEN Absent ELSE lock[w]]

\* A call ends, and so does its use of the lock.
End(p) ==
  /\ call' = [call EXCEPT ![p] = NoCall("idle")]
  /\ lock' = Unlocked(p)

\* Mutant: the call does not wait for the lock.
FaultyBegin(p, w, at, state, force) ==
  /\ Free(p)
  /\ saved[w] # Absent
  /\ call' = [call EXCEPT ![p] = [NoCall(at) EXCEPT !.ws = w, !.state = state, !.force = force]]
  /\ UNCHANGED <<repoVars, saved, lock>>

\* _locked_workspace_mutation and get_state at the head of a call.
Begin(p, w, at, state, force) ==
  /\ Free(p)
  /\ lock[w] = Absent
  /\ saved[w] # Absent
  /\ lock' = [lock EXCEPT ![w] = p]
  /\ call' = [call EXCEPT ![p] = [NoCall(at) EXCEPT !.ws = w, !.state = state, !.force = force]]
  /\ UNCHANGED <<repoVars, saved>>

\* A call raises at any point, or its process ends; the lock goes with either.
Fail(p) ==
  /\ ~Free(p)
  /\ End(p)
  /\ UNCHANGED <<repoVars, saved>>

\* _save_state: the file is replaced at once.
Save(p) ==
  /\ At(p, "save")
  /\ saved' = [saved EXCEPT ![call[p].ws] = call[p].state]
  /\ End(p)
  /\ UNCHANGED repoVars

-----------------------------------------------------------------------------
(* create_workspace and checkout_remote_branch take no lock.  The id is new.  *)

Unused(w) ==
  /\ saved[w] = Absent
  /\ tree[w] = Absent
  /\ \A p \in Callers : call[p].ws # w

BeginCreate(p, w) ==
  /\ Free(p)
  /\ Unused(w)
  /\ branch = Absent /\ remote = Absent   \* the name of the branch is new as well
  /\ call' = [call EXCEPT ![p] = [NoCall("add new") EXCEPT !.ws = w, !.state = NewState]]
  /\ UNCHANGED <<repoVars, saved, lock>>

\* git worktree add -b
AddNew(p) ==
  /\ At(p, "add new")
  /\ branch = Absent
  /\ branch' = <<>>
  /\ tree' = [tree EXCEPT ![call[p].ws] = BaseTree]
  /\ Goto(p, "save")
  /\ UNCHANGED <<remote, published, saved, lock>>

BeginCheckout(p, w, mr) ==
  /\ Free(p)
  /\ Unused(w)
  /\ call' = [call EXCEPT ![p] = [NoCall("fetch") EXCEPT !.ws = w,
                                  !.state = [pushed |-> TRUE, mr |-> mr, attempts |-> 0]]]
  /\ UNCHANGED <<repoVars, saved, lock>>

Fetch(p) ==
  /\ At(p, "fetch")
  /\ remote # Absent
  /\ call' = [call EXCEPT ![p] = [call[p] EXCEPT !.at = "look", !.target = remote]]
  /\ UNCHANGED <<repoVars, saved, lock>>

CheckedOut == \E w \in Ids : tree[w] # Absent

\* A branch that is left over may be replaced if nobody uses it and all of it is published.
Replaceable(h) == ~CheckedOut /\ IsAncestor(branch, h)

Look(p) ==
  /\ At(p, "look")
  /\ \/ branch = Absent /\ Goto(p, "add")
     \/ /\ branch # Absent
        /\ Replaceable(call[p].target)
        /\ call' = [call EXCEPT ![p] = [call[p] EXCEPT !.at = "replace", !.head = branch]]
  /\ UNCHANGED <<repoVars, saved, lock>>

\* update-ref -d deletes the branch only if it is still where it was seen.
DeleteBranch(p) == branch = call[p].head /\ branch' = Absent

Replace(p) ==
  /\ At(p, "replace")
  /\ DeleteBranch(p)
  /\ Goto(p, "add")
  /\ UNCHANGED <<remote, published, tree, saved, lock>>

\* git worktree add -b creates the branch, and fails then if a worktree is already on it.
Add(p) ==
  /\ At(p, "add")
  /\ branch = Absent
  /\ branch' = call[p].target
  /\ IF CheckedOut
       THEN End(p) /\ UNCHANGED tree
       ELSE /\ tree' = [tree EXCEPT ![call[p].ws] = TipTree(call[p].target)]
            /\ Goto(p, "save")
            /\ UNCHANGED lock
  /\ UNCHANGED <<remote, published, saved>>

-----------------------------------------------------------------------------
(* The calls under the lock of the workspace. *)

\* Mutant: the attempts are not bounded.
FaultyKept(n) == n

\* bounded_attempts keeps the last ones.
Kept(n) == IF n < MaxAttempts THEN n ELSE MaxAttempts

\* record_attempt: the state file is enough.
BeginRecord(p, w) ==
  /\ saved[w] # Absent
  /\ Begin(p, w, "save", [saved[w] EXCEPT !.attempts = Kept(saved[w].attempts + 1)], FALSE)

\* _worktree: what else is under the lock needs the worktree.
HasWorktree(w) == tree[w] # Absent

BeginCommit(p, w) == HasWorktree(w) /\ Begin(p, w, "commit", saved[w], FALSE)

\* git add -A, the check that something is staged, and git commit.
CommitTree(w) ==
  /\ Dirty(w)
  /\ Len(Onto(branch)) < MaxHistory
  /\ branch' = Append(Onto(branch), tree[w])
  /\ UNCHANGED <<remote, published, tree>>

Commit(p) ==
  /\ At(p, "commit")
  /\ CommitTree(call[p].ws)
  /\ Goto(p, "save")
  /\ UNCHANGED <<saved, lock>>

BeginPush(p, w) == HasWorktree(w) /\ Begin(p, w, "check push", saved[w], FALSE)

\* push_and_create_mr is for the first push only.
BeginPushMr(p, w) ==
  /\ HasWorktree(w)
  /\ saved[w] # Absent /\ ~saved[w].pushed
  /\ Begin(p, w, "check push-mr", saved[w], FALSE)

\* _assert_pushable
CheckPush(p, from, to) ==
  /\ At(p, from)
  /\ ~Dirty(call[p].ws)
  /\ Len(branch) > 0
  /\ Goto(p, to)
  /\ UNCHANGED <<repoVars, saved, lock>>

\* git push of the branch as it is now; the server takes it as a fast-forward only.
Send(p, mr) ==
  /\ branch # Absent
  /\ remote = Absent \/ IsAncestor(remote, branch)
  /\ remote' = branch
  /\ published' = published \cup {branch}
  /\ call' = [call EXCEPT ![p] =
       [call[p] EXCEPT !.at = "save",
                       !.state = [call[p].state EXCEPT !.pushed = TRUE, !.mr = mr]]]
  /\ UNCHANGED <<branch, tree, saved, lock>>

Push(p) == At(p, "push") /\ Send(p, call[p].state.mr)

\* The answer may hold the URL of the merge request or not.
PushMr(p) == At(p, "push-mr") /\ \E mr \in MrAnswers : Send(p, mr)

-----------------------------------------------------------------------------
(* cleanup *)

BeginCleanup(p, w, force) == HasWorktree(w) /\ Begin(p, w, "check", saved[w], force)

\* The state of the branch and the files, and what it takes to remove them unforced.
Check(p) ==
  /\ At(p, "check")
  /\ branch # Absent
  /\ call[p].force \/ ~Dirty(call[p].ws)
  /\ call' = [call EXCEPT ![p] =
       [call[p] EXCEPT !.at = IF ~call[p].force /\ Len(branch) > 0 THEN "probe" ELSE "recheck",
                       !.head = branch,
                       !.dirty = Dirty(call[p].ws)]]
  /\ UNCHANGED <<repoVars, saved, lock>>

\* Mutant: that the branch was pushed once counts as publication.
FaultyProbe(p) ==
  /\ At(p, "probe")
  /\ call[p].state.pushed
  /\ Goto(p, "recheck")
  /\ UNCHANGED <<repoVars, saved, lock>>

\* _fetch_published_tip: only what the server has now counts as published.
Probe(p) ==
  /\ At(p, "probe")
  /\ IsAncestor(call[p].head, remote)
  /\ Goto(p, "recheck")
  /\ UNCHANGED <<repoVars, saved, lock>>

Recheck(p) ==
  /\ At(p, "recheck")
  /\ saved[call[p].ws] = call[p].state
  /\ branch = call[p].head
  /\ Dirty(call[p].ws) = call[p].dirty
  /\ Goto(p, "remove")
  /\ UNCHANGED <<repoVars, saved, lock>>

\* git worktree remove refuses by itself to remove a dirty one unless forced.
RemoveWorktree(p) ==
  /\ At(p, "remove")
  /\ call[p].force \/ ~Dirty(call[p].ws)
  /\ tree' = [tree EXCEPT ![call[p].ws] = Absent]
  /\ Goto(p, "drop")
  /\ UNCHANGED <<branch, remote, published, saved, lock>>

\* Mutant: a branch that has moved is left, and the call goes on.
FaultyDrop(p) ==
  /\ At(p, "drop")
  /\ branch' = IF branch = call[p].head THEN Absent ELSE branch
  /\ Goto(p, "forget")
  /\ UNCHANGED <<remote, published, tree, saved, lock>>

Drop(p) ==
  /\ At(p, "drop")
  /\ DeleteBranch(p)
  /\ Goto(p, "forget")
  /\ UNCHANGED <<remote, published, tree, saved, lock>>

Forget(p) ==
  /\ At(p, "forget")
  /\ saved' = [saved EXCEPT ![call[p].ws] = Absent]
  /\ End(p)
  /\ UNCHANGED repoVars

-----------------------------------------------------------------------------
(* Who else changes the files, the branch and the server: the worker and the *)
(* people, who know a workspace by its state, and take no lock.               *)

Known(w) == saved[w] # Absent /\ tree[w] # Absent

\* write_file and apply_patch write under the lock; the worker does without it.
Edit(w) ==
  /\ Known(w)
  /\ \E t \in Trees \ {tree[w]} : tree' = [tree EXCEPT ![w] = t]
  /\ UNCHANGED <<branch, remote, published, saved, lock, call>>

\* git commit in the worktree
DirectCommit(w) ==
  /\ Known(w)
  /\ CommitTree(w)
  /\ UNCHANGED <<saved, lock, call>>

OthersPush ==
  /\ remote # Absent
  /\ Len(remote) < MaxHistory /\ Cardinality(published) < MaxPublished
  /\ \E t \in Trees \ {TipTree(remote)} :
       /\ remote' = Append(remote, t)
       /\ published' = published \cup {remote'}
  /\ UNCHANGED <<branch, tree, saved, lock, call>>

\* A merged branch is deleted on the server.
OthersDelete ==
  /\ remote # Absent
  /\ remote' = Absent
  /\ UNCHANGED <<branch, published, tree, saved, lock, call>>

-----------------------------------------------------------------------------
\* The cache is new, or was cloned when the branch was already on the server.
WorkspaceInit ==
  /\ \/ branch = Absent /\ published = {<<>>}
     \/ \E t \in Trees \ {BaseTree} : branch = <<t>> /\ published = {<<>>, <<t>>}
  /\ remote = branch
  /\ tree = [w \in Ids |-> Absent]
  /\ saved = [w \in Ids |-> Absent]
  /\ lock = [w \in Ids |-> Absent]
  /\ call = [p \in Callers |-> NoCall("idle")]
  /\ begun = 0

BeginCall(p, w) ==
  /\ begun < MaxCalls
  /\ begun' = begun + 1
  /\ \/ BeginCreate(p, w)
     \/ \E mr \in MrAnswers : BeginCheckout(p, w, mr)
     \/ BeginRecord(p, w)
     \/ BeginCommit(p, w)
     \/ BeginPush(p, w)
     \/ BeginPushMr(p, w)
     \/ \E force \in BOOLEAN : BeginCleanup(p, w, force)

CallStep(p) ==
  \/ AddNew(p) \/ Fetch(p) \/ Look(p) \/ Replace(p) \/ Add(p)
  \/ Commit(p)
  \/ CheckPush(p, "check push", "push") \/ CheckPush(p, "check push-mr", "push-mr")
  \/ Push(p) \/ PushMr(p)
  \/ Check(p) \/ Probe(p) \/ Recheck(p) \/ RemoveWorktree(p) \/ Drop(p) \/ Forget(p)
  \/ Save(p)
  \/ Fail(p)

Surroundings ==
  \/ \E w \in Ids : Edit(w) \/ DirectCommit(w)
  \/ OthersPush
  \/ OthersDelete

WorkspaceNext ==
  \/ \E p \in Callers, w \in Ids : BeginCall(p, w)
  \/ (\E p \in Callers : CallStep(p)) /\ UNCHANGED begun
  \/ Surroundings /\ UNCHANGED begun

WorkspaceSpec == WorkspaceInit /\ [][WorkspaceNext]_workspaceVars

-----------------------------------------------------------------------------
(* Properties *)

\* A call that gives work up for lost: clean-up --force.
Forced(p) == ~Free(p) /\ call[p].force

\* No step loses work unless a forced clean-up was asked for: a commit leaves the
\* local branch only when the server has had it, and files go only when they are
\* the committed ones (cleanup and checkout_remote_branch against each other, the
\* worker, the server, and calls that end half-way).
WorkSurvives ==
  [][\/ \E p \in Callers : Forced(p) /\ call'[p] # call[p]
     \/ /\ branch # Absent /\ ~IsAncestor(branch, branch') => WasPublished(branch)
        /\ \A w \in Ids : tree[w] # Absent /\ tree'[w] = Absent => ~Dirty(w)
    ]_workspaceVars

\* A branch with unpublished commits always has a state file that names it, so that it
\* can be found, whatever creation, checkout and clean-up left half-done.
WorkIsNamed ==
  branch # Absent /\ ~WasPublished(branch) => \E w \in Ids : saved[w] # Absent

\* What a state file records is not lost by another call that saves what it read
\* earlier: attempts are not dropped, nor the fact that the branch was pushed or
\* its merge request (the reads and saves of record_attempt, commit and the pushes).
StateNeverGoesBack ==
  [][\A w \in Ids : saved[w] # Absent /\ saved'[w] # Absent =>
       /\ saved[w].attempts <= saved'[w].attempts
       /\ saved[w].pushed => saved'[w].pushed
       /\ saved[w].mr => saved'[w].mr]_workspaceVars

\* What checkout_remote_branch says it refuses (workspace.py:828): the branch of a
\* workspace is not deleted while its worktree is there.
CheckedOutBranchStays ==
  [][branch # Absent /\ CheckedOut => branch' # Absent \/ ~CheckedOut']_workspaceVars

=============================================================================
