------------------------- MODULE RemotePublication -------------------------
(***************************************************************************)
(* A workspace on an SSH host and how its changes get to the remote        *)
(* repository: remote_workspace.RemoteWorkspaceManager with the parts of   *)
(* bridge_preview/controller.py that call it (prepare, the dynamic tools,  *)
(* _remote_finish_plan and authorize_push).                                *)
(*                                                                         *)
(* Every operation is a script sent to the host by _ssh.  The Bridge holds *)
(* a lock of its own during a change, but the lock is not on the host: the *)
(* caller of a script may give up on it (a timeout, a lost connection, the *)
(* Bridge's restart) and the script runs all the same, at any later time.  *)
(* People and agents on the host edit, commit and change the push URL with *)
(* no lock at all.                                                         *)
(*                                                                         *)
(* A commit is its number; its content stands for the whole tree.  Reading *)
(* tools change nothing and take no lock: they have no action here.        *)
(***************************************************************************)
EXTENDS Naturals, Sequences, FiniteSets

CONSTANTS
  Calls,         \* the Bridge's threads that serve calls
  Nobody,        \* no call holds the lock
  Contents,      \* what a candidate may contain
  BaseContent,   \* what the pinned base contains
  SecretContent, \* the contents in which the scan finds a secret
  Urls,          \* the push URLs origin may have
  CredentialUrls, \* those of the GitLab host whose credential may be forwarded
  OutsideBound,  \* changes made on the host, not through the Bridge
  LossBound,     \* timeouts, lost connections and restarts
  ApprovalBound, \* approvals given
  CommitBound    \* commits made

ASSUME ContentAssumption == BaseContent \in Contents /\ SecretContent \subseteq Contents
ASSUME UrlAssumption == CredentialUrls \subseteq Urls
ASSUME CallAssumption == Nobody \notin Calls
ASSUME RemoteBoundAssumption ==
  /\ OutsideBound \in Nat /\ LossBound \in Nat
  /\ ApprovalBound \in Nat /\ CommitBound \in Nat

VARIABLES
  recorded,      \* the Bridge has a record of the workspace
  content,       \* the content of the worktree
  commits,       \* every commit made: its content, its parent, its ancestors, its approval
  head,          \* the branch of the worktree, 0 while there is none
  originUrl,     \* the URL a push to origin would use
  published,     \* the tip of the branch at each URL, 0 when it is not there
  approvalsGiven, \* every approval ever given
  approval,      \* session["push_approval"]: the number of one of them, or 0
  lastPush,      \* session["last_push"]: a commit, or 0
  lockHolder,    \* who holds the Bridge's lock of this workspace
  at,            \* where each call is
  script,        \* the script each call has sent
  remoteWire,    \* what became of it: "none", "sent", "ok" or "failed"
  strays,        \* the scripts whose caller is gone and that have not run
  mine,          \* per call, the approval read before the lock was asked for
  snap,          \* per call, the snapshot it took or the commit its script printed
  retried,       \* per call, the push was already repeated with the credential
  outside, losses

hostVars == <<content, commits, head, originUrl, published>>
storeVars == <<recorded, approvalsGiven, approval, lastPush>>
sshVars == <<script, remoteWire, strays>>
callVars == <<at, mine, snap, retried>>
remoteVars == <<hostVars, storeVars, lockHolder, sshVars, callVars, outside, losses>>

NoScript == [run |-> "", content |-> BaseContent, parent |-> 0, url |-> "", commit |-> 0, approval |-> 0]
NoSnap == [content |-> BaseContent, head |-> 0, url |-> "", commit |-> 0]

RemoteInit ==
  /\ recorded = FALSE /\ content = BaseContent
  /\ commits = <<[content |-> BaseContent, parent |-> 0, line |-> {1}, approval |-> 0]>>
  /\ head = 0 /\ originUrl \in Urls /\ published = [u \in Urls |-> 0]
  /\ approvalsGiven = <<>> /\ approval = 0 /\ lastPush = 0
  /\ lockHolder = Nobody
  /\ at = [c \in Calls |-> "idle"]
  /\ script = [c \in Calls |-> NoScript] /\ remoteWire = [c \in Calls |-> "none"]
  /\ strays = {}
  /\ mine = [c \in Calls |-> 0] /\ snap = [c \in Calls |-> NoSnap]
  /\ retried = [c \in Calls |-> FALSE]
  /\ outside = 0 /\ losses = 0

-----------------------------------------------------------------------------
(* Scripts on the host. *)

Goto(c, step) == at' = [at EXCEPT ![c] = step]

\* _ssh: the script goes out on the standard input of ssh.
Send(c, s) ==
  /\ script' = [script EXCEPT ![c] = s]
  /\ remoteWire' = [remoteWire EXCEPT ![c] = "sent"]
  /\ UNCHANGED strays

NewCommit(text, parent, by) ==
  LET id == Len(commits) + 1
  IN [content |-> text, parent |-> parent, line |-> {id} \cup commits[parent].line, approval |-> by]

\* The scan of the gate is of the whole diff of the candidate against the approved
\* head, so it also finds what the candidate removes.
SecretInDiff(text, parent) == {text, commits[parent].content} \cap SecretContent # {}

\* The gate script constructs the commit from the tree it has checked.
Buildable(s) ==
  /\ head = s.parent
  /\ originUrl = s.url
  /\ content = s.content
  /\ ~ SecretInDiff(s.content, s.parent)

\* git push refuses what is not a fast-forward of the branch at that URL.
FastForward(s) == published[s.url] \in {0} \cup commits[s.commit].line

\* update-ref with the expected old value changes the branch only from there.
FaultyRefAsExpected(s) == head # 0
RefAsExpected(s) == head = s.parent

\* What a script does when it runs, and whether it succeeds.
ScriptRuns(s, succeeds) ==
  \/ /\ s.run = "create" /\ succeeds /\ head = 0
     /\ head' = 1 /\ content' = commits[1].content
     /\ UNCHANGED <<commits, originUrl, published>>
  \/ /\ s.run = "write" /\ succeeds
     /\ content' \in Contents
     /\ UNCHANGED <<commits, head, originUrl, published>>
  \/ /\ s.run = "validate" /\ succeeds \in BOOLEAN
     /\ content' \in Contents
     /\ UNCHANGED <<commits, head, originUrl, published>>
  \/ /\ s.run = "build" /\ succeeds = Buildable(s)
     /\ commits' = IF succeeds THEN Append(commits, NewCommit(content, s.parent, s.approval)) ELSE commits
     /\ UNCHANGED <<content, head, originUrl, published>>
  \/ /\ s.run = "recheck" /\ succeeds = (content = s.content)
     /\ UNCHANGED hostVars
  \/ /\ s.run = "push" /\ succeeds = FastForward(s)
     /\ published' = IF succeeds THEN [published EXCEPT ![s.url] = s.commit] ELSE published
     /\ UNCHANGED <<content, commits, head, originUrl>>
  \/ /\ s.run = "update" /\ succeeds = RefAsExpected(s)
     /\ head' = IF succeeds THEN s.commit ELSE head
     /\ UNCHANGED <<content, commits, originUrl, published>>

CanCommit(s) == s.run = "build" => Len(commits) < CommitBound

\* The script of a waiting call runs, and the call will see how it ended and, of the
\* gate, which commit it printed.
ScriptAnswered(c) ==
  /\ remoteWire[c] = "sent" /\ CanCommit(script[c])
  /\ \E succeeds \in BOOLEAN:
       /\ ScriptRuns(script[c], succeeds)
       /\ remoteWire' = [remoteWire EXCEPT ![c] = IF succeeds THEN "ok" ELSE "failed"]
  /\ snap' = IF script[c].run = "build" THEN [snap EXCEPT ![c].commit = Len(commits')] ELSE snap
  /\ UNCHANGED <<storeVars, lockHolder, script, strays, at, mine, retried, outside, losses>>

\* A script nobody waits for runs.  The second half of the gate changes nothing.
StrayRuns ==
  /\ \E s \in strays:
       /\ CanCommit(s)
       /\ \E succeeds \in BOOLEAN: ScriptRuns(s, succeeds)
       /\ strays' = strays \ {s}
  /\ UNCHANGED <<storeVars, lockHolder, script, remoteWire, callVars, outside, losses>>

Abandoned(cs) == strays \cup {script[c] : c \in {d \in cs : remoteWire[d] = "sent"}}

-----------------------------------------------------------------------------
(* How a call ends. *)

Released(c) == IF lockHolder = c THEN Nobody ELSE lockHolder

Silent(c) ==
  /\ script' = [script EXCEPT ![c] = NoScript]
  /\ remoteWire' = [remoteWire EXCEPT ![c] = "none"]

\* The lock's block ends and the call goes on.
Unlock(c, step) ==
  /\ Goto(c, step)
  /\ lockHolder' = Released(c)
  /\ Silent(c)

\* The call returns or raises.
EndCall(c) ==
  /\ Unlock(c, "idle")
  /\ mine' = [mine EXCEPT ![c] = 0]
  /\ snap' = [snap EXCEPT ![c] = NoSnap]
  /\ retried' = [retried EXCEPT ![c] = FALSE]

\* The answer does not come in time, or the connection breaks where the caller asked
\* to be told (check=True): RemoteWorkspaceError leaves the handler.  A validation's
\* exception is a failed validation instead.
ScriptTimesOut(c) ==
  /\ remoteWire[c] # "none" /\ losses < LossBound
  /\ losses' = losses + 1
  /\ strays' = Abandoned({c})
  /\ \/ at[c] = "validating"
        /\ Goto(c, "validated") /\ Silent(c)
        /\ UNCHANGED <<lockHolder, mine, snap, retried>>
     \/ at[c] # "validating" /\ EndCall(c)
  /\ UNCHANGED <<hostVars, storeVars, outside>>

\* The connection breaks where the caller looks at the exit status (check=False).
ConnectionBreaks(c) ==
  /\ at[c] \in {"building", "pushing", "updating"} /\ remoteWire[c] # "none" /\ losses < LossBound
  /\ losses' = losses + 1
  /\ strays' = Abandoned({c})
  /\ remoteWire' = [remoteWire EXCEPT ![c] = "failed"]
  /\ UNCHANGED <<hostVars, storeVars, lockHolder, script, callVars, outside>>

\* The Bridge restarts: its state file and the host's scripts are what is left.
BridgeRestarts ==
  /\ losses < LossBound /\ \E c \in Calls: at[c] # "idle"
  /\ losses' = losses + 1
  /\ strays' = Abandoned(Calls)
  /\ at' = [c \in Calls |-> "idle"] /\ lockHolder' = Nobody
  /\ script' = [c \in Calls |-> NoScript] /\ remoteWire' = [c \in Calls |-> "none"]
  /\ mine' = [c \in Calls |-> 0] /\ snap' = [c \in Calls |-> NoSnap]
  /\ retried' = [c \in Calls |-> FALSE]
  /\ UNCHANGED <<hostVars, storeVars, outside>>

\* _can_forward_git_credential: a push that failed is repeated once, where there is a
\* credential for the URL.
MayRetry(c) == ~ retried[c] /\ script[c].url \in CredentialUrls

\* A script that failed under a call that cannot go on without it.
ScriptRefused(c) ==
  /\ remoteWire[c] = "failed"
  /\ \/ at[c] \in {"creating", "building", "rechecking"}
     \/ at[c] = "pushing" /\ ~ MayRetry(c)
  /\ EndCall(c)
  /\ UNCHANGED <<hostVars, storeVars, strays, outside, losses>>

-----------------------------------------------------------------------------
(* prepare, and the tools that change the worktree. *)

PrepareRemote(c) ==
  /\ at[c] = "idle" /\ ~ recorded /\ head = 0 /\ lockHolder = Nobody
  /\ \A s \in strays: s.run # "create"
  /\ \A d \in Calls: at[d] = "idle"
  /\ Goto(c, "creating")
  /\ Send(c, [NoScript EXCEPT !.run = "create"])
  /\ UNCHANGED <<hostVars, storeVars, lockHolder, mine, snap, retried, outside, losses>>

RecordWorkspace(c) ==
  /\ at[c] = "creating" /\ remoteWire[c] = "ok"
  /\ recorded' = TRUE
  /\ EndCall(c)
  /\ UNCHANGED <<hostVars, approvalsGiven, approval, lastPush, strays, outside, losses>>

\* write, apply_patch and run: each is one script under the lock.
WriteRemote(c) ==
  /\ at[c] = "idle" /\ recorded /\ lockHolder = Nobody
  /\ lockHolder' = c
  /\ Goto(c, "writing")
  /\ Send(c, [NoScript EXCEPT !.run = "write"])
  /\ UNCHANGED <<hostVars, storeVars, mine, snap, retried, outside, losses>>

WriteReturns(c) ==
  /\ at[c] = "writing" /\ remoteWire[c] = "ok"
  /\ EndCall(c)
  /\ UNCHANGED <<hostVars, storeVars, strays, outside, losses>>

-----------------------------------------------------------------------------
(* authorize_push: the plan under the lock, then the approval. *)

\* The first of the project's validation commands; a project may have none.
PlanRemote(c) ==
  /\ at[c] = "idle" /\ recorded /\ lockHolder = Nobody
  /\ Len(approvalsGiven) < ApprovalBound
  /\ lockHolder' = c
  /\ Goto(c, "validating")
  /\ Send(c, [NoScript EXCEPT !.run = "validate"])
  /\ UNCHANGED <<hostVars, storeVars, mine, snap, retried, outside, losses>>

\* A required validation that failed blocks the plan; another one does not.
Validated(c) ==
  /\ at[c] = "validating" /\ remoteWire[c] \in {"ok", "failed"}
  /\ \/ Goto(c, "validated") /\ Silent(c)
        /\ UNCHANGED <<lockHolder, mine, snap, retried>>
     \/ remoteWire[c] = "failed" /\ EndCall(c)
  /\ UNCHANGED <<hostVars, storeVars, strays, outside, losses>>

\* The container engine timed out under the script: the script answers so, and the
\* container it started may still write.
ContainerOutlives(c) ==
  /\ at[c] = "validating" /\ remoteWire[c] = "sent" /\ losses < LossBound
  /\ losses' = losses + 1
  /\ strays' = Abandoned({c})
  /\ remoteWire' = [remoteWire EXCEPT ![c] = "failed"]
  /\ UNCHANGED <<hostVars, storeVars, lockHolder, script, callVars, outside>>

\* security_diff: what the worktree adds to the base.
CandidateHasSecret == content \in SecretContent
\* history_secret_scan: what any commit since the base added.
HistoryHasSecret == \E k \in commits[head].line \ {1}: commits[k].content \in SecretContent

\* The gates: a candidate may not be reviewable, a secret may be approved as a false
\* positive, and a worktree with nothing to commit is refused.
ReviewRemote(c, reviewable, allowSecret) ==
  /\ at[c] = "validated" /\ remoteWire[c] = "none"
  /\ IF /\ reviewable /\ content # commits[head].content
        /\ CandidateHasSecret \/ HistoryHasSecret => allowSecret
     THEN Goto(c, "reviewed") /\ UNCHANGED <<lockHolder, script, remoteWire, mine, snap, retried>>
     ELSE EndCall(c)
  /\ UNCHANGED <<hostVars, storeVars, strays, outside, losses>>

\* manager.snapshot is the last step under the lock.
SnapshotReviewed(c) ==
  /\ at[c] = "reviewed"
  /\ snap' = [snap EXCEPT ![c].content = content, ![c].head = head, ![c].url = originUrl]
  /\ Unlock(c, "authorizing")
  /\ UNCHANGED <<hostVars, storeVars, strays, mine, retried, outside, losses>>

Authorize(c) ==
  /\ at[c] = "authorizing" /\ Len(approvalsGiven) < ApprovalBound
  /\ approvalsGiven' = Append(approvalsGiven,
       [content |-> snap[c].content, head |-> snap[c].head, url |-> snap[c].url])
  /\ approval' = Len(approvalsGiven')
  /\ EndCall(c)
  /\ UNCHANGED <<hostVars, recorded, lastPush, strays, outside, losses>>

-----------------------------------------------------------------------------
(* commit_push. *)

\* The approval is read first, and only then is the lock asked for.
PushBegins(c) ==
  /\ at[c] = "idle" /\ approval # 0
  /\ mine' = [mine EXCEPT ![c] = approval]
  /\ Goto(c, "approved")
  /\ UNCHANGED <<hostVars, storeVars, lockHolder, sshVars, snap, retried, outside, losses>>

\* The lock does not come within thirty seconds.
PushGivesUp(c) ==
  /\ at[c] = "approved" /\ lockHolder # Nobody
  /\ EndCall(c)
  /\ UNCHANGED <<hostVars, storeVars, strays, outside, losses>>

\* The digest of a fresh snapshot equals the approved one, and there is something to
\* commit.
FaultyAsApproved(c) == LET a == approvalsGiven[mine[c]] IN originUrl = a.url /\ content # commits[head].content
AsApproved(c) ==
  LET a == approvalsGiven[mine[c]]
  IN content = a.content /\ head = a.head /\ originUrl = a.url /\ content # commits[head].content

\* What the scripts of this push are about.
PushScript(c, run, commit) ==
  LET a == approvalsGiven[mine[c]]
  IN [run |-> run, content |-> content, parent |-> head, url |-> a.url, commit |-> commit, approval |-> mine[c]]
SameScript(c, run, commit) == [script[c] EXCEPT !.run = run, !.commit = commit]

CheckApproved(c) ==
  /\ at[c] = "approved" /\ lockHolder = Nobody
  /\ \/ AsApproved(c)
        /\ lockHolder' = c /\ Goto(c, "building")
        /\ Send(c, PushScript(c, "build", 0))
        /\ UNCHANGED <<mine, snap, retried>>
     \/ ~ AsApproved(c) /\ EndCall(c) /\ UNCHANGED strays
  /\ UNCHANGED <<hostVars, storeVars, outside, losses>>

\* The gate has made its commit; it looks at the tree once more before it answers.
GateContinues(c) ==
  /\ at[c] = "building" /\ remoteWire[c] = "ok"
  /\ Goto(c, "rechecking")
  /\ Send(c, SameScript(c, "recheck", snap[c].commit))
  /\ UNCHANGED <<hostVars, storeVars, lockHolder, mine, snap, retried, outside, losses>>

\* Exactly the reviewed commit goes to the reviewed URL; once more, with the
\* forwarded credential, when the first attempt failed and may be repeated.
SendPush(c) ==
  /\ \/ at[c] = "rechecking" /\ remoteWire[c] = "ok" /\ UNCHANGED retried
     \/ at[c] = "pushing" /\ remoteWire[c] = "failed" /\ MayRetry(c)
        /\ retried' = [retried EXCEPT ![c] = TRUE]
  /\ Goto(c, "pushing")
  /\ Send(c, SameScript(c, "push", snap[c].commit))
  /\ UNCHANGED <<hostVars, storeVars, lockHolder, mine, snap, outside, losses>>

SendUpdate(c) ==
  /\ at[c] = "pushing" /\ remoteWire[c] = "ok"
  /\ Goto(c, "updating")
  /\ Send(c, SameScript(c, "update", snap[c].commit))
  /\ UNCHANGED <<hostVars, storeVars, lockHolder, mine, snap, retried, outside, losses>>

\* Whether the local branch followed is only reported (local_ref_updated).
PushReturns(c) ==
  /\ at[c] = "updating" /\ remoteWire[c] \in {"ok", "failed"}
  /\ Unlock(c, "pushed")
  /\ UNCHANGED <<hostVars, storeVars, strays, mine, snap, retried, outside, losses>>

\* The handler, outside the lock, takes away the session's approval, whichever it is.
RecordPush(c) ==
  /\ at[c] = "pushed"
  /\ approval' = 0 /\ lastPush' = snap[c].commit
  /\ EndCall(c)
  /\ UNCHANGED <<hostVars, recorded, approvalsGiven, strays, outside, losses>>

-----------------------------------------------------------------------------
(* What happens on the host beside the Bridge. *)

OutsideChange ==
  /\ head # 0 /\ outside < OutsideBound
  /\ outside' = outside + 1
  /\ \/ content' \in Contents \ {content} /\ UNCHANGED <<commits, head, originUrl>>
     \/ originUrl' \in Urls \ {originUrl} /\ UNCHANGED <<content, commits, head>>
     \/ Len(commits) < CommitBound /\ content # commits[head].content
        /\ commits' = Append(commits, NewCommit(content, head, 0))
        /\ head' = Len(commits')
        /\ UNCHANGED <<content, originUrl>>
  /\ UNCHANGED <<published, storeVars, lockHolder, sshVars, callVars, losses>>

CallNext(c) ==
  \/ ScriptAnswered(c) \/ ScriptTimesOut(c) \/ ConnectionBreaks(c) \/ ScriptRefused(c)
  \/ PrepareRemote(c) \/ RecordWorkspace(c)
  \/ WriteRemote(c) \/ PlanRemote(c) \/ WriteReturns(c) \/ Validated(c) \/ ContainerOutlives(c)
  \/ \E reviewable, allowSecret \in BOOLEAN: ReviewRemote(c, reviewable, allowSecret)
  \/ SnapshotReviewed(c) \/ Authorize(c)
  \/ PushBegins(c) \/ PushGivesUp(c) \/ CheckApproved(c) \/ GateContinues(c)
  \/ SendPush(c) \/ SendUpdate(c) \/ PushReturns(c) \/ RecordPush(c)

RemoteNext == StrayRuns \/ BridgeRestarts \/ OutsideChange \/ \E c \in Calls: CallNext(c)

RemoteSpec == RemoteInit /\ [][RemoteNext]_remoteVars

-----------------------------------------------------------------------------
(* Properties. *)

Steps == {"idle", "creating", "writing", "validating", "validated", "reviewed", "authorizing",
          "approved", "building", "rechecking", "pushing", "updating", "pushed"}

\* Every variable has its type.
RemoteTypeOK ==
  /\ recorded \in BOOLEAN /\ content \in Contents /\ originUrl \in Urls
  /\ head \in 0..Len(commits) /\ lastPush \in 0..Len(commits)
  /\ published \in [Urls -> 0..Len(commits)]
  /\ approval \in 0..Len(approvalsGiven)
  /\ lockHolder \in Calls \cup {Nobody}
  /\ at \in [Calls -> Steps] /\ remoteWire \in [Calls -> {"none", "sent", "ok", "failed"}]
  /\ mine \in [Calls -> 0..Len(approvalsGiven)] /\ retried \in [Calls -> BOOLEAN]

Ancestry(commit) == IF commit = 0 THEN {0} ELSE {0} \cup commits[commit].line
\* The commits of the Bridge that are at a URL.
BridgePublished(u) == {k \in Ancestry(published[u]) \ {0} : commits[k].approval # 0}

\* Whatever was retried, repeated or ran late: a commit of the Bridge that reached a
\* remote has the content and the parent of the approval it was made for, is at the URL
\* of that approval, and has no secret in its diff ("Publish exactly the reviewed candidate tree to the
\* reviewed destination", commit_push).
PublishedAsApproved ==
  \A u \in Urls: \A k \in BridgePublished(u):
    LET a == approvalsGiven[commits[k].approval]
    IN /\ commits[k].content = a.content /\ commits[k].parent = a.head
       /\ k \in Ancestry(published[a.url])
       /\ ~ SecretInDiff(commits[k].content, commits[k].parent)

\* Two calls may read one approval before either has the lock, and a push whose
\* answer was lost is tried again with a new commit: still one approval puts at most
\* one commit on the remotes.
OneCommitPerApproval ==
  \A u, v \in Urls: \A j \in BridgePublished(u), k \in BridgePublished(v):
    commits[j].approval = commits[k].approval => j = k

\* What the session records as its last push is on a remote.
RecordedPushIsPublished == \E u \in Urls : lastPush \in Ancestry(published[u])

\* A recorded workspace has its worktree, and what is recorded and published of it is
\* as approved, once, and really there.
RemotePublished ==
  /\ recorded => head # 0
  /\ PublishedAsApproved
  /\ OneCommitPerApproval
  /\ RecordedPushIsPublished

\* The branch of the worktree never leaves behind a commit that somebody made there,
\* however late the update of a push arrives.
LocalCommitsKept == [][(head \in Ancestry(head)')]_remoteVars
=============================================================================
