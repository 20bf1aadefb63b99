# A verification project for ReasonFirst

ReasonFirst lets a reasoning client (a person in a chat, through MCP tools) plan
and review work that a local or remote coding worker (Codex, behind its
app-server) carries out in isolated Git worktrees, and publish the result as a
merge request. This directory holds TLA+ models of its core, the runs of TLC that
check them on small instances, and proofs that TLAPS checks for every instance.

`PROJECT.json` lists, for the tools: the components, the runs and their
properties, a plausible bug ("mutant") that each property notices, the source
lines behind each definition, the hazards and the theorems.

    tlc -workers 2 -config BridgeCalls.cfg MCBridgeTurns
    tlapm BridgeTurnsProofs.tla

Source paths below are relative to `src/gitlab_agent/` of the repository.

## 1. The system

| Component | State it keeps | Operations | What makes it correct |
|---|---|---|---|
| Admission ledger `bridge_preview/admission.py` | operations and turns in progress, index by thread, ended turns, reasons for doubt, the maintenance lease | reserve, finish, bind, fail, events, mark unknown, enter and leave maintenance, close | maintenance only from proven idleness; one turn per thread and workspace; ended turns stay ended |
| Bridge controller `bridge_preview/controller.py` | sessions (last turn, approvals), connections and their generations, waiters, all saved in `state.json` | prepare, start, continue, steer, interrupt, approve, finish, close; events and server requests from the worker | calls and events may interleave in any order without losing a turn, an answer or a doubt |
| App-server client `codex_app_server.py` | request table, closed and lost flags, child process | request, notify, reader loop, server requests, close | each request ends; a loss is recorded before anyone learns of it |
| File lock `locking.py` | RLock per path, table of holders, lock of the operating system | enter, leave | exclusion across threads and processes, nesting, nothing left behind |
| Workspaces `workspace.py`, `task_state.py` | one state file, worktree, branch per task | create, write, patch, commit, push, merge request, clean up | the state file and Git agree after any failure; nothing unpublished is deleted |
| Remote workspaces `bridge_preview/remote_workspace.py`, `artifacts.py` | the same on another host | the same over SSH | as above, with lost connections |
| Publication `finish.py`, `review_gates.py`, `evidence.py`, scanners | plan, evidence, finish approvals | preview, validate, approve, finish | what is pushed is what was reviewed |
| Validation runs `runner.py`, `validation_process.py` | a process group | run with time-out and bounded output | the group is gone when the call returns |
| Tunnel `tunnel_lifecycle.py`, `tunnel_install.py` | lock files, control sockets, saved settings, the runtime's process group | configure, start, restart, status, stop | one runtime per tunnel; who serves can be reached; only owned groups are signalled; a stop that was asked for happens |
| Set-up `reasonfirst_cli.py`, `setup_*.py` | `.env`, the set-up record, the installed client, two runtimes | guided set-up, connect, repair, add a project | what is granted was reviewed, what is recorded was ready, however commands overlap |
| Endpoint migration `https_migration.py` | the files that name the endpoint, a journal, a lock | preview, apply, run again | a killed migration can be explained, and finished |
| Managed service `upgrade/service_*.py` | lifecycle, socket, requests, maintenance window, retained inputs, helpers | start, serve, maintain, clean up | one-shot; a window only when quiet; answers only from what was reviewed |
| Managed start-up `upgrade/startup_*.py` | challenge, listener, child, helper, report | probe a prepared runtime once | a report that is ok is one real start; nothing is left unsaid |
| Runtimes and deployment `upgrade/deployment.py`, `runtime.py`, `pairing.py` | the record of the service, prepared runtimes | adopt, prepare, review | created once; built from what was reviewed; a review saw one moment |
| Policy `worker_policy.py`, configuration, recipes | evidence and violations per thread | decide whether a thread may go on | no turn to a worker that was seen to be another one |
| MCP servers, command lines, CI and GitLab access | none that outlives a call | adapt and forward | - |

How they interact.  An MCP tool calls one method of the controller on a thread of
its own.  The method's decorator reserves an operation in the ledger; a method
that starts a turn also reserves the turn, sends `turn/start` through the client
and waits, with a time-out, for the client's reader thread to hand it the answer.
The same reader thread calls back into the controller with the events of the
worker and starts a thread for each of its requests (approvals, dynamic tools).
The owner of the process asks the ledger for a maintenance lease before it
replaces the program.  All session state is written to one file with every change
and read by the next process.

The hard behaviour, and so the subject of the models: the answer to a request and
the events of its turn arrive on different threads in any order; requests time
out and are answered late; the stream ends, the controller closes or the process
dies between any two steps; two people answer one approval; a lease may be
granted at any moment the ledger believes to be idle.  `PROJECT.json` lists these
hazards one by one with the line at which each bites.

## 2. The modules

    MaintenanceGate           what the ledger promises
      ^ implemented by
    ControllerAdmission       the ledger               <- ControllerAdmissionProofs
      ^ EXTENDS                                                ^ EXTENDS
    BridgeTurns               turns, calls and events  <- BridgeTurnsProofs
    ApprovalBroker            approvals (same ledger)  <- ApprovalProofs
      v implements
    ApprovalPromise           what approvals promise

    Workspace                 workspaces of a branch
      ^ EXTENDS
    Publication               preview and finish       <- PublicationProofs (of both)

    FileLock                  the workspace lock

    ApprovalBroker  AppConnections  ThreadPolicy    workers          <- WorkersProofs (*)
    FileLock  TunnelSupervisor  EndpointMigration   locks and files  <- HostProofs
    ValidationRun  ManagedService  ManagedStartup   processes        <- ManagedProofs
    GuidedSetup  RuntimeRecords  RemotePublication  hosts            <- SetupProofs (*)

(*) extends ApprovalProofs as well, as MCWorkers and MCSetup both have ApprovalBroker.

The modules `MC...` hold model values for TLC.  Four of them put components that share no
state side by side, so that one run asks the same kind of question of each:

| Module | Components |
|---|---|
| MCWorkers | ApprovalBroker, AppConnections, ThreadPolicy |
| MCHost | FileLock, TunnelSupervisor (twice), EndpointMigration (twice) |
| MCManaged | ManagedService, ManagedStartup, ValidationRun (twice) |
| MCSetup | GuidedSetup, RuntimeRecords, RemotePublication, ApprovalBroker with restarts |

There the variable `subject` is chosen at the start and never changes: the next-state
relation is that of the subject, and the others keep their initial state.  The states are
so the sum and not the product of the components'.  This loses nothing, because no
component reads a variable of another one; and an invariant that holds of all of them is
checked of each in all of its states.  A behaviour of the whole is a behaviour of one
component, and fairness is asked of that one (`subject = "..." /\ ...`).

An operator whose name begins with `Faulty` is wrong on purpose: it stands for a plausible
bug in the definition after it, and is used nowhere but to see which property notices that
bug.  `PROJECT.json` names one for each property; where a property has several parts, the
modules hold one for the others too.

### ControllerAdmission, MaintenanceGate

Each method of `ControllerAdmission` runs under the ledger's lock, so each is one
action.  A method that raises without a change is a disabled action; one that
first marks an uncertainty (`RefuseBind`, `InvalidEvent`) is an action of its own.
Reservations are objects compared by identity: a token stands for one, and may be
used again once its object has left the table.  A lease is named by the generation
that issued it.  `turns` and `byThread` are both kept, as in the code, because
their agreement is a property (`ThreadIndexExact`).

`MaintenanceGate` forgets what the ledger counts and keeps what its caller relies
on: work is admitted only while the gate is open, the gate is held only from a
moment with nothing in progress and nothing in doubt, a doubt is never cleared and
never stops normal work, and close is final.  `ImplementsGate` is the refinement.

### BridgeTurns

The calls of `start_codex`, `continue_task` and `interrupt` (`call`), the reader
thread (`reader`), the worker and its pipe (`requests`, `channel`, `worker`), the
maintenance owner, `close`, and the ledger.  A call moves through the steps between
which other threads may run; the comment of each action names the function it is
part of.  What is one step, and why:

- registering a waiter and writing the request (`Send`): the waiter is in the table
  before the write, and a close that comes between the two fails it like any other;
- a block under `_lock` that contains no other step; the event handler alone holds
  `_lock` over two steps (the ledger's verdict and the record of the display), and
  while it does, every other block under the lock is disabled (`LockFree`);
- waiting ends by the answer, the time-out, the end of the stream or the close.

`display` is the session's last turn and its status, `revisions` the table that
keeps a late answer from overwriting the record of a later start.  The worker is
external: it accepts a start or refuses it, answers, announces and completes its
turns in every order the protocol leaves open, sends other events and garbled
ones, and may die at any point, its turn dying with it or not.  One connection is
modelled, whose creation succeeded; a call's work outside the turn (policy checks,
prompts, decorating the thread) changes no state kept here, and steering and the
reading calls change none of the ledger.

### ApprovalBroker, ApprovalPromise

A request from its line on the wire to the answer on the wire: the reader reserves
an operation and starts a thread; the thread registers the request with the
controller, waits, takes the answer or declines, writes it, tries once more to
decline if that raises, and releases the reservation, telling the ledger whether the
delivery is in doubt.  `resolve_approval` stores an answer for a registered request.
The session's pending and settled requests are saved with every change (`disk`);
saving may raise; the process may end between any two steps and the next one reads
the file (`Restart`).  Answers are levels of permission, so that "wider" has a
meaning; `Narrowed` is the code's replacement of a grant that the worker does not
offer.  The requests are those of one session with keys that are not reused.  The
client's own events about approvals are ordinary events and belong to BridgeTurns.

`ApprovalPromise` forgets threads, tables and files, and keeps what people and the worker rely
on: a request is open, taken or failed; people may rule, and rule again, until its answer is
taken; the worker then hears the ruling that stands, once and first, or a refusal if there is
none; and where something failed (the handler raised, a delivery is in doubt, the process
ended) it hears refusals only.  `ImplementsPromise` is the refinement: `StageOf` reads the stage
off the handler, `Standing` the ruling off the acknowledged calls, and what is heard is the wire.

### AppConnections

`_get_app` and `close` of the controller against the constructor, the requests, the reader
and the clean-up of AppServerClient, in the two modes of the product: with a ledger
(`enrolled`), and with children that must come from a reviewed configuration (`bound`).
A creation takes `_app_lock`, opens a child or the desktop's socket, makes the handshake
with a request that may time out, and records the connection, or fails at any step and
cleans up.  A request's waiter is a queue of one place; the reader puts into it without a
time-out (codex_app_server.py:971), so it can be stuck, and the model says when: only on a
connection that was closed and whose loss was told (`StuckReaderIsClosed`).  `Unstopped`,
`QuietIsAccounted` and `NothingSurvivesClose` relate children, the tables `_apps` and
`_owned_child_apps`, and the ledger.  In enrolled mode a child that had closed its own
output before `close` is not signalled; the exception is part of `NothingSurvivesClose`.

Without a ledger `_get_app` takes no lock: two users of one place may both create a
connection, the second replaces the first in `_apps`, and `close` never reaches the first.
This mode is not modelled; the observation is from the source.

### ThreadPolicy

Threads that are started and resumed, the evidence of what the server resolved, reroutes
that the reader sees at any time, restarts that keep the session only, and calls that look
at the evidence, prepare and send.  `PolicyKept` says what the checks achieve: a turn goes
only to a thread that this connection loaded as asked, and no call passes a check on a thread
that was seen rerouted.  What they do not achieve follows from the steps and is no property:
a reroute between the check and the sending is not seen; a restart forgets it; after a resume
the session's copy of the evidence says `satisfied` (compact_status shows it) while
continue_task refuses the thread; steering and interrupting look at no evidence.

### FileLock

`file_lock` for one path: the RLock of each process, the table `_HELD`, the lock of
the operating system, and threads that nest, time out and unwind.  A process may end
at any point and another take its place.

### TunnelSupervisor

Owners (the foreground commands start and restart), clients that stop, and one command
that saves other settings.  An owner locks its profile and its tunnel, runs the doctor,
binds the control socket, spawns the runtime in a group of its own, announces it, leaves
its loop when asked, by a signal or because the runtime ended, and terminates, kills,
closes and releases in that order.  A group is its leader (alive, zombie, reaped) and
whether others are left in it; any owner may be killed.

### EndpointMigration

A migrator previews, locks, builds the plan again, writes the journal, and for each file
marks, writes and marks again; it may fail or be killed between any two writes, and is run
again.  Editors and workers change files meanwhile.  The runs take one operator with
faults and two operators without.

### GuidedSetup

The commands of two terminals over the `.env`, the set-up record, the installed client and
the runtimes `read` and `bridge`.  Every file is loaded, changed in memory and replaced in
steps of its own; a command may be interrupted at each.  tunnel-client is external: an alias
runs one tunnel and becomes ready or stops being so.  `PhasesKept` and `RecordedWasReady`
name what overlapping commands can do to each other: a save that was overtaken loses
phases, and a wait that looks at an alias may be answered by another command's tunnel.

`tunnel connect` accepts for the read-only app the tunnel id that the record has for the
Bridge, though the texts at reasonfirst_cli.py:523 and setup_bridge.py:214 say that the
Bridge "must use a separate tunnel ID"; the check is made only in the other direction.

### ManagedService

The owner of one service: start (bind, controller, server), requests with the thread of
their handler, the maintenance window, the server's own end, `aclose`, and a clean-up with
one deadline.  The ledger is taken as the gate it implements.
A clean-up waits for the requests and not for the threads of their handlers
(service_managed.py:777-786): a clean end may leave one at work, but then the ledger is in doubt,
which is what `CleanMeansReleased` says of it.  The retained inputs
(interpreter, bundle, runtime) are versions, which others replace on disk; a helper is
launched from what is on disk, and its answer is accepted only while the context is bound.

### ManagedStartup

One `probe_disposable`: reserve the listener, start the child, challenge, read the reply, run
the helper that lists the tools, stop both, report.  Child and helper may die, hang, reply
with something else or ignore a signal; the deadline may pass and someone may cancel at any
step, and the runtime on disk be rewritten.  The listener is one socket of two processes and
goes on listening when the child is gone: hence `ChildLives` where the catalogue is believed.

### ValidationRun

One `run_bounded_command` on a POSIX host: the binding is resolved under the workspace's lock, the
command runs in its own group with two pipes, and may leave a child that keeps them; it may close
its pipes and run on (`quiet`).  There is one deadline for reading and waiting, then termination of
the group, which may leave a leader that cannot be reaped, a bounded drain, and the report.
Operators plan and save another interpreter, and its file may change.

### RuntimeRecords

Adoption of a registered service (a temporary file, linked once), preparation of a runtime (a
directory created once, filled, probed, built, recorded last) and reviews that read both, all
without locks and with processes that die between any two steps.  A file is the version of
its content; that an edit is not undone between two readings is assumed (pairing.py says that
it does not protect against it).  Nobody else writes into the private build directory: what others
change between the installation and the record of the tree is in that record, and no check of
the code tells it from what was installed.

### RemotePublication

A workspace on an SSH host.  An operation is a script that `_ssh` sends; the caller may give
up on it (`remoteWire`), and it runs all the same, then or later.  The Bridge's lock is not on
the host, where people commit, edit and change the push URL.  The push is the chain of
commit_push: snapshot against the approval, a commit built beside the branch, another
snapshot, a push to the reviewed URL, and the update of the local branch, which compares the
ref.  A push is retried with a credential only for the URLs that get one (`CredentialUrls`).
`approvalsGiven` and `commits` are histories that the properties relate: one commit for an
approval, with its content, parent and destination, whatever is retried.

### Workspace

One managed branch, the workspaces that are made for it, and the processes that run
`WorkspaceManager`.  A commit is the sequence of the trees committed since the base,
so that its ancestors are its prefixes; a tree stands for all the files.  `branch` is
the branch in the repository cache, `remote` the one on the server, `tree` the files
of each workspace, `saved` its state file, `lock` its `mutation_lock`.  `published` is
a history variable: every tip the server has had.

A call goes through the effects that others can see one by one (`call.at`), with its
locals in `call`: the state it read, the commit and the status it looked at.  It may
end between any two of them (`Fail`), by an exception or with its process, and the
lock goes with it, as FileLock promises.  One step are: `git add -A` with `git commit`
(an edit between them is not committed, as if it came after); a status, whose three
readings only guard; the replacement of the state file, which is one rename.
Git does by itself what git does: `worktree add -b` refuses a branch that exists, and
leaves the branch it made when the worktree cannot be had; `update-ref -d` compares the
tip; `worktree remove` refuses a dirty worktree unless forced; the server takes a push as
a fast-forward only.  People and workers edit and commit without the lock, in
workspaces that a state file names, for that is how they find them; others push to
the branch and delete it on the server.  The state keeps what calls read and change: the
`pushed` flag, whether a merge request is recorded, and how many attempts there are.

### Publication

`build_finish_plan` and `execute_finish`, as reached from the bridge (`finish_preview`, `finish`)
and from the command line, beside everything else that happens to the workspace.  Each reading
(state, status, changed paths, scanned diff) is an action, for the code reads them one after another
without the lock; the validations hold it while they run, and may write files.  A tree changes some
paths of the base (`Changes`), some of which are protected (`Guarded`); the gate of protected paths
looks at the listed paths, that of secrets at the scanned diff and the history, and a person may
override either (`allowed`), which a finish of the bridge must repeat as its preview had it.
`plan.read` is the snapshot, `plan.approved` the one a person approved, `preview` what the session
remembers.  The commit and the push are those of Workspace.  `disturbed` is a history variable: the
callers whose files or branch someone else has changed since they compared them; it is what the
unlocked comparison leaves open, and so the condition of `PublishedAsReviewed` and of
`GatesHonoured`.  The digest is taken as the snapshot itself, that is, hashing as free of
collisions; it has the status's list of paths (`porcelain`) and the diff, and not the changed paths
that the gate saw (section 4).

## 3. The runs

| Run | Bounds | What it shows |
|---|---|---|
| Admission | 2 turns, 2 threads, 2 turn ids, 1 workspace and none, 1 operation, 1 lease, history of 2 | the ledger in any order of calls: types, index, exclusion, history, leases, and the refinement of the gate |
| BridgeCalls | 2 callers, 3 calls on one session (3 starts, or 2 and an interrupt that names turn 1 or the last turn), 1 lease | a held lease means an idle worker; the display never goes back |
| BridgeShutdown | 2 callers, 2 calls, 2 sessions on one workspace, 1 lease, loss and close | a turn that may run stays reserved, a workspace has one writer, and a held lease means an idle worker, though the stream is lost |
| BridgeLiveness | 1 caller, 2 calls, 1 other event, loss and close | every call returns; every completion is recorded or accounted for |
| Workers | approvals: 1 request, from the session's connection or another, 2 people, 3 answers, loss and close; connections: 2 users of a place, 2 connections, 2 requests; policy: 3 calls, 2 threads, a reroute of each, 1 restart | `AnswersFaithful`: what is sent was granted, the last acknowledged word is the one sent, doubt is recorded; `ImplementsPromise`; `ConnectionsSound`; `PolicyKept`; a request, a creation and the shutdown end |
| Host | lock: 2 processes, 3 threads, nesting of 3; tunnel: 2 owners of one tunnel under two profiles, 1 client, 1 configuration; migration: 2 files, 2 operators, 1 fault, 1 edit | exclusion, nothing leaked, nesting succeeds; the tunnel is supervised; the journal explains; no signal to a reaped group, no change that was not reviewed; attempts, stops and migrations end |
| Managed | 2 requests, 1 replacement of each input; 1 probe, 1 rewriting; 2 streams of 2 units through pipes of 1, of which 1 is kept, 2 operators | what runs, listens and is reported was reviewed and is so; one-shot; challenges once; starts, clean-ups, probes and runs end |
| Setup | 2 terminals, 2 commands, or 1 and a lapse; 2 adopters and 2 preparers, of which 2 act, 1 reviewer, 2 changes; 2 remote calls, 2 approvals, 3 commits, 1 change on the host, 1 lost script; 2 requests, failing saves, 1 restart, history of 1 | grants, records and runtimes are as reviewed; what is published remotely is as approved, once; approvals are settled once over a restart, and no lease over what an earlier process left; `ImplementsPromise` with failing saves and a restart |
| Workspaces | 2 processes, 2 workspaces, 5 calls, 3 trees, 2 commits above the base, 3 tips on the server, 2 attempts kept | no unpublished work lost unless forced, none left without a name, no record goes back |
| BranchInUse | as Workspaces | violated: the branch of a worktree is deleted (finding 1) |
| Publishing | 1 workspace, 1 process that finishes and 1 that does other things, 3 trees of which 1 has a secret and 1 a protected change, leave for protected changes or none; 2 plans and 2 calls, or 1 and 3 | what is published is what was approved, unless disturbed after the last comparison; and it has a protected change only with leave, if the files stayed the same between the two readings of a plan |
| PublishUnreviewed | 2 plans, 3 calls, either override or none | violated: a change after the comparison is published (finding 2) |

Why the bounds are enough.  A turn's hazards are between a turn and the one that
follows it on the thread, or beside it in the workspace: two turns meet each of
them, and the third call of BridgeCalls adds the interrupt that names an ended
turn.  The history holds fewer turns than may be asked for, so its limit is
reached; the code's limits (256 operations, 128 turns, 256 ended turns) are
constants, and the proofs hold for every value.  An answer needs a competitor (two
people) and a latecomer (a third answer).  In Workers the ledger has room
for three operations where four may be wanted, so that an answer or a handler is
refused for lack of room.

Deleting work takes a workspace that looks and one that changes what was seen: two
processes and two workspaces of one branch meet every pair of calls, and five calls
are enough to make, commit, push, clean up and check out again.  In Publishing the two
plans are a preview and a finish, or a finish that fails half-way and one that goes through;
`BoundedSpec` says which bounds go together, and counts a plan with an override twice while it
is at work.  The override of secrets is in PublishUnreviewed only; the theorems have any set of
overrides.  That run has one workspace and leaves out commits by hand and what others do on the server:
those can only make a push or a comparison fail, which may happen in any case, and the
theorems hold for any number of workspaces and callers.  The trees of Workspaces and its
processes and ids are symmetric; in Publishing nothing is.

A connection that fails and the one after it are two; a late answer needs a request that timed
out and one that follows.  Of the tunnel's actors two are in each behaviour: with two owners,
a stop or a configuration, not both (`TunnelStep`), and a signal only where nobody stops.  A
pipe of one unit with two units to write is full and is drained, and one unit kept is less than what
is written.  In Setup each component reaches each of its bounds, but not all of them in one
behaviour: `SetupBound`, `RecordsBound` and `RemoteBound` in MCSetup say which go together.
A script that is lost and lands late, a retry and a change by hand meet within two approvals.

Admission looks at the ledger through a VIEW without the kinds of its operations: a kind
is read by `snapshot` only, for the counts that are displayed, and by no action or
property but the type invariant.  Setup exchanges terminals, adopters and calls, projects and
preparers, and tunnels (`Alike`): one component moves, so one permutation serves for several
sets.  Workers checks liveness, where symmetry is not sound; there users, calls and threads
are numbered and begin in the order of their numbers (`UsersInOrder`, `TalksInOrder`), which
leaves out renamings of behaviours that are kept.

The runs stop when their bounds are used up or the ledger or service is closed, and say
CHECK_DEADLOCK FALSE; that what was begun ends is stated by the liveness properties.

Fairness.  A call that has begun runs on, and so do the reader, a handler thread, a
thread within `file_lock`, an owner of a tunnel and a client that stops it, the supervisor of
a probe, the runner of a command, and the start and the clean-up of a service: these
are threads and processes the operating system schedules, and each of their waits has a
time-out in the code.  Time passes where a deadline is one of the steps.  An operator runs an
interrupted migration again, as the command tells him to; faults are bounded.  Nothing is
assumed of the worker, of a command that is run, of a child or helper, of the people who
approve, of the maintenance owner or of close (but that it runs on once it was called).

## 4. The findings

1. `BranchInUse`.  A checkout lists the worktrees and looks at the branch, then deletes
   the branch it saw (workspace.py:833-851); a clean-up removes its worktree and then
   deletes the branch (workspace.py:1464-1474).  `mutation_lock` is a lock for each
   workspace id, and a checkout has none, so another checkout may make its worktree in
   between, at the same commit, and lose its branch, which the comment at
   workspace.py:828 says is refused.  No commit is lost (`WorkSurvives` holds): the
   deletion compares the tip, and the tip was published.  But the workspace has no
   branch, and what is committed in it next starts a history of its own.
2. `PublishUnreviewed`.  The comparison of execute_finish (finish.py:363) is not under
   the lock; the commit adds what the files are by then, and the push sends what the
   branch is by then.  docs/CHAT_ONLY_PRACTICE.md:215 says that a finish fails closed
   when the content has changed after the review.  `PublishedAsReviewed` says how far
   this is true: until the last comparison.

Three more disagreements of texts with the code were met and are no run's subject.  The wait of
an approval may end by its time-out and the answer arrive before the handler has taken the
lock (controller.py:738-766): the handler then sends that answer, and files the request
as `timed_out_declined`, while docs/ARCHITECTURE.md:176 says "Requests time out to
deny."  Nothing is granted that nobody granted (`GrantsAreGiven`), but the history denies it.
Another is the tunnel id that both apps may get (GuidedSetup in section 2).  The third is of the
gate of protected paths: a plan lists the changed paths (finish.py:143) between the status and the
diff that is scanned (finish.py:142, 152), only the list decides, and what is compared later has
the status and the diff but not the list.  A protected change that is in the worktree at both, and
set aside in between (as by `git stash`), is published without the approval that
docs/ARCHITECTURE.md:256 asks for.  `GatesHonoured` says how far that line is true: if the files
were the same at the listing and at the scan.

## 5. The proofs

TLC agreed with each statement before it was proved.  The constants are assumed to
be what the modules' `ASSUME`s say and nothing more: any number of threads, turns,
callers and processes, any limits.

**ControllerAdmissionProofs.**  The tables' agreement (`ThreadIndexExact`) is
inductive together with the types; exclusion of workspaces, and the identity of
ended turns, need it, because an event reaches a turn through the index.  That the
history never overflows needs the stronger count of `HistoryNeverOverflows`: every
turn in the table has a free slot, so retiring one moves it from one count to the
other; this is where the cardinality lemmas of the library are used.  A lease is
exclusive because admission is refused while it is held, and current because close
clears it; both together give each step of the ledger as a step of
`MaintenanceGate` or a stutter (`GateImplemented`).  `TablesAgree` and `MaintenanceSound` join
these parts into the two invariants that the run checks.

**BridgeTurnsProofs.**  Every step of the bridge is, by its definition, one step of the
ledger or leaves it alone (the lemma `UsesLedger`), so the theorems about the ledger hold in the bridge
without being proved again (`BridgeExclusive`).  What stands between is the
invariant `BridgeInv`: a call or an event that will finish an operation, bind or
fail a turn holds the reservation it will use, and the ledger never closes or reuses
it meanwhile.  Types of the bridge (`BridgeTypeCorrect`) follow from it.

The second part ties each turn of the worker to its reservation, from the call that reserves
it to the event that ends it (`Turning`).  A reservation has one owner until its request is
written (`OwnersHold`); whatever is asked of the worker, or accepted and not known to have
ended, has a reservation that names no other turn (`StartsHeld`); and of each thread there is one of all these
(`OneStart`).  The ledger's methods do three things to a reservation: they renew it, name its
turn, or free it into the history (`Renews`, `Names`, `Frees`), and what each of these leaves true
is shown once.  `TurnsStayHeld` and `MaintenanceIsIdle` read it off: as a lease is granted only
on an empty table, there is then no turn that could be running.

The third part is about what a session shows (`Showing`).  A thread's turns are numbered in
the order in which the worker accepted them, and one that lives is the latest; a start that may still write the
display has the latest revision, and then its turn is the latest too (`RecordsLatest`); an
event that was accepted is of the displayed turn or a later one (`AcceptedLatest`).  So the
display only goes forward (`DisplayGoesForward`), whichever of the two threads writes it.

**ApprovalProofs** (`BrokerInv`): what each step of a handler relies on, which is
that nobody else takes its request out of `waiting` or writes its answer (`StepOK`); that a
request between admission and release is in the ledger (`Admitted`), which keeps a lease away;
and that every answer, on its way or written, is no more than people granted (`GrantOK`).  The
other requests of a step are left with what they had (`UndisturbedKeeps`).  `WorkerHearsPeople` and
`RestartsAccounted` add that a request without exactly one answer is named in the ledger, over
restarts too.  The proof met one restriction that the earlier statement of `DoubtIsRecorded`
had missed: a new process knows nothing of what the old one sent, so it reports
`recovered_state_unverified` and no reason of its own.

`PromiseImplemented` shows that the broker implements `ApprovalPromise`, step by step: a step of a
handler leaves the stage of its request, takes its answer, tells it, tells a refusal, or fails
(`HandlerStage`), an acknowledged call rules, and the end of the process fails all requests that were
under way, at once (`RestartPromise`).  One fact is needed that `BrokerInv` does not have: no caller waits on a
request whose answer is taken (`Sealed`), so that no ruling is acknowledged after it.  It would be
false of a request whose registration could not be saved: its waiter stays, and a call can
still be acknowledged that nobody will hear; such a request is `failed`, of which nothing is
promised but refusals.  `PromiseMeans` then works with the promise alone, and shows what it
comes to for the worker, whoever implements it.

**WorkersProofs.**  *Policy* (`PolicyInv`): a call that has
passed the loading of its thread speaks of one that this connection loaded, and a reroute
that was seen is counted until the connection ends; so both gates look at a count that is
there (`ThreadsKeepPolicy`).  *Connections* (`ConnectionsInv`): a child that was not told to end is the
one of its place, or is being created by the holder of the lock; what was closed or lost makes
the ledger unknown; a waiter that was failed is one of a closed connection; and what the closer
has behind it has ended (`ConnectionsAreSound`).  `WorkersAreSound` has these two and the
approvals side by side.

**HostProofs.**  *The file lock*: `LockInv` says for each step how far the three records (RLock,
`_HELD`, the operating system's lock) may be apart; it is inductive, and exclusion, cleanness and
nesting follow from it in a line each (together: `LockCorrect`).  *The tunnel* (`TunnelInv`): which
locks an owner has (`Locked`), what has become of its process group (`Grouped`) and whom the socket
of its profile reaches (`Reachable`) at each of its steps, and what a stop knows of the owner it
asked (`Stopped`, `Tended`).  An owner holds the lock of its tunnel from before it spawns until
after it has reaped, which gives one runtime of a tunnel; that a stop is told the truth
(`TunnelIsSupervised`) needs in addition that an owner that is told to stop while it serves leaves
no process behind unless it is killed.  *The migration* (`MigrationInv`): before a file is written
the journal has what it was (`Journalled`), so `MigrationCanBeUndone` survives every interruption;
and a file changes its scheme only into what was reviewed (`MigrationWritesTheReviewed`).
`HostStepsAllowed` has both statements about steps in the composition.

**ManagedProofs.**  *A validation command* (`ValidationInv`): what was counted and what still waits in a pipe is
what was written (`Streamed`), how far the end has come at each step of the runner (`Ending`), and that
who has the lock has the binding in force (`Locking`).  *A start* (`StartupInv`): a child
answers once and ends once (`ChildTold`), the challenge goes forward with the supervisor
(`ChallengeAt`), what the supervisor has seen by each step (`Seen`), and what it leaves is in the
report (`Left`, `Reported`).  *The service* (`ServiceInv`): the ledger's entries are exactly the
requests and handlers in progress, and each that ended in doubt has tainted it (`Accounted`);
the gate (`GateRight`), the order of the start (`Fresh`) and of the clean-up (`Phases`); and, for the accepted
results, that a version of the interpreter that was replaced does not come back (`Retains`, `RanWith`; the
model numbers what is put on the disk, and the code compares digests and file identities): what
equals the retained one after the helper's end was that at its launch.  Requests are
assumed to be finitely many, as a window opens when all of them have ended.  The three stand side by side
in `ManagedInv`; `NoStepGoesBack` has what no step of any of them does.

**SetupProofs.**  *The remote workspace* (`RemoteInv`): the commits form a tree whose lines are
nested (`Tree`); a commit of the Bridge is what its approval says and, once it is built upon,
checked out or published, at the URL that was approved (`Commits`); and what a call holds, and what
a script was sent for, at each of their steps (`CallHolds`, `SentFor`), the scripts that run late
included.  What others take back of this is nothing (`Grows`), so each step is left with its own
call. *Deployment records* (`RecordsInv`): a directory with a manifest was made from the inputs that
its id names (`DirectorySound`, `PreparerHolds`, `OwnersApart`), and of a review that is under way:
if all that it has yet to read confirms what it has read, then there was a moment when all of it was
there (`ReviewerHolds`).  That this is true at the point after the last first reading, and only
becomes stronger with each further one, is what the double reading is for (`ReviewsSeeAMoment`);
`FaultyPairingReads`, which reads once, breaks it. *Set-up* (`SetupInv`): whatever a command holds
from its earlier steps was reviewed, or seen ready, by then (`HoldsReviewed`), and no step takes an
approval or an observation back (`HostGrows`); so an old file that is put back grants nothing new.
`SideInv` is the three side by side: a step of one is a stutter of the others (`SidesApart`); the
fourth subject of the composition, the approvals, behaves as ApprovalBroker (`ApprovalBeside`).  So
all four keep their types (`SidesTyped`), and `SidesAccounted` has what the run checks of remote
workspaces and of restarts.

**PublicationProofs.**  *The workspaces.*  A step of a caller changes its own locals and what belongs to its
workspace, and no other caller is busy with that workspace (`Sole`), so what the
others know of theirs (`Local`) stays true; the lemma `OthersKept` says so once, and
each action is left with its own caller.  `Local` has three parts: a busy caller
holds the lock, or its workspace is not known yet (`Owner`), and what it will save knows
at least what is saved, from which `StateNeverGoesBack` follows; the worktree of a locked
workspace is there until its holder has removed it (`Files`); and what a caller may
delete was published when it looked (`Verified`), which stays true since `published` only
grows.  With the fact that what is unpublished is named (`Named`) this is inductive, and
`WorkSurvives` follows from `Verified` and the compare-and-delete of git.

*The publication.*  Every step of a finish is, by its definition, a step of the workspaces or leaves
them alone, so what is proved of them holds here (`PublicationKeepsWork`).  `Progress` says what
each stage has read and that it holds the lock within the commit and the push; `AsReviewed` says
that from the last comparison on the files are the scanned ones, and the branch is what was
approved, until someone disturbs them; and `FinishPublishesReviewed` is the step that reads it off.
For `FinishHonoursGates` it matters besides that a push asks for a clean worktree, so that the tip
that is sent is the scanned tree.

Some assumptions were added for these proofs, each as weak as it could be: that names which
stand for nobody, or for nothing, are no member of the set beside them, that kinds of tokens,
streams and inputs differ from each other, and that bounds are naturals.  The code has all of them, and TLC
evaluates them in each run.

Every property of a passing run but those of liveness is stated by a theorem, in the composition
that its run checks: where components stand side by side, a behaviour of all is one of each
(`SubjectsBehave`, `ApprovalBeside`).

Model-checked only: liveness (`CallsReturn`, `CompletionAccounted`, `WorkersProgress`,
`HostProgress`, `ManagedProgress`).  It needs fairness, and so ENABLED, which is out of the
prover's reach.

## 6. Not modelled

Components without a module: the scanners and the evidence they give (pure functions of texts:
what a scan finds is a constant of the models), the planning of service files (texts, no state), CI
feedback and GitLab access (calls of an external service), the MCP servers and the command
lines but for the set-up commands (adapters), and the practice lab (sample data).

Of those that have one.  Bridge: events that carry the generation of an earlier connection; the
check of the process id in the ledger; the content of prompts, policies and events; connections
without a ledger.  A write to a pipe that nobody reads may block for ever in the code
(codex_app_server.py:730 has no time-out); in the models a write ends.  Workspaces:
`ensure_task_spec`, `last_commit`, a branch switched inside a worktree, and the repository's own
locks.  Publication: the commit message and merge request texts, the Python bindings of the
snapshot, and the gates of validations, reviewability and coverage (each may stop a plan or not).  A
commit is scanned by the tree it makes, and not by its added lines. Remote workspaces: the reading
scripts, artifacts, and the containers of validations; the readings of a remote plan
(controller.py:1924-1988) are one moment.  Validation runs: the Windows branches.  Managed service
and start-up: the parsing of configurations, the encoding of frames, and each single claim of a
reply (they match or do not).  Set-up: inspection and status commands, which read only.

## 7. The plan

Done: every module of section 2, each with the proofs of its safety properties.  What is left, in this order:

1. Proofs: one more abstract specification, beside `MaintenanceGate` and `ApprovalPromise`: a file
   that changes from reviewed to reviewed (of EndpointMigration and ValidationRun's binding).
2. *RemotePublication*, extended: the gates run before the snapshot (controller.py:1988), and each
   reading is a step.  Property: `GatesHonoured` for the remote push.
3. *Connections*: generations and late events together (BridgeTurns beside AppConnections),
   connections without a ledger, and a write that blocks.
4. Pure decisions: the tail of a log, the choice of a backend.
