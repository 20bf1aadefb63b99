-------------------------- MODULE ValidationRun --------------------------
(***************************************************************************)
(* One validation command of a workspace: runner.py resolves the approved  *)
(* Python binding (python_runtime.py) and runs the command under the       *)
(* workspace's mutation lock; validation_process.py collects its output    *)
(* through two pipes under one deadline and cleans its process group up.   *)
(* Operators plan and save bindings meanwhile, the interpreter file may    *)
(* change, and the command may leave a background child with the pipes.    *)
(***************************************************************************)
EXTENDS Naturals

CONSTANTS
  Streams,     \* stdout and stderr
  PipeSize,    \* bound: units a pipe holds
  WriteLimit,  \* bound: units written to a stream
  Retained,    \* units of a stream the capture keeps
  Binders,     \* operators that approve a binding
  ChangeLimit, \* bound: how often the interpreter file changes
  Unbound      \* no record, no holder of the lock

ASSUME ValidationAssumption ==
  /\ {"runner", Unbound} \cap Binders = {} /\ Unbound # "runner"
  /\ PipeSize \in Nat /\ WriteLimit \in Nat /\ Retained \in Nat /\ ChangeLimit \in Nat

VARIABLES
  run,         \* the runner: step, verified interpreter, flags, outcome
  leader,      \* the command's own process
  straggler,       \* a process it left behind
  pipe,        \* stream -> units waiting in its pipe, units ever written
  capture,     \* stream -> units counted, units kept, seen to its end, still read
  overdue,        \* the deadline has passed
  interpreter, \* fingerprint of the selected executable
  binding,     \* fingerprint in the saved record
  plan,        \* operator -> the plan it reviewed
  holder       \* who holds the workspace's mutation lock

validationVars == <<run, leader, straggler, pipe, capture, overdue, interpreter, binding,
                    plan, holder>>
commandVars == <<leader, straggler, pipe>>
bindingVars == <<interpreter, binding, plan, holder>>

NoPlan == [fingerprint |-> Unbound, previous |-> Unbound, step |-> "none"]

ValidationInit ==
  /\ run = [step |-> "new", python |-> Unbound, timedOut |-> FALSE, failed |-> FALSE,
            errors |-> FALSE, outcome |-> "none"]
  /\ leader = "none"
  /\ straggler = [alive |-> FALSE, grouped |-> FALSE, piped |-> FALSE]
  /\ pipe = [s \in Streams |-> [waiting |-> 0, written |-> 0]]
  /\ capture = [s \in Streams |-> [total |-> 0, kept |-> 0, complete |-> FALSE,
                                   open |-> TRUE]]
  /\ overdue = FALSE
  /\ interpreter = 0
  /\ binding \in {0, Unbound}
  /\ plan = [b \in Binders |-> NoPlan]
  /\ holder = Unbound

RunAt(step) == run.step = step
RunGoto(step) == run' = [run EXCEPT !.step = step]
\* A leader that is quiet runs on with both pipes closed.
LeaderRuns == leader \in {"alive", "quiet"}
HasWriter == leader = "alive" \/ (straggler.alive /\ straggler.piped)
GroupMember == LeaderRuns \/ (straggler.alive /\ straggler.grouped)

(***************************************************************************)
(* The runner takes the lock, resolves the binding and spawns the command. *)
(***************************************************************************)
\* A saved binding that no longer matches its interpreter refuses the run.
ResolveBinding ==
  /\ RunAt("new") /\ holder = Unbound
  /\ IF binding \in {Unbound, interpreter}
     THEN /\ holder' = "runner"
          /\ run' = [run EXCEPT !.step = "resolved", !.python = binding]
     ELSE /\ run' = [run EXCEPT !.step = "done", !.outcome = "raised"]
          /\ UNCHANGED holder
  /\ UNCHANGED <<commandVars, capture, overdue, interpreter, binding, plan>>

Spawn ==
  /\ RunAt("resolved")
  /\ RunGoto("collecting")
  /\ leader' = "alive"
  /\ UNCHANGED <<straggler, pipe, capture, overdue, bindingVars>>

(***************************************************************************)
(* _PipeReader.step and _collect: one bounded read per ready stream, the   *)
(* deadline checked before each round.                                     *)
(***************************************************************************)
Ready(s) == capture[s].open /\ (pipe[s].waiting > 0 \/ ~HasWriter)

FaultyFeed(c, units) ==
  [c EXCEPT !.total = @ + units, !.kept = @ + units,
            !.complete = units = 0, !.open = units # 0]

\* A read of nothing is the end of the stream; what is kept is a bounded prefix.
Feed(c, units) ==
  [c EXCEPT !.total = @ + units,
            !.kept = IF @ + units > Retained THEN Retained ELSE @ + units,
            !.complete = units = 0, !.open = units # 0]

ReadReady ==
  /\ \E s \in Streams : Ready(s)
  /\ capture' = [s \in Streams |->
       IF Ready(s) THEN Feed(capture[s], pipe[s].waiting) ELSE capture[s]]
  /\ pipe' = [s \in Streams |->
       IF Ready(s) THEN [pipe[s] EXCEPT !.waiting = 0] ELSE pipe[s]]

AllRead == \A s \in Streams : ~capture[s].open

Collect ==
  /\ RunAt("collecting")
  /\ \/ /\ ~overdue /\ ReadReady
        /\ UNCHANGED run
     \/ /\ overdue
        /\ run' = [run EXCEPT !.step = "terminating", !.timedOut = TRUE]
        /\ UNCHANGED <<capture, pipe>>
     \/ /\ ~overdue /\ AllRead
        /\ RunGoto("waiting")
        /\ UNCHANGED <<capture, pipe>>
  /\ UNCHANGED <<leader, straggler, overdue, bindingVars>>

\* The end of both streams is not the end of the command: its exit is waited for.
WaitForExit ==
  /\ RunAt("waiting")
  /\ \/ /\ leader = "zombie"
        /\ leader' = "reaped"
        /\ RunGoto("closing")
     \/ /\ overdue
        /\ run' = [run EXCEPT !.step = "terminating", !.timedOut = TRUE]
        /\ UNCHANGED leader
  /\ UNCHANGED <<straggler, pipe, capture, overdue, bindingVars>>

\* A read that fails or an interrupt; an interrupted wait may have reaped already.
Interrupted ==
  /\ run.step \in {"collecting", "waiting"}
  /\ run' = [run EXCEPT !.step = "terminating", !.failed = TRUE]
  /\ \/ UNCHANGED leader
     \/ RunAt("waiting") /\ leader = "zombie" /\ leader' = "reaped"
  /\ UNCHANGED <<straggler, pipe, capture, overdue, bindingVars>>

(***************************************************************************)
(* _terminate: TERM, the grace, KILL, and only then the reaping.           *)
(***************************************************************************)
FaultyTerminateGroup ==
  /\ RunAt("terminating")
  /\ RunGoto("killing")
  /\ UNCHANGED <<commandVars, capture, overdue, bindingVars>>

\* With the leader reaped the group's identity is lost and nothing is signalled.
TerminateGroup ==
  /\ RunAt("terminating")
  /\ run' = IF leader = "reaped"
            THEN [run EXCEPT !.step = IF run.timedOut THEN "draining" ELSE "closing",
                             !.errors = TRUE]
            ELSE [run EXCEPT !.step = "killing"]
  /\ UNCHANGED <<commandVars, capture, overdue, bindingVars>>

FaultyKillRunGroup ==
  /\ RunAt("killing")
  /\ leader' = "reaped"
  /\ RunGoto(IF run.timedOut THEN "draining" ELSE "closing")
  /\ UNCHANGED <<straggler, pipe, capture, overdue, bindingVars>>

\* KILL reaches the group, or is refused and only the direct child is killed;
\* a child that left the group keeps running. The wait for the direct child may
\* fail with the child in any state.
KillRunGroup ==
  /\ RunAt("killing")
  /\ \E refused, unreaped \in BOOLEAN :
       /\ leader' \in {"reaped"} \cup IF unreaped THEN {leader, "zombie"} ELSE {}
       /\ straggler' = IF straggler.grouped /\ ~refused THEN [straggler EXCEPT !.alive = FALSE]
                   ELSE straggler
       /\ run' = [run EXCEPT !.errors = refused \/ unreaped,
                    !.step = IF run.timedOut THEN "draining" ELSE "closing"]
  /\ UNCHANGED <<pipe, capture, overdue, bindingVars>>

\* After a timeout what is left in the pipes is read for a moment more.
Drain ==
  /\ RunAt("draining")
  /\ \/ ReadReady /\ UNCHANGED run
     \/ RunGoto("closing") /\ UNCHANGED <<capture, pipe>>
  /\ UNCHANGED <<leader, straggler, overdue, bindingVars>>

FinishRun ==
  /\ RunAt("closing")
  /\ run' = [run EXCEPT !.step = "done",
               !.outcome = IF run.failed \/ run.errors THEN "raised" ELSE "result"]
  /\ capture' = [s \in Streams |-> [capture[s] EXCEPT !.open = FALSE]]
  /\ holder' = Unbound
  /\ UNCHANGED <<commandVars, overdue, interpreter, binding, plan>>

(***************************************************************************)
(* The command and the clock.                                              *)
(***************************************************************************)
Write(s) ==
  /\ HasWriter /\ pipe[s].waiting < PipeSize /\ pipe[s].written < WriteLimit
  /\ ~RunAt("done")
  /\ pipe' = [pipe EXCEPT ![s] = [waiting |-> @.waiting + 1, written |-> @.written + 1]]
  /\ UNCHANGED <<run, leader, straggler, capture, overdue, bindingVars>>

\* The command closes its output, for instance to go on in the background.
ClosePipes ==
  /\ leader = "alive"
  /\ leader' = "quiet"
  /\ UNCHANGED <<run, straggler, pipe, capture, overdue, bindingVars>>

LeaveChild ==
  /\ LeaderRuns /\ ~straggler.alive /\ ~straggler.grouped
  /\ straggler' \in [alive : {TRUE}, grouped : BOOLEAN,
                     piped : {FALSE, leader = "alive"}]
  /\ UNCHANGED <<run, leader, pipe, capture, overdue, bindingVars>>

ProcessEnds ==
  /\ \/ LeaderRuns /\ leader' = "zombie" /\ UNCHANGED straggler
     \/ straggler.alive /\ straggler' = [straggler EXCEPT !.alive = FALSE] /\ UNCHANGED leader
  /\ UNCHANGED <<run, pipe, capture, overdue, bindingVars>>

RunDeadlinePasses ==
  /\ run.step \in {"collecting", "waiting"} /\ ~overdue
  /\ overdue' = TRUE
  /\ UNCHANGED <<run, commandVars, capture, bindingVars>>

(***************************************************************************)
(* PythonBindings: a reviewed plan, then bind() under the lock.            *)
(***************************************************************************)
PlanBinding(b) ==
  /\ plan[b].step = "none"
  /\ plan' = [plan EXCEPT ![b] = [fingerprint |-> interpreter, previous |-> binding,
                                  step |-> "planned"]]
  /\ UNCHANGED <<run, commandVars, capture, overdue, interpreter, binding, holder>>

\* The plan is made again under the lock and has to come out the same.
BindUnderLock(b) ==
  /\ plan[b].step = "planned" /\ holder = Unbound
  /\ IF plan[b].fingerprint = interpreter /\ plan[b].previous = binding
     THEN holder' = b /\ plan' = [plan EXCEPT ![b].step = "probing"]
     ELSE UNCHANGED holder /\ plan' = [plan EXCEPT ![b].step = "refused"]
  /\ UNCHANGED <<run, commandVars, capture, overdue, interpreter, binding>>

FaultySaveBinding(b) ==
  /\ plan[b].step = "probing"
  /\ binding' = interpreter
  /\ plan' = [plan EXCEPT ![b].step = "saved"]
  /\ holder' = Unbound
  /\ UNCHANGED <<run, commandVars, capture, overdue, interpreter>>

\* The probe hashes before and after; a changed executable saves nothing.
SaveBinding(b) ==
  /\ plan[b].step = "probing"
  /\ LET unchanged == interpreter = plan[b].fingerprint
     IN /\ binding' = IF unchanged THEN interpreter ELSE binding
        /\ plan' = [plan EXCEPT ![b].step = IF unchanged THEN "saved" ELSE "refused"]
  /\ holder' = Unbound
  /\ UNCHANGED <<run, commandVars, capture, overdue, interpreter>>

InterpreterChanges ==
  /\ interpreter < ChangeLimit
  /\ interpreter' = interpreter + 1
  /\ UNCHANGED <<run, commandVars, capture, overdue, binding, plan, holder>>

RunnerStep ==
  \/ Collect \/ WaitForExit \/ TerminateGroup \/ KillRunGroup \/ Drain \/ FinishRun

ValidationNext ==
  \/ ResolveBinding \/ Spawn \/ RunnerStep \/ Interrupted
  \/ \E s \in Streams : Write(s)
  \/ ClosePipes \/ LeaveChild \/ ProcessEnds \/ RunDeadlinePasses
  \/ \E b \in Binders : PlanBinding(b) \/ BindUnderLock(b) \/ SaveBinding(b)
  \/ InterpreterChanges

\* The runner keeps running and time passes; the command owes nothing.
ValidationFairness ==
  /\ WF_validationVars(Spawn) /\ WF_validationVars(RunnerStep)
  /\ WF_validationVars(RunDeadlinePasses)

ValidationSpec == ValidationInit /\ [][ValidationNext]_validationVars /\ ValidationFairness

(***************************************************************************)
(* Properties.                                                             *)
(***************************************************************************)
ValidationTypeOK ==
  /\ run.step \in {"new", "resolved", "collecting", "waiting", "terminating",
                   "killing", "draining", "closing", "done"}
  /\ leader \in {"none", "alive", "quiet", "zombie", "reaped"}
  /\ pipe \in [Streams -> [waiting : 0..PipeSize, written : 0..WriteLimit]]
  /\ \A s \in Streams : capture[s].total \in 0..WriteLimit /\ capture[s].kept \in 0..Retained
  /\ binding \in 0..ChangeLimit \cup {Unbound}
  /\ holder \in Binders \cup {"runner", Unbound}

Least(a, b) == IF a < b THEN a ELSE b

\* What is reported of a stream: complete means that every unit anybody wrote was
\* counted and nobody can write more; what is kept is its bounded beginning.
OutputAccounted ==
  \A s \in Streams :
    /\ capture[s].total + pipe[s].waiting = pipe[s].written
    /\ capture[s].kept = Least(capture[s].total, Retained)
    /\ capture[s].complete => capture[s].total = pipe[s].written /\ ~HasWriter

\* A result without a timeout means that the command exited and both streams were
\* read to their end; one with a timeout that nothing of its group is left.
ResultMeansEnded ==
  run.outcome = "result" =>
    /\ leader = "reaped"
    /\ ~run.timedOut => \A s \in Streams : capture[s].complete
    /\ run.timedOut => ~GroupMember

\* The binding that was verified is the one in force while the command runs.
VerifiedBindingInForce ==
  run.step \notin {"new", "done"} => binding = run.python

\* What the caller of a validation may believe: the output, the result, the interpreter.
ValidationReported == OutputAccounted /\ ResultMeansEnded /\ VerifiedBindingInForce

\* No signal goes to the group once its leader was reaped.
NoSignalAfterReaping ==
  [][(RunAt("terminating") /\ run'.step = "killing") => leader # "reaped"]_validationVars

\* A saved binding replaces the record its operator reviewed, with the
\* interpreter the operator reviewed.
BindingReplacesReviewed ==
  [][binding' # binding =>
       \E b \in Binders : /\ plan[b].previous = binding
                          /\ plan[b].fingerprint = binding']_validationVars

\* Whatever the command does with its pipes and children, the run ends.
RunEnds == RunAt("resolved") ~> RunAt("done")
=============================================================================
