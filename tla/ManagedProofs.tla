---------------------------- MODULE ManagedProofs ----------------------------
(***************************************************************************)
(* Safety of what runs processes and answers for them, for any number of   *)
(* requests, streams, operators and replacements, and pipes and captures   *)
(* of any size: the validation command, the disposable start of a managed  *)
(* Bridge, and the managed service.                                        *)
(*                                                                         *)
(* All three act on things that others change meanwhile.  What is proved   *)
(* rests on what cannot come back: a command that was reaped leaves no new *)
(* child, a reply is written once, a version that was replaced is never    *)
(* there again.                                                            *)
(***************************************************************************)
EXTENDS MCManaged, TLAPS

-----------------------------------------------------------------------------
(***************************************************************************)
(* The validation command.                                                 *)
(***************************************************************************)
Fingerprints == 0..ChangeLimit \cup {Unbound}
RunRecord ==
  [step : {"new", "resolved", "collecting", "waiting", "terminating", "killing", "draining",
           "closing", "done"},
   python : Fingerprints, timedOut : BOOLEAN, failed : BOOLEAN, errors : BOOLEAN,
   outcome : {"none", "raised", "result"}]
StragglerRecord == [alive : BOOLEAN, grouped : BOOLEAN, piped : BOOLEAN]
PipeRecord == [waiting : 0..PipeSize, written : 0..WriteLimit]
CaptureRecord == [total : Nat, kept : Nat, complete : BOOLEAN, open : BOOLEAN]
PlanRecord == [fingerprint : Fingerprints, previous : Fingerprints,
               step : {"none", "planned", "probing", "saved", "refused"}]

RunTyped ==
  /\ run \in RunRecord
  /\ leader \in {"none", "alive", "quiet", "zombie", "reaped"}
  /\ straggler \in StragglerRecord
  /\ pipe \in [Streams -> PipeRecord]
  /\ capture \in [Streams -> CaptureRecord]
  /\ overdue \in BOOLEAN

BindingTyped ==
  /\ interpreter \in 0..ChangeLimit /\ binding \in Fingerprints
  /\ plan \in [Binders -> PlanRecord]
  /\ holder \in Binders \cup {"runner", Unbound}

\* What was counted and what waits is what was written; a stream that is complete is empty.
StreamExact(p, c) ==
  /\ c.total + p.waiting = p.written
  /\ c.kept = Least(c.total, Retained)
  /\ c.complete => p.waiting = 0

\* Nobody writes any more into a stream that was read to its end; a stream that is not read
\* any more while the command is looked after was.
Streamed ==
  /\ \A s \in Streams : StreamExact(pipe[s], capture[s])
  /\ \A s \in Streams : capture[s].complete => ~ HasWriter
  /\ \A s \in Streams : ~ capture[s].open => capture[s].complete \/ RunAt("done")

AllComplete == \A s \in Streams : capture[s].complete

\* Of the command's group nothing is left, or the clean-up could not see to it.
GroupGone == run.errors \/ ~ (straggler.alive /\ straggler.grouped)

\* How far the end of the command has come at each step of the runner.
Ending ==
  /\ run.step \in {"new", "resolved"} => leader = "none" /\ ~ straggler.alive
  /\ run.step \in {"new", "resolved"} => \A s \in Streams : ~ capture[s].complete
  /\ run.step \in {"new", "resolved", "collecting", "waiting"} => ~ run.timedOut
  /\ run.step = "waiting" => AllComplete
  /\ run.step \in {"terminating", "killing", "draining"} => run.timedOut \/ run.failed
  /\ run.step = "draining" => (leader = "reaped" \/ run.errors) /\ GroupGone
  /\ run.step = "closing" =>
       /\ leader = "reaped" \/ run.errors
       /\ run.timedOut \/ run.failed \/ run.errors \/ AllComplete
       /\ run.timedOut => GroupGone
  /\ run.outcome # "none" => run.step = "done"

\* Who has the lock has verified, or reviewed, the binding in force.
Locking ==
  /\ run.step \notin {"new", "done"} => holder = "runner" /\ binding = run.python
  /\ holder = "runner" => run.step \notin {"new", "done"}
  /\ \A b \in Binders : plan[b].step = "probing" => holder = b /\ plan[b].previous = binding

ValidationInv ==
  RunTyped /\ BindingTyped /\ Streamed /\ Ending /\ ResultMeansEnded /\ Locking

-----------------------------------------------------------------------------
LEMMA ValidationStart == ValidationInit => ValidationInv
<1> SUFFICES ASSUME ValidationInit PROVE ValidationInv
  OBVIOUS
<1> USE ValidationAssumption DEF ValidationInit
<1>1. RunTyped
  <2>1. run \in RunRecord
    BY DEF RunRecord, Fingerprints
  <2>2. straggler \in StragglerRecord /\ overdue \in BOOLEAN
    BY DEF StragglerRecord
  <2>3. pipe \in [Streams -> PipeRecord] /\ capture \in [Streams -> CaptureRecord]
    BY DEF PipeRecord, CaptureRecord
  <2> QED
    BY <2>1, <2>2, <2>3 DEF RunTyped
<1>2. BindingTyped
  BY DEF BindingTyped, PlanRecord, NoPlan, Fingerprints
<1>3. Streamed
  BY DEF Streamed, StreamExact, Least, HasWriter
<1>4. Ending /\ ResultMeansEnded
  BY DEF Ending, ResultMeansEnded
<1>5. Locking
  BY DEF Locking, NoPlan
<1> QED
  BY <1>1, <1>2, <1>3, <1>4, <1>5 DEF ValidationInv

\* A read takes what waits, and ends a stream that nobody can write to.
LEMMA FedStream ==
  ASSUME NEW p \in PipeRecord, NEW c \in CaptureRecord, StreamExact(p, c), c.open
  PROVE  /\ Feed(c, p.waiting) \in CaptureRecord
         /\ [p EXCEPT !.waiting = 0] \in PipeRecord
         /\ StreamExact([p EXCEPT !.waiting = 0], Feed(c, p.waiting))
         /\ Feed(c, p.waiting).complete <=> p.waiting = 0
         /\ Feed(c, p.waiting).open <=> p.waiting # 0
<1> USE ValidationAssumption DEF PipeRecord, CaptureRecord
<1>1. PICK w \in 0..PipeSize : w = p.waiting
  OBVIOUS
<1>2. PICK f : f = Feed(c, w)
  OBVIOUS
<1>3. /\ f.total = c.total + w
      /\ f.kept = IF c.kept + w > Retained THEN Retained ELSE c.kept + w
      /\ f.complete <=> w = 0
      /\ f.open <=> w # 0
  BY <1>2 DEF Feed
<1>4. f \in CaptureRecord
  <2>1. c.total + w \in Nat /\ c.kept + w \in Nat
    OBVIOUS
  <2>2. PICK total \in Nat : total = c.total + w
    BY <2>1
  <2>3. PICK kept \in Nat : kept = IF c.kept + w > Retained THEN Retained ELSE c.kept + w
    BY <2>1
  <2>4. CASE w = 0
    <3>1. f = [total |-> total, kept |-> kept, complete |-> TRUE, open |-> FALSE]
      BY <1>2, <2>2, <2>3, <2>4 DEF Feed
    <3> QED
      BY <3>1
  <2>5. CASE w # 0
    <3>1. f = [total |-> total, kept |-> kept, complete |-> FALSE, open |-> TRUE]
      BY <1>2, <2>2, <2>3, <2>5 DEF Feed
    <3> QED
      BY <3>1
  <2> QED
    BY <2>4, <2>5
<1>5. PICK q : q = [p EXCEPT !.waiting = 0]
  OBVIOUS
<1>6. q \in PipeRecord /\ q.waiting = 0 /\ q.written = p.written
  BY <1>5
<1>7. f.kept = Least(f.total, Retained)
  BY <1>3 DEF StreamExact, Least
<1>8. StreamExact(q, f)
  BY <1>1, <1>3, <1>6, <1>7 DEF StreamExact
<1> QED
  BY <1>1, <1>2, <1>3, <1>4, <1>5, <1>6, <1>8

LEMMA ReadKeeps ==
  ASSUME ValidationInv, ReadReady, UNCHANGED <<leader, straggler>>, ~ RunAt("done"),
         run'.step \in {run.step, "closing"}
  PROVE  /\ pipe' \in [Streams -> PipeRecord] /\ capture' \in [Streams -> CaptureRecord]
         /\ Streamed'
<1>1. /\ pipe \in [Streams -> PipeRecord] /\ capture \in [Streams -> CaptureRecord]
      /\ \A s \in Streams : StreamExact(pipe[s], capture[s])
      /\ \A s \in Streams : capture[s].complete => ~ HasWriter
      /\ \A s \in Streams : ~ capture[s].open => capture[s].complete
  BY DEF ValidationInv, RunTyped, Streamed
<1>2. ASSUME NEW s \in Streams
      PROVE  /\ pipe'[s] \in PipeRecord /\ capture'[s] \in CaptureRecord
             /\ StreamExact(pipe'[s], capture'[s])
             /\ capture'[s].complete => ~ HasWriter
             /\ ~ capture'[s].open => capture'[s].complete
  <2>1. CASE Ready(s)
    <3>1. PICK p : p = pipe[s]
      OBVIOUS
    <3>2. PICK c : c = capture[s]
      OBVIOUS
    <3>3. /\ p \in PipeRecord /\ c \in CaptureRecord /\ StreamExact(p, c) /\ c.open
          /\ p.waiting > 0 \/ ~ HasWriter
      BY <1>1, <2>1, <3>1, <3>2 DEF Ready
    <3>4. pipe'[s] = [p EXCEPT !.waiting = 0] /\ capture'[s] = Feed(c, p.waiting)
      BY <2>1, <3>1, <3>2 DEF ReadReady
    <3>5. Feed(c, p.waiting).complete <=> p.waiting = 0
      BY <3>3, FedStream
    <3>6. Feed(c, p.waiting).complete => ~ HasWriter
      BY <3>3, <3>5
    <3> QED
      BY <3>3, <3>4, <3>6, FedStream
  <2>2. CASE ~ Ready(s)
    <3>1. pipe'[s] = pipe[s] /\ capture'[s] = capture[s]
      BY <2>2 DEF ReadReady
    <3> QED
      BY <1>1, <3>1
  <2> QED
    BY <2>1, <2>2
<1>3. HasWriter' <=> HasWriter
  BY DEF HasWriter
<1>4. pipe' \in [Streams -> PipeRecord] /\ capture' \in [Streams -> CaptureRecord]
  BY <1>2 DEF ReadReady
<1>5. Streamed'
  BY <1>2, <1>3 DEF Streamed
<1> QED
  BY <1>4, <1>5

\* What does not touch the streams, and gives them no writer, keeps what is known of them.
LEMMA StreamsStay ==
  ASSUME Streamed, UNCHANGED <<pipe, capture>>, HasWriter' => HasWriter,
         RunAt("done") => RunAt("done")'
  PROVE  Streamed'
BY DEF Streamed, StreamExact

\* What does not touch the bindings, and neither takes nor gives back the lock, keeps what
\* is known of them.
LEMMA LocksStay ==
  ASSUME BindingTyped, Locking, UNCHANGED bindingVars, run'.python = run.python,
         run.step \in {"new", "done"} <=> run'.step \in {"new", "done"}
  PROVE  BindingTyped' /\ Locking'
BY DEF BindingTyped, Locking, bindingVars

-----------------------------------------------------------------------------
(* The steps of the command and of its children. *)

LEMMA WriteKeeps ==
  ASSUME ValidationInv, NEW s \in Streams, Write(s) PROVE ValidationInv'
<1> USE DEF ValidationInv, RunTyped, Write
<1>1. PICK p : p = pipe[s]
  OBVIOUS
<1>2. PICK q : q = [waiting |-> p.waiting + 1, written |-> p.written + 1]
  OBVIOUS
<1>3. /\ p \in PipeRecord /\ p.waiting < PipeSize /\ p.written < WriteLimit
      /\ StreamExact(p, capture[s]) /\ capture[s] \in CaptureRecord /\ ~ capture[s].complete
  BY <1>1 DEF Streamed
<1>4. /\ q \in PipeRecord /\ StreamExact(q, capture[s])
      /\ q.waiting = p.waiting + 1 /\ q.written = p.written + 1
  BY <1>2, <1>3, ValidationAssumption DEF PipeRecord, StreamExact, CaptureRecord
<1>5. pipe' = [pipe EXCEPT ![s] = q]
  BY <1>1, <1>2
<1>6. RunTyped'
  BY <1>4, <1>5
<1>7. HasWriter' <=> HasWriter
  BY DEF HasWriter
<1>8. \A r \in Streams : pipe'[r] = IF r = s THEN q ELSE pipe[r]
  BY <1>5
<1>9. Streamed'
  BY <1>3, <1>4, <1>7, <1>8 DEF Streamed, RunAt
<1>10. /\ UNCHANGED <<run, leader, straggler, capture>> /\ GroupGone' = GroupGone
       /\ GroupMember' = GroupMember /\ AllComplete' = AllComplete
  BY DEF GroupGone, GroupMember, LeaderRuns, AllComplete
<1>11. Ending' /\ ResultMeansEnded'
  <2> HIDE DEF RunTyped, Write
  <2> QED
    BY <1>10 DEF Ending, ResultMeansEnded
<1>12. BindingTyped' /\ Locking'
  BY LocksStay
<1> QED
  BY <1>6, <1>9, <1>11, <1>12

\* A process that ends, or leaves a child while it lives, gives no stream a new writer.
LEMMA CommandKeeps ==
  ASSUME ValidationInv, ClosePipes \/ LeaveChild \/ ProcessEnds \/ RunDeadlinePasses
  PROVE  ValidationInv'
<1> USE DEF ValidationInv
<1>1. /\ UNCHANGED <<run, pipe, capture>> /\ UNCHANGED bindingVars
      /\ leader' = leader \/ (leader \in {"alive", "quiet"} /\ leader' \in {"quiet", "zombie"})
      /\ overdue' \in BOOLEAN
  BY DEF ClosePipes, LeaveChild, ProcessEnds, RunDeadlinePasses, RunTyped, commandVars, LeaderRuns
<1>2. /\ straggler' \in StragglerRecord
      /\ straggler' = straggler \/ leader = "alive"
           \/ (leader = "quiet" /\ ~ straggler'.piped)
           \/ (straggler'.grouped = straggler.grouped /\ ~ straggler'.alive)
  <2>1. CASE LeaveChild
    BY <2>1 DEF LeaveChild, StragglerRecord, LeaderRuns
  <2>2. CASE straggler' = straggler
    BY <2>2 DEF RunTyped
  <2>3. CASE straggler' = [straggler EXCEPT !.alive = FALSE]
    BY <2>3 DEF RunTyped, StragglerRecord
  <2> QED
    BY <2>1, <2>2, <2>3 DEF ClosePipes, ProcessEnds, RunDeadlinePasses, commandVars
<1>3. RunTyped'
  BY <1>1, <1>2 DEF RunTyped
<1>4. HasWriter' => HasWriter
  BY <1>1, <1>2 DEF HasWriter
<1>5. Streamed'
  BY <1>1, <1>4, StreamsStay DEF RunAt
<1>6. BindingTyped' /\ Locking'
  BY <1>1, LocksStay
<1>7. leader \in {"none", "reaped"} => leader' = leader
                                       /\ (~ straggler.alive => ~ straggler'.alive)
                                       /\ (GroupGone => GroupGone')
  BY <1>1, <1>2 DEF GroupGone, RunTyped, StragglerRecord
<1>8. Ending'
  BY <1>1, <1>7 DEF Ending, AllComplete, GroupGone
<1>9. ResultMeansEnded'
  BY <1>1, <1>2 DEF ResultMeansEnded, GroupMember, LeaderRuns
<1> QED
  BY <1>3, <1>5, <1>6, <1>8, <1>9

-----------------------------------------------------------------------------
(* The steps of the operators who bind an interpreter. *)

\* What leaves the run, its command and its streams alone keeps what is known of them.
LEMMA RunStays ==
  ASSUME ValidationInv, UNCHANGED <<run, commandVars, capture, overdue>>
  PROVE  RunTyped' /\ Streamed' /\ Ending' /\ ResultMeansEnded'
<1>1. UNCHANGED <<run, leader, straggler, pipe, capture, overdue>>
  BY DEF commandVars
<1>2. RunTyped'
  BY <1>1 DEF ValidationInv, RunTyped
<1>3. Streamed'
  BY <1>1, StreamsStay DEF ValidationInv, HasWriter, RunAt
<1>4. Ending' /\ ResultMeansEnded'
  BY <1>1 DEF ValidationInv, Ending, ResultMeansEnded, AllComplete, GroupGone, GroupMember, LeaderRuns
<1> QED
  BY <1>2, <1>3, <1>4

LEMMA BindersKeep ==
  ASSUME ValidationInv,
         InterpreterChanges
           \/ \E b \in Binders : PlanBinding(b) \/ BindUnderLock(b) \/ SaveBinding(b)
  PROVE  ValidationInv'
<1> USE ValidationAssumption
<1>1. UNCHANGED <<run, commandVars, capture, overdue>>
  BY DEF InterpreterChanges, PlanBinding, BindUnderLock, SaveBinding
<1>2. BindingTyped /\ Locking
  BY DEF ValidationInv
<1>3. run' = run
  BY <1>1
<1>4. ASSUME InterpreterChanges PROVE BindingTyped' /\ Locking'
  BY <1>2, <1>3, <1>4 DEF InterpreterChanges, BindingTyped, Locking
<1>5. ASSUME NEW b \in Binders, PlanBinding(b) PROVE BindingTyped' /\ Locking'
  <2>1. PICK k : k = [fingerprint |-> interpreter, previous |-> binding, step |-> "planned"]
    OBVIOUS
  <2>2. k \in PlanRecord /\ k.step = "planned"
    BY <1>2, <2>1 DEF BindingTyped, PlanRecord, Fingerprints
  <2>3. plan' = [plan EXCEPT ![b] = k] /\ UNCHANGED <<interpreter, binding, holder>>
    BY <1>5, <2>1 DEF PlanBinding
  <2> QED
    BY <1>2, <1>3, <2>2, <2>3 DEF BindingTyped, Locking
<1>6. ASSUME NEW b \in Binders, BindUnderLock(b) PROVE BindingTyped' /\ Locking'
  <2>1. PICK p : p = plan[b]
    OBVIOUS
  <2>2. /\ p \in PlanRecord /\ holder = Unbound
        /\ UNCHANGED <<interpreter, binding>>
        /\ run.step \in {"new", "done"}
    BY <1>2, <1>6, <2>1 DEF BindUnderLock, BindingTyped, Locking
  <2>3. \A d \in Binders : plan[d].step # "probing"
    BY <1>2, <2>2 DEF Locking
  <2>4. CASE p.fingerprint = interpreter /\ p.previous = binding
    <3>1. PICK k : k = [p EXCEPT !.step = "probing"]
      OBVIOUS
    <3>2. k \in PlanRecord /\ k.previous = binding
      BY <2>2, <2>4, <3>1 DEF PlanRecord
    <3>3. plan' = [plan EXCEPT ![b] = k] /\ holder' = b
      BY <1>6, <2>1, <2>4, <3>1 DEF BindUnderLock
    <3> QED
      BY <1>2, <1>3, <2>2, <2>3, <3>2, <3>3 DEF BindingTyped, Locking
  <2>5. CASE ~ (p.fingerprint = interpreter /\ p.previous = binding)
    <3>1. PICK k : k = [p EXCEPT !.step = "refused"]
      OBVIOUS
    <3>2. k \in PlanRecord /\ k.step = "refused"
      BY <2>2, <3>1 DEF PlanRecord
    <3>3. plan' = [plan EXCEPT ![b] = k] /\ holder' = holder
      BY <1>6, <2>1, <2>5, <3>1 DEF BindUnderLock
    <3> QED
      BY <1>2, <1>3, <2>2, <3>2, <3>3 DEF BindingTyped, Locking
  <2> QED
    BY <2>4, <2>5
<1>7. ASSUME NEW b \in Binders, SaveBinding(b) PROVE BindingTyped' /\ Locking'
  <2>1. PICK p : p = plan[b]
    OBVIOUS
  <2>2. PICK k : k = [p EXCEPT !.step = IF interpreter = p.fingerprint THEN "saved"
                                                                     ELSE "refused"]
    OBVIOUS
  <2>3. p \in PlanRecord /\ p.step = "probing" /\ holder = b /\ run.step \in {"new", "done"}
    BY <1>2, <1>7, <2>1 DEF SaveBinding, BindingTyped, Locking
  <2>4. k \in PlanRecord /\ k.step # "probing"
    BY <2>2, <2>3 DEF PlanRecord
  <2>5. /\ plan' = [plan EXCEPT ![b] = k]
        /\ binding' \in {interpreter, binding} /\ holder' = Unbound /\ interpreter' = interpreter
    BY <1>7, <2>1, <2>2 DEF SaveBinding
  <2>6. \A d \in Binders : plan'[d].step # "probing"
    BY <1>2, <2>3, <2>4, <2>5 DEF Locking, BindingTyped
  <2>7. BindingTyped'
    BY <1>2, <2>4, <2>5 DEF BindingTyped, Fingerprints
  <2> QED
    BY <1>2, <1>3, <2>3, <2>5, <2>6, <2>7 DEF Locking
<1>8. BindingTyped' /\ Locking'
  BY <1>4, <1>5, <1>6, <1>7
<1> QED
  BY <1>1, <1>8, RunStays DEF ValidationInv

-----------------------------------------------------------------------------
(* The steps of the runner. *)

LEMMA ResolveKeeps ==
  ASSUME ValidationInv, ResolveBinding PROVE ValidationInv'
<1> USE ValidationAssumption DEF ValidationInv, ResolveBinding
<1>1. /\ UNCHANGED <<leader, straggler, pipe, capture, overdue, interpreter, binding, plan>>
      /\ run.step = "new" /\ run \in RunRecord /\ holder = Unbound
  BY DEF commandVars, RunAt, RunTyped
<1>2. PICK k : k = run'
  OBVIOUS
<1>3. /\ k \in RunRecord /\ k.timedOut = run.timedOut
      /\ \/ /\ k.step = "resolved" /\ k.python = binding /\ k.outcome = run.outcome
            /\ holder' = "runner"
         \/ k.step = "done" /\ k.outcome = "raised" /\ holder' = holder
  <2>1. CASE binding \in {Unbound, interpreter}
    <3>1. k = [run EXCEPT !.step = "resolved", !.python = binding] /\ holder' = "runner"
      BY <1>2, <2>1
    <3> QED
      BY <1>1, <3>1 DEF RunRecord, BindingTyped
  <2>2. CASE ~ (binding \in {Unbound, interpreter})
    <3>1. k = [run EXCEPT !.step = "done", !.outcome = "raised"] /\ holder' = holder
      BY <1>2, <2>2
    <3> QED
      BY <1>1, <3>1 DEF RunRecord
  <2> QED
    BY <2>1, <2>2
<1>4. RunTyped' /\ BindingTyped'
  BY <1>1, <1>2, <1>3 DEF RunTyped, BindingTyped
<1>5. Streamed'
  BY <1>1, StreamsStay DEF HasWriter, RunAt
<1>6. Ending' /\ ResultMeansEnded'
  BY <1>1, <1>2, <1>3 DEF Ending, ResultMeansEnded, AllComplete
<1>7. Locking'
  BY <1>1, <1>2, <1>3 DEF Locking
<1> QED
  BY <1>4, <1>5, <1>6, <1>7

LEMMA SpawnKeeps ==
  ASSUME ValidationInv, Spawn PROVE ValidationInv'
<1> USE DEF ValidationInv, Spawn
<1>1. /\ UNCHANGED <<straggler, pipe, capture, overdue>> /\ UNCHANGED bindingVars
      /\ run.step = "resolved" /\ run \in RunRecord /\ leader' = "alive"
  BY DEF RunAt, RunTyped
<1>2. PICK k : k = [run EXCEPT !.step = "collecting"]
  OBVIOUS
<1>3. /\ run' = k /\ k \in RunRecord /\ k.step = "collecting" /\ k.timedOut = run.timedOut
      /\ k.python = run.python /\ k.outcome = run.outcome
  BY <1>1, <1>2 DEF RunGoto, RunRecord
<1>4. RunTyped'
  BY <1>1, <1>3 DEF RunTyped
<1>5. \A s \in Streams : ~ capture[s].complete
  BY <1>1 DEF Ending
<1>6. Streamed'
  BY <1>1, <1>5 DEF Streamed, StreamExact, RunAt
<1>7. Ending' /\ ResultMeansEnded'
  BY <1>1, <1>3 DEF Ending, ResultMeansEnded
<1>8. BindingTyped' /\ Locking'
  BY <1>1, <1>3, LocksStay
<1> QED
  BY <1>4, <1>6, <1>7, <1>8

\* A run that is given up is cleaned up.
LEMMA RunEnding ==
  ASSUME ValidationInv, UNCHANGED <<straggler, pipe, capture, overdue>>, UNCHANGED bindingVars,
         run.step \in {"collecting", "waiting"}, leader' \in {leader, "reaped"},
         NEW k \in RunRecord, run' = k, k.step = "terminating", k.timedOut \/ k.failed,
         k.python = run.python, k.outcome = run.outcome
  PROVE  ValidationInv'
<1> USE DEF ValidationInv
<1>1. RunTyped'
  BY DEF RunTyped
<1>2. Streamed'
  BY StreamsStay DEF HasWriter, RunAt
<1>3. Ending' /\ ResultMeansEnded'
  BY DEF Ending, ResultMeansEnded
<1>4. BindingTyped' /\ Locking'
  BY LocksStay
<1> QED
  BY <1>1, <1>2, <1>3, <1>4

LEMMA CollectKeeps ==
  ASSUME ValidationInv, Collect PROVE ValidationInv'
<1> USE DEF ValidationInv, Collect
<1>1. /\ UNCHANGED <<leader, straggler, overdue>> /\ UNCHANGED bindingVars
      /\ run.step = "collecting" /\ run \in RunRecord
  BY DEF RunAt, RunTyped
<1>2. CASE ReadReady /\ run' = run
  <2>1. RunTyped' /\ Streamed'
    BY <1>1, <1>2, ReadKeeps DEF RunTyped, RunAt
  <2>2. Ending' /\ ResultMeansEnded'
    BY <1>1, <1>2 DEF Ending, ResultMeansEnded
  <2> QED
    BY <1>1, <1>2, <2>1, <2>2, LocksStay
<1>3. CASE run' = [run EXCEPT !.step = "terminating", !.timedOut = TRUE]
           /\ UNCHANGED <<capture, pipe>>
  <2>1. PICK k : k = [run EXCEPT !.step = "terminating", !.timedOut = TRUE]
    OBVIOUS
  <2>2. /\ k \in RunRecord /\ k.step = "terminating" /\ k.timedOut
        /\ k.python = run.python /\ k.outcome = run.outcome
    BY <1>1, <2>1 DEF RunRecord
  <2> QED
    BY <1>1, <1>3, <2>1, <2>2, RunEnding
<1>4. CASE AllRead /\ RunGoto("waiting") /\ UNCHANGED <<capture, pipe>>
  <2>1. PICK k : k = [run EXCEPT !.step = "waiting"]
    OBVIOUS
  <2>2. /\ k \in RunRecord /\ k.step = "waiting" /\ k.timedOut = run.timedOut
        /\ k.python = run.python /\ k.outcome = run.outcome /\ run' = k
    BY <1>1, <1>4, <2>1 DEF RunRecord, RunGoto
  <2>3. AllComplete
    BY <1>1, <1>4 DEF AllRead, AllComplete, Streamed, RunAt
  <2>4. RunTyped' /\ Streamed'
    BY <1>1, <1>4, <2>2, StreamsStay DEF RunTyped, HasWriter, RunAt
  <2>5. Ending' /\ ResultMeansEnded'
    BY <1>1, <1>4, <2>2, <2>3 DEF Ending, ResultMeansEnded, AllComplete
  <2> QED
    BY <1>1, <2>2, <2>4, <2>5, LocksStay
<1> QED
  BY <1>2, <1>3, <1>4

LEMMA WaitKeeps ==
  ASSUME ValidationInv, WaitForExit \/ Interrupted PROVE ValidationInv'
<1> USE DEF ValidationInv
<1>1. /\ UNCHANGED <<straggler, pipe, capture, overdue>> /\ UNCHANGED bindingVars
      /\ run.step \in {"collecting", "waiting"} /\ run \in RunRecord
      /\ leader' \in {leader, "reaped"}
  BY DEF WaitForExit, Interrupted, RunAt, RunTyped
<1>2. CASE \/ run' = [run EXCEPT !.step = "terminating", !.timedOut = TRUE]
           \/ run' = [run EXCEPT !.step = "terminating", !.failed = TRUE]
  <2>1. PICK k : k = run'
    OBVIOUS
  <2>2. /\ k \in RunRecord /\ k.step = "terminating" /\ (k.timedOut \/ k.failed)
        /\ k.python = run.python /\ k.outcome = run.outcome
    <3>1. CASE k = [run EXCEPT !.step = "terminating", !.timedOut = TRUE]
      BY <1>1, <3>1 DEF RunRecord
    <3>2. CASE k = [run EXCEPT !.step = "terminating", !.failed = TRUE]
      BY <1>1, <3>2 DEF RunRecord
    <3> QED
      BY <1>2, <2>1, <3>1, <3>2
  <2> QED
    BY <1>1, <2>1, <2>2, RunEnding
<1>3. CASE WaitForExit /\ RunGoto("closing")
  <2>1. PICK k : k = [run EXCEPT !.step = "closing"]
    OBVIOUS
  <2>2. /\ k \in RunRecord /\ k.step = "closing" /\ k.timedOut = run.timedOut
        /\ k.python = run.python /\ k.outcome = run.outcome /\ run' = k
    BY <1>1, <1>3, <2>1 DEF RunRecord, RunGoto
  <2>3. run.step = "waiting" /\ AllComplete /\ ~ run.timedOut
    BY <1>3 DEF WaitForExit, RunAt, Ending
  <2>4. leader' = "reaped"
    <3>1. run'.step # "terminating"
      BY <2>2
    <3>2. run' # [run EXCEPT !.step = "terminating", !.timedOut = TRUE]
      BY <1>1, <3>1 DEF RunRecord
    <3> QED
      BY <1>3, <3>2 DEF WaitForExit
  <2>5. RunTyped'
    BY <1>1, <2>2, <2>4 DEF RunTyped
  <2>6. Streamed'
    BY <1>1, <2>2, <2>4, StreamsStay DEF HasWriter, RunAt
  <2>7. Ending' /\ ResultMeansEnded'
    BY <1>1, <2>2, <2>3, <2>4 DEF Ending, ResultMeansEnded, AllComplete
  <2> QED
    BY <1>1, <2>2, <2>5, <2>6, <2>7, LocksStay
<1> QED
  BY <1>2, <1>3 DEF WaitForExit, Interrupted

LEMMA TerminateKeeps ==
  ASSUME ValidationInv, TerminateGroup PROVE ValidationInv'
<1> USE DEF ValidationInv
<1>1. /\ UNCHANGED <<leader, straggler, pipe, capture, overdue>> /\ UNCHANGED bindingVars
      /\ run.step = "terminating" /\ run \in RunRecord
  BY DEF TerminateGroup, RunAt, RunTyped, commandVars
<1>2. PICK k : k = run'
  OBVIOUS
<1>3. /\ k \in RunRecord /\ k.timedOut = run.timedOut /\ k.failed = run.failed
      /\ k.python = run.python /\ k.outcome = run.outcome
      /\ \/ /\ leader = "reaped" /\ k.errors
            /\ (k.step = "draining" /\ run.timedOut) \/ k.step = "closing"
         \/ k.step = "killing"
  <2>1. CASE leader = "reaped"
    <3>1. k = [run EXCEPT !.step = IF run.timedOut THEN "draining" ELSE "closing", !.errors = TRUE]
      BY <1>2, <2>1 DEF TerminateGroup
    <3> QED
      BY <1>1, <2>1, <3>1 DEF RunRecord
  <2>2. CASE leader # "reaped"
    <3>1. k = [run EXCEPT !.step = "killing"]
      BY <1>2, <2>2 DEF TerminateGroup
    <3> QED
      BY <1>1, <3>1 DEF RunRecord
  <2> QED
    BY <2>1, <2>2
<1>4. RunTyped'
  BY <1>1, <1>2, <1>3 DEF RunTyped
<1>5. Streamed'
  BY <1>1, StreamsStay DEF HasWriter, RunAt
<1>6. Ending' /\ ResultMeansEnded'
  BY <1>1, <1>2, <1>3 DEF Ending, ResultMeansEnded, GroupGone
<1>7. BindingTyped' /\ Locking'
  BY <1>1, <1>2, <1>3, LocksStay
<1> QED
  BY <1>4, <1>5, <1>6, <1>7

LEMMA KillKeeps ==
  ASSUME ValidationInv, KillRunGroup PROVE ValidationInv'
<1> USE DEF ValidationInv
<1>1. /\ UNCHANGED <<pipe, capture, overdue>> /\ UNCHANGED bindingVars
      /\ run.step = "killing" /\ run \in RunRecord /\ straggler \in StragglerRecord
  BY DEF KillRunGroup, RunAt, RunTyped
<1>2. PICK refused \in BOOLEAN, unreaped \in BOOLEAN :
        /\ leader' \in {"reaped"} \cup IF unreaped THEN {leader, "zombie"} ELSE {}
        /\ straggler' = IF straggler.grouped /\ ~ refused
                          THEN [straggler EXCEPT !.alive = FALSE] ELSE straggler
        /\ run' = [run EXCEPT !.errors = refused \/ unreaped,
                     !.step = IF run.timedOut THEN "draining" ELSE "closing"]
  BY DEF KillRunGroup
<1>3. PICK k : k = run'
  OBVIOUS
<1>4. /\ k \in RunRecord /\ k.timedOut = run.timedOut /\ k.failed = run.failed
      /\ k.errors = (refused \/ unreaped) /\ k.python = run.python /\ k.outcome = run.outcome
      /\ (k.step = "draining" /\ run.timedOut) \/ k.step = "closing"
  BY <1>1, <1>2, <1>3 DEF RunRecord
<1>5. /\ straggler' \in StragglerRecord
      /\ straggler'.alive => straggler.alive
      /\ straggler'.piped = straggler.piped
      /\ refused \/ ~ (straggler'.alive /\ straggler'.grouped)
      /\ leader' \in {"none", "alive", "quiet", "zombie", "reaped"}
      /\ leader' = "reaped" \/ (k.errors /\ leader' \in {leader, "zombie"})
  BY <1>1, <1>2, <1>4 DEF StragglerRecord, RunTyped
<1>6. RunTyped'
  BY <1>1, <1>3, <1>4, <1>5 DEF RunTyped
<1>7. HasWriter' => HasWriter
  BY <1>1, <1>5 DEF HasWriter
<1>8. Streamed'
  BY <1>1, <1>7, StreamsStay DEF RunAt
<1>9. GroupGone'
  BY <1>3, <1>4, <1>5 DEF GroupGone
<1>10. (run.timedOut \/ run.failed) /\ k.outcome = "none"
  BY <1>1, <1>4 DEF Ending, RunRecord
<1>11. Ending' /\ ResultMeansEnded'
  BY <1>3, <1>4, <1>5, <1>9, <1>10 DEF Ending, ResultMeansEnded
<1>12. BindingTyped' /\ Locking'
  BY <1>1, <1>3, <1>4, LocksStay
<1> QED
  BY <1>6, <1>8, <1>11, <1>12

LEMMA DrainKeeps ==
  ASSUME ValidationInv, Drain PROVE ValidationInv'
<1> USE DEF ValidationInv
<1>1. /\ UNCHANGED <<leader, straggler, overdue>> /\ UNCHANGED bindingVars
      /\ run.step = "draining" /\ run \in RunRecord
      /\ leader = "reaped" \/ run.errors
      /\ GroupGone /\ (run.timedOut \/ run.failed)
  BY DEF Drain, RunAt, RunTyped, Ending
<1>2. CASE ReadReady /\ run' = run
  <2>1. RunTyped' /\ Streamed'
    BY <1>1, <1>2, ReadKeeps DEF RunTyped, RunAt
  <2>2. Ending' /\ ResultMeansEnded'
    BY <1>1, <1>2 DEF Ending, ResultMeansEnded, GroupGone
  <2> QED
    BY <1>1, <1>2, <2>1, <2>2, LocksStay
<1>3. CASE RunGoto("closing") /\ UNCHANGED <<capture, pipe>>
  <2>1. PICK k : k = [run EXCEPT !.step = "closing"]
    OBVIOUS
  <2>2. /\ k \in RunRecord /\ k.step = "closing" /\ run' = k
        /\ k.timedOut = run.timedOut /\ k.failed = run.failed /\ k.errors = run.errors
        /\ k.python = run.python /\ k.outcome = run.outcome
    BY <1>1, <1>3, <2>1 DEF RunRecord, RunGoto
  <2>3. RunTyped' /\ Streamed'
    BY <1>1, <1>3, <2>2, StreamsStay DEF RunTyped, HasWriter, RunAt
  <2>4. GroupGone'
    BY <1>1, <2>2 DEF GroupGone
  <2>5. Ending' /\ ResultMeansEnded'
    BY <1>1, <1>3, <2>2, <2>4 DEF Ending, ResultMeansEnded
  <2> QED
    BY <1>1, <2>2, <2>3, <2>5, LocksStay
<1> QED
  BY <1>2, <1>3 DEF Drain

LEMMA FinishKeeps ==
  ASSUME ValidationInv, FinishRun PROVE ValidationInv'
<1> USE ValidationAssumption DEF ValidationInv
<1>1. /\ UNCHANGED <<leader, straggler, pipe, overdue, interpreter, binding, plan>>
      /\ run.step = "closing" /\ run \in RunRecord /\ holder' = Unbound
      /\ capture \in [Streams -> CaptureRecord] /\ holder = "runner"
      /\ leader = "reaped" \/ run.errors
  BY DEF FinishRun, RunAt, RunTyped, commandVars, Locking, Ending
<1>2. PICK k : k = run'
  OBVIOUS
<1>3. /\ k \in RunRecord /\ k.step = "done" /\ k.timedOut = run.timedOut
      /\ k.outcome # "none"
      /\ k.outcome = "result" => ~ run.failed /\ ~ run.errors
  BY <1>1, <1>2 DEF FinishRun, RunRecord
<1>4. ASSUME NEW s \in Streams
      PROVE  /\ capture'[s] \in CaptureRecord
             /\ capture'[s].total = capture[s].total /\ capture'[s].kept = capture[s].kept
             /\ capture'[s].complete = capture[s].complete
  <2>1. PICK c : c = capture[s]
    OBVIOUS
  <2>2. PICK d : d = [c EXCEPT !.open = FALSE]
    OBVIOUS
  <2>3. c \in CaptureRecord /\ capture'[s] = d
    BY <1>1, <2>1, <2>2 DEF FinishRun
  <2> QED
    BY <2>1, <2>2, <2>3 DEF CaptureRecord
<1>5. RunTyped'
  BY <1>1, <1>2, <1>3, <1>4 DEF RunTyped, FinishRun
<1>6. Streamed'
  BY <1>1, <1>2, <1>3, <1>4 DEF Streamed, StreamExact, HasWriter, RunAt
<1>7. ResultMeansEnded'
  <2>1. k.outcome = "result" => /\ ~ run.timedOut => AllComplete
                                /\ run.timedOut => ~ (straggler.alive /\ straggler.grouped)
    BY <1>1, <1>3 DEF Ending, GroupGone
  <2> QED
    BY <1>1, <1>2, <1>3, <1>4, <2>1 DEF ResultMeansEnded, AllComplete, GroupMember, LeaderRuns
<1>8. Ending'
  BY <1>2, <1>3 DEF Ending
<1>9. BindingTyped' /\ Locking'
  BY <1>1, <1>2, <1>3 DEF BindingTyped, Locking
<1> QED
  BY <1>5, <1>6, <1>7, <1>8, <1>9

LEMMA ValidationSteps ==
  ASSUME ValidationInv, [ValidationNext]_validationVars PROVE ValidationInv'
<1>1. CASE UNCHANGED validationVars
  <2>1. UNCHANGED <<run, commandVars, capture, overdue>> /\ UNCHANGED bindingVars
    BY <1>1 DEF validationVars, commandVars, bindingVars
  <2>2. BindingTyped' /\ Locking'
    BY <2>1, LocksStay DEF ValidationInv
  <2> QED
    BY <2>1, <2>2, RunStays DEF ValidationInv
<1>2. CASE RunnerStep
  BY <1>2, CollectKeeps, WaitKeeps, TerminateKeeps, KillKeeps, DrainKeeps, FinishKeeps
     DEF RunnerStep
<1>3. CASE ResolveBinding \/ Spawn \/ Interrupted
  BY <1>3, ResolveKeeps, SpawnKeeps, WaitKeeps
<1>4. CASE \/ \E s \in Streams : Write(s)
           \/ ClosePipes \/ LeaveChild \/ ProcessEnds \/ RunDeadlinePasses
  BY <1>4, WriteKeeps, CommandKeeps
<1>5. CASE InterpreterChanges
             \/ \E b \in Binders : PlanBinding(b) \/ BindUnderLock(b) \/ SaveBinding(b)
  BY <1>5, BindersKeep
<1> QED
  BY <1>1, <1>2, <1>3, <1>4, <1>5 DEF ValidationNext

LEMMA ValidationInvReports ==
  ASSUME ValidationInv PROVE ValidationReported /\ ValidationTypeOK
<1> USE ValidationAssumption DEF ValidationInv
<1>1. OutputAccounted
  <2>1. ASSUME NEW s \in Streams
        PROVE  /\ capture[s].total + pipe[s].waiting = pipe[s].written
               /\ capture[s].kept = Least(capture[s].total, Retained)
               /\ capture[s].complete => capture[s].total = pipe[s].written /\ ~ HasWriter
    BY DEF Streamed, StreamExact, RunTyped, CaptureRecord, PipeRecord
  <2> QED
    BY <2>1 DEF OutputAccounted
<1>2. VerifiedBindingInForce
  BY DEF Locking, VerifiedBindingInForce
<1>3. ASSUME NEW s \in Streams
      PROVE  capture[s].total \in 0..WriteLimit /\ capture[s].kept \in 0..Retained
  <2>1. PICK c \in CaptureRecord : c = capture[s]
    BY DEF RunTyped
  <2>2. PICK p \in PipeRecord : p = pipe[s]
    BY DEF RunTyped
  <2>3. c.total + p.waiting = p.written /\ c.kept = Least(c.total, Retained)
    BY <2>1, <2>2 DEF Streamed, StreamExact
  <2>4. c.total \in 0..WriteLimit /\ c.kept \in 0..Retained
    BY <2>3 DEF CaptureRecord, PipeRecord, Least
  <2> QED
    BY <2>1, <2>4
<1>4. ValidationTypeOK
  BY <1>3 DEF ValidationTypeOK, RunTyped, BindingTyped, RunRecord, PipeRecord, Fingerprints
<1> QED
  BY <1>1, <1>2, <1>4 DEF ValidationReported

\* The report of a validation, for any number and sizes of streams: what is kept is the
\* beginning of what was written and a complete stream can get no more; a result means that
\* the command ended, and with a time-out that its group is gone; and the interpreter that
\* was verified is the one in force (runner.py, validation_process.py, python_runtime.py).
THEOREM ValidationIsReported == ValidationSpec => []ValidationReported
<1>1. ValidationInv /\ [ValidationNext]_validationVars => ValidationInv'
  BY ValidationSteps
<1>2. ValidationInv => ValidationReported
  BY ValidationInvReports
<1> QED
  BY <1>1, <1>2, ValidationStart, PTL DEF ValidationSpec

\* A group is signalled only while its leader has not been reaped.
LEMMA ReapedNotSignalled ==
  ASSUME ValidationInv, ValidationNext, RunAt("terminating"), run'.step = "killing"
  PROVE  leader # "reaped"
<1>1. run \in RunRecord /\ run.step = "terminating"
  BY DEF ValidationInv, RunTyped, RunAt
<1>2. run' # run
  BY <1>1
<1>3. TerminateGroup
  BY <1>1, <1>2
     DEF ValidationNext, RunnerStep, ResolveBinding, Spawn, Collect, WaitForExit, KillRunGroup, Drain,
         FinishRun, Interrupted, Write, ClosePipes, LeaveChild, ProcessEnds, RunDeadlinePasses,
         PlanBinding,
         BindUnderLock, SaveBinding, InterpreterChanges, RunAt
<1>4. CASE leader = "reaped"
  <2>1. run'.step = IF run.timedOut THEN "draining" ELSE "closing"
    BY <1>1, <1>3, <1>4 DEF TerminateGroup, RunRecord
  <2> QED
    BY <2>1
<1> QED
  BY <1>4

\* A binding is replaced by its reviewer, with what was reviewed.
LEMMA ReviewedReplaces ==
  ASSUME ValidationInv, ValidationNext, binding' # binding
  PROVE  \E b \in Binders : plan[b].previous = binding /\ plan[b].fingerprint = binding'
<1>1. PICK b \in Binders : SaveBinding(b)
  BY DEF ValidationNext, RunnerStep, ResolveBinding, Spawn, Collect, WaitForExit, TerminateGroup,
         KillRunGroup, Drain, FinishRun, Interrupted, Write, ClosePipes, LeaveChild, ProcessEnds,
         RunDeadlinePasses, PlanBinding, BindUnderLock, InterpreterChanges, bindingVars
<1>2. plan[b].previous = binding
  BY <1>1 DEF ValidationInv, Locking, SaveBinding
<1>3. plan[b].fingerprint = binding'
  BY <1>1 DEF SaveBinding
<1> QED
  BY <1>2, <1>3

-----------------------------------------------------------------------------
(***************************************************************************)
(* One disposable start.                                                   *)
(***************************************************************************)
StepsTyped ==
  /\ probeStep \in {"idle", "launch", "challenge", "reply", "catalog", "listing",
                    "stopHelper", "recheck", "stopChild", "reap", "release",
                    "report", "ended"}
  /\ child \in {"none", "booting", "challenged", "serving", "gone"}
  /\ childExit \in {"", "clean", "unclean", "failed", "killed"}
  /\ challenge \in {"empty", "sent"}
  /\ challengeUse \in {"none", "pending", "awaiting_reply", "consumed"}
  /\ listener \in {"none", "bound", "listening", "closed"}
  /\ helper \in {"none", "running", "gone"}
  /\ helperExit \in {"", "good", "bad", "unclean"}
  /\ owned \subseteq Resources

FlagsTyped ==
  /\ stopAsked \in BOOLEAN /\ late \in BOOLEAN /\ cancelSet \in BOOLEAN
  /\ verified \in BOOLEAN /\ probeError \in BOOLEAN /\ cleanError \in BOOLEAN
  /\ probeOk \in BOOLEAN

VersionsTyped ==
  /\ reply \in {NoReply, Mismatch} \cup (0..RuntimeBound)
  /\ diskRuntime \in 0..RuntimeBound /\ selected \in 0..RuntimeBound

StartupTyped == StepsTyped /\ FlagsTyped /\ VersionsTyped

\* The child answers once, and ends once.
ChildTold ==
  /\ probeStep \in {"idle", "launch"} => child = "none"
  /\ reply # NoReply => child \in {"serving", "gone"}
  /\ childExit # "" => child = "gone"
  /\ childExit = "clean" => stopAsked

\* The challenge goes forward with the supervisor.
ChallengeAt ==
  /\ probeStep \in {"idle", "launch"} => challengeUse = "none"
  /\ probeStep = "challenge" => challengeUse = "pending"
  /\ probeStep = "reply" => challengeUse = "awaiting_reply"

\* What the supervisor has seen of the child and the helper by each of its steps.
Seen ==
  /\ probeStep \in {"idle", "launch", "challenge", "reply", "catalog"} => helper = "none"
  /\ probeStep \in {"catalog", "listing", "recheck"} => reply = selected
  /\ probeStep = "recheck" => helper = "gone" /\ helperExit = "good"
  /\ verified => /\ probeStep \in {"stopChild", "reap", "release", "report", "ended"}
                 /\ reply = selected /\ helper = "gone" /\ helperExit = "good"

\* What is left behind is in the report.
Left ==
  /\ probeStep \in {"recheck", "stopChild", "reap", "release", "report", "ended"} /\ ~ cleanError
       => helper \in {"none", "gone"}
  /\ probeStep \in {"release", "report", "ended"} /\ ~ cleanError => child \in {"none", "gone"}
  /\ probeStep \in {"report", "ended"} /\ ~ cleanError
       => owned = {} /\ listener \in {"none", "closed"}

Reported ==
  probeOk => probeStep = "ended" /\ ~ cleanError /\ verified /\ childExit = "clean"

StartupInv == StartupTyped /\ ChildTold /\ ChallengeAt /\ Seen /\ Left /\ Reported

LEMMA StartupStart == StartupInit => StartupInv
<1> SUFFICES ASSUME StartupInit PROVE StartupInv
  OBVIOUS
<1>1. 0 \in 0..RuntimeBound
  BY RuntimeBoundAssumption
<1>2. StartupTyped
  BY <1>1 DEF StartupInit, StartupTyped, StepsTyped, FlagsTyped, VersionsTyped
<1>3. ChildTold /\ ChallengeAt /\ Seen /\ Left /\ Reported
  BY DEF StartupInit, ChildTold, ChallengeAt, Seen, Left, Reported
<1> QED
  BY <1>2, <1>3 DEF StartupInv

\* A step of the child, the helper or the world leaves the supervisor where it is.
LEMMA WorldKeeps ==
  ASSUME StartupInv,
         \/ ChildReads \/ ChildServes \/ ChildEnds \/ ForeignSignal \/ HelperEnds
         \/ DeadlinePasses \/ CancelProbe \/ RewriteRuntime
  PROVE  StartupInv'
<1> USE RuntimeBoundAssumption, ReplyAssumption DEF StartupInv
<1>1. /\ UNCHANGED <<probeStep, challengeUse, owned, selected, verified, cleanError, probeOk,
                     probeError>>
      /\ \/ helper' = helper /\ helperExit' = helperExit
         \/ helper = "running" /\ helper' = "gone"
  BY DEF ChildReads, ChildServes, ChildEnds, ForeignSignal, HelperEnds, DeadlinePasses, CancelProbe,
         RewriteRuntime, ChildUnchanged, helperVars, worldVars, reportVars, wireVars, processVars
<1>2. /\ \/ /\ child' = child /\ childExit' = childExit
         \/ child = "booting" /\ child' = "challenged" /\ childExit' = childExit
         \/ child = "challenged" /\ child' = "serving" /\ childExit' = childExit
         \/ /\ child \in {"booting", "challenged", "serving"} /\ child' = "gone"
            /\ childExit' \in {"clean", "unclean", "failed"}
            /\ childExit' = "clean" => stopAsked
      /\ stopAsked => stopAsked'
      /\ \/ reply' = reply /\ listener' = listener
         \/ child = "challenged" /\ child' = "serving"
  BY DEF ChildReads, ChildServes, ChildEnds, ForeignSignal, HelperEnds, DeadlinePasses, CancelProbe,
         RewriteRuntime, ChildUnchanged, helperVars, worldVars, reportVars, wireVars, processVars
<1>3. StartupTyped'
  <2>1. /\ stopAsked' \in BOOLEAN /\ late' \in BOOLEAN /\ cancelSet' \in BOOLEAN
        /\ challenge' \in {"empty", "sent"}
    BY DEF ChildReads, ChildServes, ChildEnds, ForeignSignal, HelperEnds, DeadlinePasses, CancelProbe,
           RewriteRuntime, ChildUnchanged, worldVars, wireVars, processVars, StartupTyped, StepsTyped, FlagsTyped, VersionsTyped
  <2>2. diskRuntime' \in 0..RuntimeBound
    <3>1. diskRuntime \in 0..RuntimeBound
      BY DEF StartupTyped, StepsTyped, FlagsTyped, VersionsTyped
    <3>2. \/ diskRuntime' = diskRuntime
          \/ diskRuntime < RuntimeBound /\ diskRuntime' = diskRuntime + 1
      BY DEF ChildReads, ChildServes, ChildEnds, ForeignSignal, HelperEnds, DeadlinePasses,
             CancelProbe, RewriteRuntime, ChildUnchanged, worldVars
    <3> QED
      BY <3>1, <3>2
  <2>3. /\ reply' \in {NoReply, Mismatch} \cup (0..RuntimeBound)
        /\ listener' \in {"none", "bound", "listening", "closed"}
    BY DEF ChildReads, ChildServes, ChildEnds, ForeignSignal, HelperEnds, DeadlinePasses, CancelProbe,
           RewriteRuntime, wireVars, StartupTyped, StepsTyped, FlagsTyped, VersionsTyped
  <2>4. /\ helper' \in {"none", "running", "gone"}
        /\ helperExit' \in {"", "good", "bad", "unclean"}
    BY DEF ChildReads, ChildServes, ChildEnds, ForeignSignal, HelperEnds, DeadlinePasses, CancelProbe,
           RewriteRuntime, ChildUnchanged, helperVars, StartupTyped, StepsTyped, FlagsTyped, VersionsTyped
  <2>5. /\ probeStep' = probeStep /\ challengeUse' = challengeUse /\ owned' = owned
        /\ selected' = selected /\ verified' = verified /\ cleanError' = cleanError
        /\ probeOk' = probeOk /\ probeError' = probeError
    BY <1>1
  <2>6. /\ child' \in {"none", "booting", "challenged", "serving", "gone"}
        /\ childExit' \in {"", "clean", "unclean", "failed", "killed"}
    BY <1>2 DEF StartupTyped, StepsTyped, FlagsTyped, VersionsTyped
  <2> HIDE DEF StartupInv
  <2>7. StartupTyped
    BY DEF StartupInv
  <2> QED
    BY <2>1, <2>2, <2>3, <2>4, <2>5, <2>6, <2>7, Zenon DEF StartupTyped, StepsTyped, FlagsTyped, VersionsTyped
<1>4. ChildTold'
  BY <1>1, <1>2 DEF ChildTold
<1>5. ChallengeAt' /\ Reported'
  BY <1>1, <1>2 DEF ChallengeAt, Reported, ChildTold
<1>6. reply # NoReply => reply' = reply
  BY <1>2 DEF ChildTold
<1>7. selected # NoReply
  <2>1. selected \in 0..RuntimeBound
    BY DEF StartupTyped, StepsTyped, FlagsTyped, VersionsTyped
  <2> QED
    BY <2>1
<1>8. Seen'
  BY <1>1, <1>6, <1>7 DEF Seen
<1>9. Left'
  BY <1>1, <1>2 DEF Left
<1> QED
  BY <1>3, <1>4, <1>5, <1>8, <1>9

\* What the supervisor may write to the variables of its steps.
Stepping ==
  /\ \/ probeStep' = probeStep
     \/ probeStep' \in {"launch", "challenge", "reply", "catalog", "listing", "stopHelper",
                        "recheck", "stopChild", "reap", "release", "report", "ended"}
  /\ child' = child \/ child' = "booting" \/ child' = "gone"
  /\ childExit' = childExit \/ childExit' = "killed"
  /\ challenge' = challenge \/ challenge' = "sent"
  /\ \/ challengeUse' = challengeUse \/ challengeUse' = "pending"
     \/ challengeUse' = "awaiting_reply" \/ challengeUse' = "consumed"
  /\ \/ listener' = listener \/ listener' = "bound"
     \/ listener' = "none" \/ listener' = "closed"
  /\ helper' = helper \/ helper' = "running" \/ helper' = "gone"
  /\ helperExit' = helperExit \/ helperExit' = "bad" \/ helperExit' = "unclean"
  /\ owned' = owned \/ owned' \subseteq Resources

LEMMA SteppingTyped == ASSUME StepsTyped, Stepping PROVE StepsTyped'
<1>1. probeStep' \in {"idle", "launch", "challenge", "reply", "catalog", "listing", "stopHelper",
                     "recheck", "stopChild", "reap", "release", "report", "ended"}
  BY DEF StepsTyped, Stepping
<1>2. child' \in {"none", "booting", "challenged", "serving", "gone"}
  BY DEF StepsTyped, Stepping
<1>3. childExit' \in {"", "clean", "unclean", "failed", "killed"}
  BY DEF StepsTyped, Stepping
<1>4. challenge' \in {"empty", "sent"}
  BY DEF StepsTyped, Stepping
<1>5. challengeUse' \in {"none", "pending", "awaiting_reply", "consumed"}
  BY DEF StepsTyped, Stepping
<1>6. listener' \in {"none", "bound", "listening", "closed"}
  BY DEF StepsTyped, Stepping
<1>7. helper' \in {"none", "running", "gone"}
  BY DEF StepsTyped, Stepping
<1>8. helperExit' \in {"", "good", "bad", "unclean"}
  BY DEF StepsTyped, Stepping
<1>9. owned' \subseteq Resources
  BY DEF StepsTyped, Stepping, Resources
<1> QED
  BY <1>1, <1>2, <1>3, <1>4, <1>5, <1>6, <1>7, <1>8, <1>9, Zenon DEF StepsTyped, Resources

\* Each step of the supervisor leaves what it has seen in the next one.
LEMMA SupervisorKeeps ==
  ASSUME StartupInv, SupervisorStep PROVE StartupInv'
<1> USE DEF StartupInv, StartupTyped, processVars, wireVars, helperVars, worldVars, reportVars
<1>0. selected # NoReply
  <2>1. selected \in 0..RuntimeBound
    BY DEF VersionsTyped
  <2> QED
    BY <2>1, RuntimeBoundAssumption, ReplyAssumption
<1>1. CASE Reserve
  <2>1. StepsTyped'
    <3>1. UNCHANGED <<child, childExit, challenge, challengeUse, helper, helperExit>>
      BY <1>1 DEF Reserve
    <3>2. probeStep' = "launch" \/ probeStep' = "release"
      BY <1>1 DEF Reserve, GiveUp
    <3>3. listener' = "bound" \/ listener' = "none"
      BY <1>1 DEF Reserve, GiveUp
    <3>4. owned' \subseteq Resources
      BY <1>1 DEF Reserve, Resources
    <3> QED
      BY SteppingTyped, <3>1, <3>2, <3>3, <3>4 DEF Stepping, Resources
  <2>2. FlagsTyped'
    BY <1>1, Zenon DEF Reserve, GiveUp, FlagsTyped
  <2>3. VersionsTyped'
    BY <1>1 DEF Reserve, GiveUp, VersionsTyped
  <2>4. ChildTold' /\ ChallengeAt'
    BY <1>1 DEF Reserve, GiveUp, ChildTold, ChallengeAt
  <2>5. Seen'
    BY <1>0, <1>1 DEF Reserve, GiveUp, Seen, ChildTold
  <2>6. Reported'
    BY <1>1 DEF Reserve, GiveUp, Reported
  <2>7. Left'
    BY <1>1 DEF Reserve, GiveUp, Left, Seen, ChildTold, StepsTyped
  <2> QED
    BY <2>1, <2>2, <2>3, <2>4, <2>5, <2>6, <2>7
<1>2. CASE Launch
  <2>1. StepsTyped'
    <3>1. UNCHANGED <<childExit, challenge, listener, helper, helperExit, owned>>
      BY <1>2 DEF Launch
    <3>2. probeStep' = "challenge" \/ probeStep' = "release"
      BY <1>2 DEF Launch, GiveUp
    <3>3. child' = "booting" \/ child' = child
      BY <1>2 DEF Launch, GiveUp
    <3>4. challengeUse' = "pending" \/ challengeUse' = challengeUse
      BY <1>2 DEF Launch, GiveUp
    <3> QED
      BY SteppingTyped, <3>1, <3>2, <3>3, <3>4 DEF Stepping, Resources
  <2>2. FlagsTyped'
    BY <1>2, Zenon DEF Launch, GiveUp, FlagsTyped
  <2>3. VersionsTyped'
    BY <1>2 DEF Launch, GiveUp, VersionsTyped
  <2>4. ChildTold' /\ ChallengeAt'
    BY <1>2 DEF Launch, GiveUp, ChildTold, ChallengeAt
  <2>5. Seen'
    <3>1. verified' = verified
      BY <1>2 DEF Launch, GiveUp
    <3>2. ~ verified
      BY <1>2 DEF Launch, Seen
    <3> QED
      BY <1>0, <1>2, <3>1, <3>2 DEF Launch, GiveUp, Seen, ChildTold
  <2>6. Reported'
    BY <1>2 DEF Launch, GiveUp, Reported
  <2>7. Left'
    BY <1>2 DEF Launch, GiveUp, Left, Seen, ChildTold, StepsTyped
  <2> QED
    BY <2>1, <2>2, <2>3, <2>4, <2>5, <2>6, <2>7
<1>3. CASE SendChallenge
  <2>1. StepsTyped'
    <3>1. UNCHANGED <<child, childExit, listener, helper, helperExit, owned>>
      BY <1>3 DEF SendChallenge
    <3>2. probeStep' = "reply" \/ probeStep' = "stopChild"
      BY <1>3 DEF SendChallenge, GiveUp
    <3>3. challenge' = "sent" \/ challenge' = challenge
      BY <1>3 DEF SendChallenge, GiveUp
    <3>4. challengeUse' = "awaiting_reply" \/ challengeUse' = "consumed"
      BY <1>3 DEF SendChallenge, GiveUp
    <3> QED
      BY SteppingTyped, <3>1, <3>2, <3>3, <3>4 DEF Stepping, Resources
  <2>2. FlagsTyped'
    BY <1>3, Zenon DEF SendChallenge, GiveUp, FlagsTyped
  <2>3. VersionsTyped'
    BY <1>3 DEF SendChallenge, GiveUp, VersionsTyped
  <2>4. ChildTold' /\ ChallengeAt'
    BY <1>3 DEF SendChallenge, GiveUp, InBudget, Alive, ChildTold, ChallengeAt
  <2>5. Seen'
    <3>1. verified' = verified
      BY <1>3 DEF SendChallenge, GiveUp
    <3>2. ~ verified
      BY <1>3 DEF SendChallenge, Seen
    <3> QED
      BY <1>0, <1>3, <3>1, <3>2 DEF SendChallenge, GiveUp, InBudget, Alive, Seen, ChildTold
  <2>6. Reported'
    BY <1>3 DEF SendChallenge, GiveUp, InBudget, Alive, Reported
  <2>7. Left'
    BY <1>3 DEF SendChallenge, GiveUp, InBudget, Alive, Left, Seen, ChildTold, StepsTyped
  <2> QED
    BY <2>1, <2>2, <2>3, <2>4, <2>5, <2>6, <2>7
<1>4. CASE TakeReply
  <2>1. StepsTyped'
    <3>1. UNCHANGED <<child, childExit, challenge, listener, helper, helperExit, owned>>
      BY <1>4 DEF TakeReply
    <3>2. probeStep' = "catalog" \/ probeStep' = "stopChild"
      BY <1>4 DEF TakeReply, GiveUp
    <3>3. challengeUse' = "consumed"
      BY <1>4 DEF TakeReply, GiveUp
    <3> QED
      BY SteppingTyped, <3>1, <3>2, <3>3 DEF Stepping, Resources
  <2>2. FlagsTyped'
    BY <1>4, Zenon DEF TakeReply, GiveUp, FlagsTyped
  <2>3. VersionsTyped'
    BY <1>4 DEF TakeReply, GiveUp, VersionsTyped
  <2>4. ChildTold' /\ ChallengeAt'
    BY <1>4 DEF TakeReply, GiveUp, InBudget, Alive, ReplyMatches, ChildTold, ChallengeAt
  <2>5. Seen'
    <3>1. verified' = verified
      BY <1>4 DEF TakeReply, GiveUp
    <3>2. ~ verified
      BY <1>4 DEF TakeReply, Seen
    <3> QED
      BY <1>0, <1>4, <3>1, <3>2 DEF TakeReply, GiveUp, InBudget, Alive, ReplyMatches, Seen, ChildTold
  <2>6. Reported'
    BY <1>4 DEF TakeReply, GiveUp, InBudget, Alive, ReplyMatches, Reported
  <2>7. Left'
    BY <1>4 DEF TakeReply, GiveUp, InBudget, Alive, ReplyMatches, Left, Seen, ChildTold, StepsTyped
  <2> QED
    BY <2>1, <2>2, <2>3, <2>4, <2>5, <2>6, <2>7
<1>5. CASE StartHelper
  <2>1. StepsTyped'
    <3>1. UNCHANGED <<child, childExit, challenge, challengeUse, listener, helperExit, owned>>
      BY <1>5 DEF StartHelper
    <3>2. probeStep' = "listing" \/ probeStep' = "stopChild"
      BY <1>5 DEF StartHelper, GiveUp
    <3>3. helper' = "running" \/ helper' = helper
      BY <1>5 DEF StartHelper, GiveUp
    <3> QED
      BY SteppingTyped, <3>1, <3>2, <3>3 DEF Stepping, Resources
  <2>2. FlagsTyped'
    BY <1>5, Zenon DEF StartHelper, GiveUp, FlagsTyped
  <2>3. VersionsTyped'
    BY <1>5 DEF StartHelper, GiveUp, VersionsTyped
  <2>4. ChildTold' /\ ChallengeAt'
    BY <1>5 DEF StartHelper, GiveUp, Alive, ChildTold, ChallengeAt
  <2>5. Seen'
    <3>1. verified' = verified
      BY <1>5 DEF StartHelper, GiveUp
    <3>2. ~ verified
      BY <1>5 DEF StartHelper, Seen
    <3> QED
      BY <1>0, <1>5, <3>1, <3>2 DEF StartHelper, GiveUp, Alive, Seen, ChildTold
  <2>6. Reported'
    BY <1>5 DEF StartHelper, GiveUp, Alive, Reported
  <2>7. Left'
    BY <1>5 DEF StartHelper, GiveUp, Alive, Left, Seen, ChildTold, StepsTyped
  <2> QED
    BY <2>1, <2>2, <2>3, <2>4, <2>5, <2>6, <2>7
<1>6. CASE TakeListing
  <2>1. StepsTyped'
    <3>1. UNCHANGED <<child, childExit, challenge, challengeUse, listener, helper, helperExit, owned>>
      BY <1>6 DEF TakeListing
    <3>2. probeStep' = "recheck" \/ probeStep' = "stopHelper"
      BY <1>6 DEF TakeListing, GiveUp
    <3> QED
      BY SteppingTyped, <3>1, <3>2 DEF Stepping, Resources
  <2>2. FlagsTyped'
    BY <1>6, Zenon DEF TakeListing, GiveUp, FlagsTyped
  <2>3. VersionsTyped'
    BY <1>6 DEF TakeListing, GiveUp, VersionsTyped
  <2>4. ChildTold' /\ ChallengeAt'
    BY <1>6 DEF TakeListing, GiveUp, InBudget, Alive, ChildTold, ChallengeAt
  <2>5. Seen'
    <3>1. verified' = verified
      BY <1>6 DEF TakeListing, GiveUp
    <3>2. ~ verified
      BY <1>6 DEF TakeListing, Seen
    <3> QED
      BY <1>0, <1>6, <3>1, <3>2 DEF TakeListing, GiveUp, InBudget, Alive, Seen, ChildTold
  <2>6. Reported'
    BY <1>6 DEF TakeListing, GiveUp, InBudget, Alive, Reported
  <2>7. Left'
    BY <1>6 DEF TakeListing, GiveUp, InBudget, Alive, Left, Seen, ChildTold, StepsTyped
  <2> QED
    BY <2>1, <2>2, <2>3, <2>4, <2>5, <2>6, <2>7
<1>7. CASE StopHelper
  <2>1. StepsTyped'
    <3>1. UNCHANGED <<child, childExit, challenge, challengeUse, listener, owned>>
      BY <1>7 DEF StopHelper
    <3>2. probeStep' = "stopChild"
      BY <1>7 DEF StopHelper
    <3>3. helper' = "gone" \/ helper' = "running" \/ helper' = helper
      BY <1>7 DEF StopHelper
    <3>4. helperExit' = "bad" \/ helperExit' = "unclean" \/ helperExit' = helperExit
      BY <1>7 DEF StopHelper
    <3> QED
      BY SteppingTyped, <3>1, <3>2, <3>3, <3>4 DEF Stepping, Resources
  <2>2. FlagsTyped'
    BY <1>7, Zenon DEF StopHelper, FlagsTyped
  <2>3. VersionsTyped'
    BY <1>7 DEF StopHelper, VersionsTyped
  <2>4. ChildTold' /\ ChallengeAt'
    BY <1>7 DEF StopHelper, ChildTold, ChallengeAt
  <2>5. Seen'
    BY <1>0, <1>7 DEF StopHelper, Seen, ChildTold
  <2>6. Reported'
    BY <1>7 DEF StopHelper, Reported
  <2>7. Left'
    BY <1>7 DEF StopHelper, Left, Seen, ChildTold, StepsTyped
  <2> QED
    BY <2>1, <2>2, <2>3, <2>4, <2>5, <2>6, <2>7
<1>8. CASE Recheck
  <2>1. StepsTyped'
    <3>1. UNCHANGED <<child, childExit, challenge, challengeUse, listener, helper, helperExit, owned>>
      BY <1>8 DEF Recheck
    <3>2. probeStep' = "stopChild"
      BY <1>8 DEF Recheck, GiveUp
    <3> QED
      BY SteppingTyped, <3>1, <3>2 DEF Stepping, Resources
  <2>2. FlagsTyped'
    BY <1>8, Zenon DEF Recheck, GiveUp, FlagsTyped
  <2>3. VersionsTyped'
    BY <1>8 DEF Recheck, GiveUp, VersionsTyped
  <2>4. ChildTold' /\ ChallengeAt'
    BY <1>8 DEF Recheck, GiveUp, ChildLives, Alive, ChildTold, ChallengeAt
  <2>5. Seen'
    BY <1>0, <1>8 DEF Recheck, GiveUp, ChildLives, Alive, Seen, ChildTold
  <2>6. Reported'
    BY <1>8 DEF Recheck, GiveUp, ChildLives, Alive, Reported
  <2>7. Left'
    BY <1>8 DEF Recheck, GiveUp, ChildLives, Alive, Left, Seen, ChildTold, StepsTyped
  <2> QED
    BY <2>1, <2>2, <2>3, <2>4, <2>5, <2>6, <2>7
<1>9. CASE StopChild
  <2>1. StepsTyped'
    <3>1. UNCHANGED <<child, childExit, challenge, listener, helper, helperExit, owned>>
      BY <1>9 DEF StopChild
    <3>2. probeStep' = "reap" \/ probeStep' = "release"
      BY <1>9 DEF StopChild
    <3>3. challengeUse' = "consumed"
      BY <1>9 DEF StopChild
    <3> QED
      BY SteppingTyped, <3>1, <3>2, <3>3 DEF Stepping, Resources
  <2>2. FlagsTyped'
    BY <1>9, Zenon DEF StopChild, FlagsTyped
  <2>3. VersionsTyped'
    BY <1>9 DEF StopChild, VersionsTyped
  <2>4. ChildTold' /\ ChallengeAt'
    BY <1>9 DEF StopChild, Alive, ChildTold, ChallengeAt
  <2>5. Seen'
    BY <1>0, <1>9 DEF StopChild, Alive, Seen, ChildTold
  <2>6. Reported'
    BY <1>9 DEF StopChild, Alive, Reported
  <2>7. Left'
    BY <1>9 DEF StopChild, Alive, Left, Seen, ChildTold, StepsTyped
  <2> QED
    BY <2>1, <2>2, <2>3, <2>4, <2>5, <2>6, <2>7
<1>10. CASE Reap
  <2>1. StepsTyped'
    <3>1. UNCHANGED <<challenge, challengeUse, listener, helper, helperExit, owned>>
      BY <1>10 DEF Reap
    <3>2. probeStep' = "release"
      BY <1>10 DEF Reap
    <3>3. child' = "gone" \/ child' = child
      BY <1>10 DEF Reap
    <3>4. childExit' = "killed" \/ childExit' = childExit
      BY <1>10 DEF Reap
    <3> QED
      BY SteppingTyped, <3>1, <3>2, <3>3, <3>4 DEF Stepping, Resources
  <2>2. FlagsTyped'
    BY <1>10, Zenon DEF Reap, FlagsTyped
  <2>3. VersionsTyped'
    BY <1>10 DEF Reap, VersionsTyped
  <2>4. ChildTold' /\ ChallengeAt'
    BY <1>10 DEF Reap, Alive, ChildTold, ChallengeAt
  <2>5. Seen'
    BY <1>0, <1>10 DEF Reap, Alive, Seen, ChildTold
  <2>6. Reported'
    BY <1>10 DEF Reap, Alive, Reported
  <2>7. Left'
    BY <1>10 DEF Reap, Alive, Left, Seen, ChildTold, StepsTyped
  <2> QED
    BY <2>1, <2>2, <2>3, <2>4, <2>5, <2>6, <2>7
<1>11. CASE Release
  <2>1. StepsTyped'
    <3>1. UNCHANGED <<child, childExit, challenge, challengeUse, helper, helperExit>>
      BY <1>11 DEF Release
    <3>2. probeStep' = "report"
      BY <1>11 DEF Release
    <3>3. listener' = "closed" \/ listener' = listener
      BY <1>11 DEF Release
    <3>4. owned' \subseteq Resources
      BY <1>11 DEF Release, StepsTyped, Resources
    <3> QED
      BY SteppingTyped, <3>1, <3>2, <3>3, <3>4 DEF Stepping, Resources
  <2>2. FlagsTyped'
    BY <1>11, Zenon DEF Release, FlagsTyped
  <2>3. VersionsTyped'
    BY <1>11 DEF Release, VersionsTyped
  <2>4. ChildTold' /\ ChallengeAt'
    BY <1>11 DEF Release, ChildTold, ChallengeAt
  <2>5. Seen'
    BY <1>0, <1>11 DEF Release, Seen, ChildTold
  <2>6. Reported'
    BY <1>11 DEF Release, Reported
  <2>7. Left'
    BY <1>11 DEF Release, Left, Seen, ChildTold, StepsTyped
  <2> QED
    BY <2>1, <2>2, <2>3, <2>4, <2>5, <2>6, <2>7
<1>12. CASE Report
  <2>1. StepsTyped'
    <3>1. UNCHANGED <<child, childExit, challenge, challengeUse, listener, helper, helperExit, owned>>
      BY <1>12 DEF Report
    <3>2. probeStep' = "ended"
      BY <1>12 DEF Report
    <3> QED
      BY SteppingTyped, <3>1, <3>2 DEF Stepping, Resources
  <2>2. FlagsTyped'
    BY <1>12, Zenon DEF Report, FlagsTyped
  <2>3. VersionsTyped'
    BY <1>12 DEF Report, VersionsTyped
  <2>4. ChildTold' /\ ChallengeAt'
    BY <1>12 DEF Report, Drifted, ChildTold, ChallengeAt
  <2>5. Seen'
    BY <1>0, <1>12 DEF Report, Drifted, Seen, ChildTold
  <2>6. Reported'
    BY <1>12 DEF Report, Drifted, Reported
  <2>7. Left'
    BY <1>12 DEF Report, Drifted, Left, Seen, ChildTold, StepsTyped
  <2> QED
    BY <2>1, <2>2, <2>3, <2>4, <2>5, <2>6, <2>7
<1> QED
  BY <1>1, <1>2, <1>3, <1>4, <1>5, <1>6, <1>7, <1>8, <1>9, <1>10, <1>11, <1>12 DEF SupervisorStep

LEMMA StartupKeeps ==
  ASSUME StartupInv, [StartupNext]_startupVars PROVE StartupInv'
<1>1. CASE UNCHANGED startupVars
  <2>1. UNCHANGED <<probeStep, child, childExit, stopAsked, challenge, challengeUse, reply, listener,
                    helper, helperExit, owned, late, cancelSet, diskRuntime, selected,
                    verified, probeError, cleanError, probeOk>>
    BY <1>1 DEF startupVars, processVars, wireVars, helperVars, worldVars, reportVars
  <2>2. StepsTyped'
    BY <2>1, SteppingTyped DEF Stepping, StartupInv, StartupTyped
  <2>3. FlagsTyped' /\ VersionsTyped'
    BY <2>1, Zenon DEF FlagsTyped, VersionsTyped, StartupInv, StartupTyped
  <2>4. ChildTold' /\ ChallengeAt' /\ Seen' /\ Left' /\ Reported'
    BY <2>1, Zenon DEF ChildTold, ChallengeAt, Seen, Left, Reported, StartupInv
  <2> QED
    BY <2>2, <2>3, <2>4 DEF StartupInv, StartupTyped
<1>2. CASE SupervisorStep
  BY <1>2, SupervisorKeeps
<1>3. CASE \/ ChildReads \/ ChildServes \/ ChildEnds \/ ForeignSignal \/ HelperEnds
           \/ DeadlinePasses \/ CancelProbe \/ RewriteRuntime
  BY <1>3, WorldKeeps
<1> QED
  BY <1>1, <1>2, <1>3 DEF StartupNext

\* An ok report stands for a start, and a report without a cleanup error for nothing left.
LEMMA StartupInvSound == ASSUME StartupInv PROVE StartupSound /\ StartupTypeOK
<1> USE DEF StartupInv, StartupTyped
<1>1. OkMeansStarted
  <2> SUFFICES ASSUME probeOk PROVE OkMeansStarted
    BY DEF OkMeansStarted
  <2>1. probeStep = "ended" /\ ~ cleanError /\ verified /\ childExit = "clean"
    BY DEF Reported
  <2>2. reply = selected /\ helper = "gone" /\ helperExit = "good"
    BY <2>1 DEF Seen
  <2>3. stopAsked
    BY <2>1 DEF ChildTold
  <2>4. owned = {}
    BY <2>1 DEF Left
  <2> QED
    BY <2>1, <2>2, <2>3, <2>4 DEF OkMeansStarted
<1>2. NothingLeftUnsaid
  BY DEF NothingLeftUnsaid, Left
<1>3. StartupTypeOK
  BY DEF StartupTypeOK, StepsTyped, FlagsTyped, VersionsTyped, Resources
<1> QED
  BY <1>1, <1>2, <1>3 DEF StartupSound

\* The report becomes ok only when the runtime selected is still on disk; the catalogue is
\* believed only of a child that serves; a challenge that was used stays used.
LEMMA StartupStepRight ==
  ASSUME StartupInv, [StartupNext]_startupVars
  PROVE  /\ probeOk' /\ ~ probeOk => diskRuntime' = selected
         /\ ~ verified /\ verified' => child = "serving"
         /\ challengeUse = "consumed" => challengeUse' = "consumed"
<1> USE DEF StartupInv, StartupTyped, processVars, wireVars, helperVars, worldVars, reportVars
<1>0. selected # NoReply
  <2>1. selected \in 0..RuntimeBound
    BY DEF VersionsTyped
  <2> QED
    BY <2>1, RuntimeBoundAssumption, ReplyAssumption
<1>1. CASE UNCHANGED startupVars
  BY <1>1 DEF startupVars
<1>2. CASE SupervisorStep
  <2>1. ASSUME probeOk', ~ probeOk PROVE diskRuntime' = selected
    <3>1. Report
      BY <1>2, <2>1 DEF SupervisorStep, Reserve, Launch, SendChallenge, TakeReply, StartHelper,
         TakeListing, StopHelper, Recheck, StopChild, Reap, Release, GiveUp
    <3>2. ~ probeError'
      BY <2>1, <3>1 DEF Report
    <3> QED
      BY <3>1, <3>2 DEF Report, Drifted
  <2>2. ASSUME ~ verified, verified' PROVE child = "serving"
    <3>1. Recheck
      BY <1>2, <2>2 DEF SupervisorStep, Reserve, Launch, SendChallenge, TakeReply, StartHelper,
         TakeListing, StopHelper, StopChild, Reap, Release, Report, GiveUp
    <3>2. ChildLives
      BY <2>2, <3>1 DEF Recheck, GiveUp
    <3>3. reply = selected
      BY <3>1 DEF Recheck, Seen
    <3> QED
      BY <1>0, <3>2, <3>3 DEF ChildLives, Alive, ChildTold
  <2>3. ASSUME challengeUse = "consumed" PROVE challengeUse' = "consumed"
    <3>1. ~ Launch /\ ~ SendChallenge
      BY <2>3 DEF Launch, SendChallenge, ChallengeAt
    <3> QED
      BY <1>2, <2>3, <3>1 DEF SupervisorStep, Reserve, TakeReply, StartHelper,
         TakeListing, StopHelper, Recheck, StopChild, Reap, Release, Report
  <2> QED
    BY <2>1, <2>2, <2>3
<1>3. CASE \/ ChildReads \/ ChildServes \/ ChildEnds \/ ForeignSignal \/ HelperEnds
           \/ DeadlinePasses \/ CancelProbe \/ RewriteRuntime
  <2>1. verified' = verified /\ probeOk' = probeOk /\ challengeUse' = challengeUse
    BY <1>3 DEF ChildReads, ChildServes, ChildEnds, ForeignSignal, HelperEnds, DeadlinePasses,
                CancelProbe, RewriteRuntime, ChildUnchanged
  <2> QED
    BY <2>1
<1> QED
  BY <1>1, <1>2, <1>3 DEF StartupNext

-----------------------------------------------------------------------------
(***************************************************************************)
(* The managed service.                                                    *)
(***************************************************************************)
LifeTyped ==
  /\ lifecycle \in {"new", "starting", "running", "closing", "closed", "failed"}
  /\ gate \in {"unclaimed", "open", "held", "closed"}
  /\ serverTask \in {"none", "running", "done"}
  /\ control \in {"none", "open", "closing", "closed"}
  /\ cleanup \in {"none", "server", "requests", "controller", "ended"}

SwitchesTyped ==
  /\ starting \in BOOLEAN /\ failed \in BOOLEAN /\ tainted \in BOOLEAN
  /\ socketOpen \in BOOLEAN /\ listening \in BOOLEAN /\ cleanupFailed \in BOOLEAN
  /\ clean \in BOOLEAN /\ invalid \in BOOLEAN

InputsTyped ==
  /\ disk \in [Inputs -> 0..ReplaceBound]
  /\ retained \in [Inputs -> 0..Unselected]

RequestsTyped ==
  /\ busy \subseteq Requests \X {"response", "operation"}
  /\ request \in [Requests -> {"idle", "open", "done", "cut"}]
  /\ handler \in [Requests -> {"none", "asked", "ready", "checked", "launched", "ended", "lost"}]
  /\ used \in [Requests -> [Inputs -> 0..Unselected]]
  /\ accepted \in [Requests -> BOOLEAN]

ServiceTyped == LifeTyped /\ SwitchesTyped /\ InputsTyped /\ RequestsTyped

\* The ledger holds what is in progress, and its taint what ended in doubt.
Accounted(r) ==
  /\ (request[r] = "open") <=> (Response(r) \in busy)
  /\ (handler[r] \in {"ready", "checked", "launched"}) <=> (Operation(r) \in busy)
  /\ handler[r] \in {"asked", "ready", "checked", "launched"} => request[r] \in {"open", "cut"}
  /\ request[r] = "idle" => handler[r] = "none"
  /\ request[r] = "cut" => tainted
  /\ handler[r] = "lost" => tainted

\* Nothing is in progress in a window, and the gate of a service that ends is shut.
GateRight ==
  /\ gate = "held" => busy = {} /\ ~ tainted
  /\ lifecycle \in {"closing", "closed", "failed"} => gate = "closed"
  /\ cleanup # "none" => lifecycle \in {"closing", "closed", "failed"}

\* Before the start nothing is chosen, and before the server nothing is asked.
Fresh ==
  /\ lifecycle = "new" => serverTask = "none" /\ retained = [i \in Inputs |-> Unselected]
  /\ serverTask = "none" => \A r \in Requests : request[r] = "idle"

\* Each phase of the clean-up has ended its part, or has said that it failed. Only operations
\* of handlers may be left in progress.
Phases ==
  /\ cleanup \in {"requests", "controller", "ended"} /\ ~ cleanupFailed => serverTask # "running"
  /\ cleanup \in {"controller", "ended"} => control # "open"
  /\ cleanup \in {"controller", "ended"} /\ ~ cleanupFailed
       => busy \subseteq Requests \X {"operation"}
  /\ clean => /\ cleanup = "ended" /\ serverTask # "running" /\ ~ socketOpen
              /\ control \in {"none", "closed"} /\ busy \subseteq Requests \X {"operation"}

\* A version that was replaced does not come back: an interpreter that is what was retained
\* after the helper's end was that at its launch.
Retains ==
  serverTask # "none" => retained[Python] <= disk[Python]

RanWith(r) ==
  /\ handler[r] = "launched" => /\ retained[Python] <= used[r][Python]
                                /\ used[r][Python] <= disk[Python]
                                /\ used[r][Bundle] \in {Unselected, retained[Bundle]}
  /\ accepted[r] => /\ handler[r] = "ended"
                    /\ used[r][Python] = retained[Python]
                    /\ used[r][Bundle] \in {Unselected, retained[Bundle]}

ServiceInv ==
  /\ ServiceTyped
  /\ \A r \in Requests : Accounted(r)
  /\ GateRight /\ Fresh /\ Phases /\ Retains
  /\ \A r \in Requests : RanWith(r)

LEMMA ServiceStart == ServiceInit => ServiceInv
<1> SUFFICES ASSUME ServiceInit PROVE ServiceInv
  OBVIOUS
<1> USE DEF ServiceInit, Gate!Init
<1>1. 0 \in 0..ReplaceBound /\ Unselected \in 0..Unselected
  BY ReplaceAssumption DEF Unselected
<1>2. LifeTyped /\ SwitchesTyped
  BY DEF LifeTyped, SwitchesTyped
<1>3. InputsTyped
  BY <1>1 DEF InputsTyped
<1>4. RequestsTyped
  BY <1>1 DEF RequestsTyped
<1>5. ASSUME NEW r \in Requests PROVE Accounted(r) /\ RanWith(r)
  <2>1. request[r] = "idle" /\ handler[r] = "none" /\ ~ accepted[r] /\ busy = {}
    OBVIOUS
  <2> QED
    BY <2>1 DEF Accounted, RanWith
<1>6. GateRight /\ Phases /\ Retains
  BY DEF GateRight, Phases, Retains
<1>7. Fresh
  BY DEF Fresh
<1> QED
  BY <1>2, <1>3, <1>4, <1>5, <1>6, <1>7 DEF ServiceInv, ServiceTyped

\* The accounts of the requests only change with the requests.
LEMMA AccountsStay ==
  ASSUME \A r \in Requests : Accounted(r), UNCHANGED <<busy, request, handler>>, tainted => tainted'
  PROVE  \A r \in Requests : Accounted(r)'
<1> SUFFICES ASSUME NEW r \in Requests PROVE Accounted(r)'
  OBVIOUS
<1>1. Accounted(r)
  OBVIOUS
<1>2. Response(r)' = Response(r) /\ Operation(r)' = Operation(r)
  BY DEF Response, Operation
<1> QED
  BY <1>1, <1>2 DEF Accounted

\* A helper's versions only change with it; a replacement only goes up.
LEMMA RunsStay ==
  ASSUME \A r \in Requests : RanWith(r), UNCHANGED <<handler, used, accepted, retained>>,
         InputsTyped, RequestsTyped,
         disk'[Python] \in Int, disk[Python] <= disk'[Python]
  PROVE  \A r \in Requests : RanWith(r)'
<1> SUFFICES ASSUME NEW r \in Requests PROVE RanWith(r)'
  OBVIOUS
<1>1. RanWith(r)
  OBVIOUS
<1>2. disk[Python] \in Int /\ used[r][Python] \in Int
  BY ReplaceAssumption DEF InputsTyped, RequestsTyped, Inputs, Unselected
<1>3. ASSUME handler[r] = "launched" PROVE used[r][Python] <= disk'[Python]
  BY <1>1, <1>2, <1>3 DEF RanWith
<1> QED
  BY <1>1, <1>3 DEF RanWith

\* A step of the owner leaves the requests and their helpers where they are.
LEMMA OwnerKeepsRequests ==
  ASSUME ServiceInv, UNCHANGED <<busy, request, handler, used, accepted, disk, retained>>,
         tainted => tainted'
  PROVE  /\ InputsTyped' /\ RequestsTyped'
         /\ \A r \in Requests : Accounted(r)'
         /\ \A r \in Requests : RanWith(r)'
<1> USE DEF ServiceInv, ServiceTyped
<1>1. InputsTyped'
  BY DEF InputsTyped, Inputs, Unselected
<1>2. RequestsTyped'
  BY DEF RequestsTyped, Inputs, Unselected
<1>3. \A r \in Requests : Accounted(r)'
  BY AccountsStay
<1>4. disk[Python] \in Int
  BY ReplaceAssumption DEF InputsTyped, Inputs
<1>5. \A r \in Requests : RanWith(r)'
  BY <1>4, RunsStay
<1> QED
  BY <1>1, <1>2, <1>3, <1>5

\* Without an open request only operations are in progress; without a server no request is.
LEMMA NobodyAsked ==
  ASSUME ServiceInv, serverTask = "none" \/ \A r \in Requests : request[r] # "open"
  PROVE  busy \subseteq Requests \X {"operation"}
<1> USE DEF ServiceInv, ServiceTyped
<1> SUFFICES ASSUME NEW w \in busy PROVE w \in Requests \X {"operation"}
  OBVIOUS
<1>1. PICK r \in Requests, k \in {"response", "operation"} : w = <<r, k>>
  BY DEF RequestsTyped
<1>2. Accounted(r) /\ request[r] # "open"
  BY DEF Fresh
<1>3. Response(r) \notin busy
  BY <1>2 DEF Accounted
<1> QED
  BY <1>1, <1>3 DEF Response

\* Each step of the owner keeps what is known of the service.
LEMMA StartFailsEarlyKeeps ==
  ASSUME ServiceInv, StartFailsEarly PROVE ServiceInv'
<1> USE DEF ServiceInv, ServiceTyped, lifeVars, ledgerVars, serverVars, cleanupVars, inputVars,
        requestVars, handlerVars
<1>1. UNCHANGED <<busy, request, handler, used, accepted, disk, retained>>
  BY DEF StartFailsEarly
<1>2. tainted => tainted'
  BY DEF StartFailsEarly, Shutting
<1>3. LifeTyped'
  BY DEF StartFailsEarly, Shutting, LifeTyped
<1>4. SwitchesTyped'
  BY Zenon DEF StartFailsEarly, Shutting, SwitchesTyped
<1>5. GateRight'
  BY DEF StartFailsEarly, Shutting, GateRight
<1>6. Fresh'
  BY <1>1 DEF StartFailsEarly, Shutting, Fresh, Inputs, Unselected
<1>7. Phases'
  BY DEF StartFailsEarly, Shutting, Phases, LifeTyped, GateRight, Fresh
<1>8. Retains'
  BY DEF StartFailsEarly, Shutting, Retains
<1> QED
  BY <1>1, <1>2, <1>3, <1>4, <1>5, <1>6, <1>7, <1>8, OwnerKeepsRequests

LEMMA StartRunsKeeps ==
  ASSUME ServiceInv, StartRuns PROVE ServiceInv'
<1> USE DEF ServiceInv, ServiceTyped, lifeVars, ledgerVars, serverVars, cleanupVars, inputVars,
        requestVars, handlerVars
<1>1. UNCHANGED <<busy, request, handler, used, accepted, disk, retained>>
  BY DEF StartRuns
<1>2. tainted => tainted'
  BY DEF StartRuns
<1>3. LifeTyped'
  BY DEF StartRuns, LifeTyped
<1>4. SwitchesTyped'
  BY Zenon DEF StartRuns, SwitchesTyped
<1>5. GateRight'
  BY DEF StartRuns, GateRight
<1>6. Fresh'
  BY <1>1 DEF StartRuns, Fresh, Inputs, Unselected
<1>7. Phases'
  BY DEF StartRuns, Phases, LifeTyped, GateRight, Fresh
<1>8. Retains'
  BY DEF StartRuns, Retains
<1> QED
  BY <1>1, <1>2, <1>3, <1>4, <1>5, <1>6, <1>7, <1>8, OwnerKeepsRequests

LEMMA StartFailsKeeps ==
  ASSUME ServiceInv, StartFails PROVE ServiceInv'
<1> USE DEF ServiceInv, ServiceTyped, lifeVars, ledgerVars, serverVars, cleanupVars, inputVars,
        requestVars, handlerVars
<1>1. UNCHANGED <<busy, request, handler, used, accepted, disk, retained>>
  BY DEF StartFails
<1>2. tainted => tainted'
  BY DEF StartFails, Shutting
<1>3. LifeTyped'
  BY DEF StartFails, Shutting, LifeTyped
<1>4. SwitchesTyped'
  BY Zenon DEF StartFails, Shutting, SwitchesTyped
<1>5. GateRight'
  BY DEF StartFails, Shutting, GateRight
<1>6. Fresh'
  BY <1>1 DEF StartFails, Shutting, Fresh, Inputs, Unselected
<1>7. Phases'
  BY DEF StartFails, Shutting, Phases, LifeTyped, GateRight, Fresh
<1>8. Retains'
  BY DEF StartFails, Shutting, Retains
<1> QED
  BY <1>1, <1>2, <1>3, <1>4, <1>5, <1>6, <1>7, <1>8, OwnerKeepsRequests

LEMMA ACloseKeeps ==
  ASSUME ServiceInv, AClose PROVE ServiceInv'
<1> USE DEF ServiceInv, ServiceTyped, lifeVars, ledgerVars, serverVars, cleanupVars, inputVars,
        requestVars, handlerVars
<1>1. UNCHANGED <<busy, request, handler, used, accepted, disk, retained>>
  BY DEF AClose
<1>2. tainted => tainted'
  BY DEF AClose, Shutting
<1>3. LifeTyped'
  BY DEF AClose, Shutting, LifeTyped
<1>4. SwitchesTyped'
  BY Zenon DEF AClose, Shutting, SwitchesTyped
<1>5. GateRight'
  BY DEF AClose, Shutting, GateRight
<1>6. Fresh'
  BY <1>1 DEF AClose, Shutting, Fresh, Inputs, Unselected
<1>7. Phases'
  BY DEF AClose, Shutting, Phases, LifeTyped, GateRight, Fresh
<1>8. Retains'
  BY DEF AClose, Shutting, Retains
<1> QED
  BY <1>1, <1>2, <1>3, <1>4, <1>5, <1>6, <1>7, <1>8, OwnerKeepsRequests

LEMMA CloseCancelledKeeps ==
  ASSUME ServiceInv, CloseCancelled PROVE ServiceInv'
<1> USE DEF ServiceInv, ServiceTyped, lifeVars, ledgerVars, serverVars, cleanupVars, inputVars,
        requestVars, handlerVars
<1>1. UNCHANGED <<busy, request, handler, used, accepted, disk, retained>>
  BY DEF CloseCancelled
<1>2. tainted => tainted'
  BY DEF CloseCancelled
<1>3. LifeTyped'
  BY DEF CloseCancelled, LifeTyped
<1>4. SwitchesTyped'
  BY Zenon DEF CloseCancelled, SwitchesTyped
<1>5. GateRight'
  BY DEF CloseCancelled, GateRight
<1>6. Fresh'
  BY <1>1 DEF CloseCancelled, Fresh, Inputs, Unselected
<1>7. Phases'
  BY DEF CloseCancelled, Phases, LifeTyped, GateRight, Fresh
<1>8. Retains'
  BY DEF CloseCancelled, Retains
<1> QED
  BY <1>1, <1>2, <1>3, <1>4, <1>5, <1>6, <1>7, <1>8, OwnerKeepsRequests

LEMMA ServerListensKeeps ==
  ASSUME ServiceInv, ServerListens PROVE ServiceInv'
<1> USE DEF ServiceInv, ServiceTyped, lifeVars, ledgerVars, serverVars, cleanupVars, inputVars,
        requestVars, handlerVars
<1>1. UNCHANGED <<busy, request, handler, used, accepted, disk, retained>>
  BY DEF ServerListens
<1>2. tainted => tainted'
  BY DEF ServerListens
<1>3. LifeTyped'
  BY DEF ServerListens, LifeTyped
<1>4. SwitchesTyped'
  BY Zenon DEF ServerListens, SwitchesTyped
<1>5. GateRight'
  BY DEF ServerListens, GateRight
<1>6. Fresh'
  BY <1>1 DEF ServerListens, Fresh, Inputs, Unselected
<1>7. Phases'
  BY DEF ServerListens, Phases, LifeTyped, GateRight, Fresh
<1>8. Retains'
  BY DEF ServerListens, Retains
<1> QED
  BY <1>1, <1>2, <1>3, <1>4, <1>5, <1>6, <1>7, <1>8, OwnerKeepsRequests

LEMMA ServerEndsKeeps ==
  ASSUME ServiceInv, NEW error \in BOOLEAN, ServerEnds(error) PROVE ServiceInv'
<1> USE DEF ServiceInv, ServiceTyped, lifeVars, ledgerVars, serverVars, cleanupVars, inputVars,
        requestVars, handlerVars
<1>1. UNCHANGED <<busy, request, handler, used, accepted, disk, retained>>
  BY DEF ServerEnds
<1>2. tainted => tainted'
  BY DEF ServerEnds, Failed
<1>3. LifeTyped'
  BY DEF ServerEnds, Failed, LifeTyped
<1>4. SwitchesTyped'
  BY Zenon DEF ServerEnds, Failed, SwitchesTyped
<1>5. GateRight'
  BY DEF ServerEnds, Failed, GateRight
<1>6. Fresh'
  BY <1>1 DEF ServerEnds, Failed, Fresh, Inputs, Unselected
<1>7. Phases'
  BY DEF ServerEnds, Failed, Phases, LifeTyped, GateRight, Fresh
<1>8. Retains'
  BY DEF ServerEnds, Failed, Retains
<1> QED
  BY <1>1, <1>2, <1>3, <1>4, <1>5, <1>6, <1>7, <1>8, OwnerKeepsRequests

LEMMA ListenerLostKeeps ==
  ASSUME ServiceInv, ListenerLost PROVE ServiceInv'
<1> USE DEF ServiceInv, ServiceTyped, lifeVars, ledgerVars, serverVars, cleanupVars, inputVars,
        requestVars, handlerVars
<1>1. UNCHANGED <<busy, request, handler, used, accepted, disk, retained>>
  BY DEF ListenerLost
<1>2. tainted => tainted'
  BY DEF ListenerLost
<1>3. LifeTyped'
  BY DEF ListenerLost, LifeTyped
<1>4. SwitchesTyped'
  BY Zenon DEF ListenerLost, SwitchesTyped
<1>5. GateRight'
  BY DEF ListenerLost, GateRight
<1>6. Fresh'
  BY <1>1 DEF ListenerLost, Fresh, Inputs, Unselected
<1>7. Phases'
  BY DEF ListenerLost, Phases, LifeTyped, GateRight, Fresh
<1>8. Retains'
  BY DEF ListenerLost, Retains
<1> QED
  BY <1>1, <1>2, <1>3, <1>4, <1>5, <1>6, <1>7, <1>8, OwnerKeepsRequests

LEMMA FoundBrokenKeeps ==
  ASSUME ServiceInv, FoundBroken PROVE ServiceInv'
<1> USE DEF ServiceInv, ServiceTyped, lifeVars, ledgerVars, serverVars, cleanupVars, inputVars,
        requestVars, handlerVars
<1>1. UNCHANGED <<busy, request, handler, used, accepted, disk, retained>>
  BY DEF FoundBroken
<1>2. tainted => tainted'
  BY DEF FoundBroken, Failed
<1>3. LifeTyped'
  BY DEF FoundBroken, Failed, LifeTyped
<1>4. SwitchesTyped'
  BY Zenon DEF FoundBroken, Failed, SwitchesTyped
<1>5. GateRight'
  BY DEF FoundBroken, Failed, GateRight
<1>6. Fresh'
  BY <1>1 DEF FoundBroken, Failed, Fresh, Inputs, Unselected
<1>7. Phases'
  BY DEF FoundBroken, Failed, Phases, LifeTyped, GateRight, Fresh
<1>8. Retains'
  BY DEF FoundBroken, Failed, Retains
<1> QED
  BY <1>1, <1>2, <1>3, <1>4, <1>5, <1>6, <1>7, <1>8, OwnerKeepsRequests

LEMMA FoundChangedKeeps ==
  ASSUME ServiceInv, FoundChanged PROVE ServiceInv'
<1> USE DEF ServiceInv, ServiceTyped, lifeVars, ledgerVars, serverVars, cleanupVars, inputVars,
        requestVars, handlerVars
<1>1. UNCHANGED <<busy, request, handler, used, accepted, disk, retained>>
  BY DEF FoundChanged
<1>2. tainted => tainted'
  BY DEF FoundChanged, Failed
<1>3. LifeTyped'
  BY DEF FoundChanged, Failed, LifeTyped
<1>4. SwitchesTyped'
  BY Zenon DEF FoundChanged, Failed, SwitchesTyped
<1>5. GateRight'
  BY DEF FoundChanged, Failed, GateRight
<1>6. Fresh'
  BY <1>1 DEF FoundChanged, Failed, Fresh, Inputs, Unselected
<1>7. Phases'
  BY DEF FoundChanged, Failed, Phases, LifeTyped, GateRight, Fresh
<1>8. Retains'
  BY DEF FoundChanged, Failed, Retains
<1> QED
  BY <1>1, <1>2, <1>3, <1>4, <1>5, <1>6, <1>7, <1>8, OwnerKeepsRequests

LEMMA EnterMaintenanceKeeps ==
  ASSUME ServiceInv, EnterMaintenance PROVE ServiceInv'
<1> USE DEF ServiceInv, ServiceTyped, lifeVars, ledgerVars, serverVars, cleanupVars, inputVars,
        requestVars, handlerVars
<1>1. UNCHANGED <<busy, request, handler, used, accepted, disk, retained>>
  BY DEF EnterMaintenance, Gate!Enter
<1>2. tainted => tainted'
  BY DEF EnterMaintenance, Gate!Enter
<1>3. LifeTyped'
  BY DEF EnterMaintenance, Gate!Enter, LifeTyped
<1>4. SwitchesTyped'
  BY Zenon DEF EnterMaintenance, Gate!Enter, SwitchesTyped
<1>5. GateRight'
  BY DEF EnterMaintenance, Gate!Enter, GateRight
<1>6. Fresh'
  BY <1>1 DEF EnterMaintenance, Gate!Enter, Fresh, Inputs, Unselected
<1>7. Phases'
  BY DEF EnterMaintenance, Gate!Enter, Phases, LifeTyped, GateRight, Fresh
<1>8. Retains'
  BY DEF EnterMaintenance, Gate!Enter, Retains
<1> QED
  BY <1>1, <1>2, <1>3, <1>4, <1>5, <1>6, <1>7, <1>8, OwnerKeepsRequests

LEMMA LeaveMaintenanceKeeps ==
  ASSUME ServiceInv, LeaveMaintenance PROVE ServiceInv'
<1> USE DEF ServiceInv, ServiceTyped, lifeVars, ledgerVars, serverVars, cleanupVars, inputVars,
        requestVars, handlerVars
<1>1. UNCHANGED <<busy, request, handler, used, accepted, disk, retained>>
  BY DEF LeaveMaintenance, Gate!Leave
<1>2. tainted => tainted'
  BY DEF LeaveMaintenance, Gate!Leave
<1>3. LifeTyped'
  BY DEF LeaveMaintenance, Gate!Leave, LifeTyped
<1>4. SwitchesTyped'
  BY Zenon DEF LeaveMaintenance, Gate!Leave, SwitchesTyped
<1>5. GateRight'
  BY DEF LeaveMaintenance, Gate!Leave, GateRight
<1>6. Fresh'
  BY <1>1 DEF LeaveMaintenance, Gate!Leave, Fresh, Inputs, Unselected
<1>7. Phases'
  BY DEF LeaveMaintenance, Gate!Leave, Phases, LifeTyped, GateRight, Fresh
<1>8. Retains'
  BY DEF LeaveMaintenance, Gate!Leave, Retains
<1> QED
  BY <1>1, <1>2, <1>3, <1>4, <1>5, <1>6, <1>7, <1>8, OwnerKeepsRequests

LEMMA CloseServerKeeps ==
  ASSUME ServiceInv, CloseServer PROVE ServiceInv'
<1> USE DEF ServiceInv, ServiceTyped, lifeVars, ledgerVars, serverVars, cleanupVars, inputVars,
        requestVars, handlerVars
<1>1. UNCHANGED <<busy, request, handler, used, accepted, disk, retained>>
  BY DEF CloseServer
<1>2. tainted => tainted'
  BY DEF CloseServer, Overdue, CleanupFailure
<1>3. LifeTyped'
  BY DEF CloseServer, Overdue, CleanupFailure, LifeTyped
<1>4. SwitchesTyped'
  BY Zenon DEF CloseServer, Overdue, CleanupFailure, SwitchesTyped
<1>5. GateRight'
  BY DEF CloseServer, Overdue, CleanupFailure, GateRight
<1>6. Fresh'
  BY <1>1 DEF CloseServer, Overdue, CleanupFailure, Fresh, Inputs, Unselected
<1>7. Phases'
  BY DEF CloseServer, Overdue, CleanupFailure, Phases, LifeTyped, GateRight, Fresh
<1>8. Retains'
  BY DEF CloseServer, Overdue, CleanupFailure, Retains
<1> QED
  BY <1>1, <1>2, <1>3, <1>4, <1>5, <1>6, <1>7, <1>8, OwnerKeepsRequests

LEMMA CloseRequestsKeeps ==
  ASSUME ServiceInv, CloseRequests PROVE ServiceInv'
<1> USE DEF ServiceInv, ServiceTyped, lifeVars, ledgerVars, serverVars, cleanupVars, inputVars,
        requestVars, handlerVars
<1>1. UNCHANGED <<busy, request, handler, used, accepted, disk, retained>>
  BY DEF CloseRequests
<1>2. tainted => tainted'
  BY DEF CloseRequests, CleanupFailure
<1>3. LifeTyped'
  BY DEF CloseRequests, CleanupFailure, LifeTyped
<1>4. SwitchesTyped'
  BY Zenon DEF CloseRequests, CleanupFailure, SwitchesTyped
<1>5. GateRight'
  BY DEF CloseRequests, CleanupFailure, GateRight
<1>6. Fresh'
  BY <1>1 DEF CloseRequests, CleanupFailure, Fresh, Inputs, Unselected
<1>7. Phases'
  BY NobodyAsked DEF CloseRequests, CleanupFailure, Phases, LifeTyped, GateRight, Fresh
<1>8. Retains'
  BY DEF CloseRequests, CleanupFailure, Retains
<1> QED
  BY <1>1, <1>2, <1>3, <1>4, <1>5, <1>6, <1>7, <1>8, OwnerKeepsRequests

LEMMA ControllerClosesKeeps ==
  ASSUME ServiceInv, ControllerCloses PROVE ServiceInv'
<1> USE DEF ServiceInv, ServiceTyped, lifeVars, ledgerVars, serverVars, cleanupVars, inputVars,
        requestVars, handlerVars
<1>1. UNCHANGED <<busy, request, handler, used, accepted, disk, retained>>
  BY DEF ControllerCloses
<1>2. tainted => tainted'
  BY DEF ControllerCloses
<1>3. LifeTyped'
  BY DEF ControllerCloses, LifeTyped
<1>4. SwitchesTyped'
  BY Zenon DEF ControllerCloses, SwitchesTyped
<1>5. GateRight'
  BY DEF ControllerCloses, GateRight
<1>6. Fresh'
  BY <1>1 DEF ControllerCloses, Fresh, Inputs, Unselected
<1>7. Phases'
  BY DEF ControllerCloses, Phases, LifeTyped, GateRight, Fresh
<1>8. Retains'
  BY DEF ControllerCloses, Retains
<1> QED
  BY <1>1, <1>2, <1>3, <1>4, <1>5, <1>6, <1>7, <1>8, OwnerKeepsRequests

LEMMA CloseSocketKeeps ==
  ASSUME ServiceInv, CloseSocket PROVE ServiceInv'
<1> USE DEF ServiceInv, ServiceTyped, lifeVars, ledgerVars, serverVars, cleanupVars, inputVars,
        requestVars, handlerVars
<1>1. UNCHANGED <<busy, request, handler, used, accepted, disk, retained>>
  BY DEF CloseSocket
<1>2. tainted => tainted'
  BY DEF CloseSocket, LeftOpen
<1>3. LifeTyped'
  BY DEF CloseSocket, LeftOpen, LifeTyped
<1>4. SwitchesTyped'
  BY Zenon DEF CloseSocket, LeftOpen, SwitchesTyped
<1>5. GateRight'
  BY DEF CloseSocket, LeftOpen, GateRight
<1>6. Fresh'
  BY <1>1 DEF CloseSocket, LeftOpen, Fresh, Inputs, Unselected
<1>7. Phases'
  BY DEF CloseSocket, LeftOpen, Phases, LifeTyped, GateRight, Fresh
<1>8. Retains'
  BY DEF CloseSocket, LeftOpen, Retains
<1> QED
  BY <1>1, <1>2, <1>3, <1>4, <1>5, <1>6, <1>7, <1>8, OwnerKeepsRequests

\* The inputs are chosen before anything is asked.
LEMMA StartKeeps ==
  ASSUME ServiceInv, Start PROVE ServiceInv'
<1> USE DEF ServiceInv, ServiceTyped, lifeVars, ledgerVars, serverVars, cleanupVars, inputVars,
        requestVars, handlerVars
<1>1. /\ UNCHANGED <<busy, request, handler, used, accepted, disk>>
      /\ tainted' = tainted
  BY DEF Start, Gate!Claim
<1>2. Python \in Inputs /\ Runtime \in Inputs /\ Bundle \in Inputs /\ Python # Runtime
  BY InputsAssumption DEF Inputs
<1>3. /\ disk[Python] \in 0..Unselected /\ disk[Runtime] \in 0..Unselected
      /\ disk[Python] \in Int
  BY <1>2, ReplaceAssumption DEF InputsTyped, Unselected
<1>4. PICK kept : kept = [retained EXCEPT ![Python] = disk[Python], ![Runtime] = disk[Runtime]]
  OBVIOUS
<1>5. retained' = kept
  BY <1>4 DEF Start
<1>6. kept \in [Inputs -> 0..Unselected] /\ kept[Python] = disk[Python]
  BY <1>2, <1>3, <1>4 DEF InputsTyped
<1>7. InputsTyped'
  BY <1>1, <1>5, <1>6 DEF InputsTyped, Inputs, Unselected
<1>8. RequestsTyped'
  BY <1>1 DEF RequestsTyped, Inputs, Unselected
<1>9. serverTask = "none" /\ \A r \in Requests : request[r] = "idle"
  BY DEF Start, Fresh
<1>10. \A r \in Requests : Accounted(r)'
  BY <1>1, AccountsStay
<1>11. \A r \in Requests : RanWith(r)'
  <2> SUFFICES ASSUME NEW r \in Requests PROVE RanWith(r)'
    OBVIOUS
  <2>1. handler[r] = "none" /\ RanWith(r)
    BY <1>9 DEF Accounted
  <2> QED
    BY <1>1, <2>1 DEF RanWith
<1>12. LifeTyped'
  BY DEF Start, Gate!Claim, LifeTyped
<1>13. SwitchesTyped'
  BY Zenon DEF Start, Gate!Claim, SwitchesTyped
<1>14. GateRight'
  BY DEF Start, Gate!Claim, GateRight
<1>15. Fresh'
  BY DEF Start, Fresh
<1>16. Phases'
  BY DEF Start, Gate!Claim, Phases, GateRight
<1>17. Retains'
  BY <1>1, <1>3, <1>5, <1>6 DEF Retains
<1> QED
  BY <1>7, <1>8, <1>10, <1>11, <1>12, <1>13, <1>14, <1>15, <1>16, <1>17

LEMMA ServiceReplaceKeeps ==
  ASSUME ServiceInv, NEW i \in Inputs, ServiceReplace(i) PROVE ServiceInv'
<1> USE DEF ServiceInv, ServiceTyped, lifeVars, ledgerVars, serverVars, cleanupVars, inputVars,
        requestVars, handlerVars
<1>1. /\ UNCHANGED <<busy, tainted, gate, request, handler, used, accepted, retained, invalid>>
      /\ UNCHANGED <<lifecycle, starting, failed, socketOpen, serverTask, listening, control>>
      /\ UNCHANGED <<cleanup, cleanupFailed, clean>>
  BY DEF ServiceReplace
<1>2. Python \in Inputs /\ disk[i] \in 0..ReplaceBound /\ disk[Python] \in 0..ReplaceBound
  BY DEF InputsTyped, Inputs
<1>3. PICK next : next = [disk EXCEPT ![i] = disk[i] + 1]
  OBVIOUS
<1>4. disk' = next /\ disk[i] + 1 \in 0..ReplaceBound
  BY <1>2, <1>3, ReplaceAssumption DEF ServiceReplace
<1>5. next \in [Inputs -> 0..ReplaceBound]
  BY <1>3, <1>4 DEF InputsTyped
<1>6. next[Python] \in Int /\ disk[Python] <= next[Python]
  BY <1>2, <1>3, <1>5, ReplaceAssumption DEF InputsTyped
<1>7. InputsTyped'
  BY <1>1, <1>4, <1>5 DEF InputsTyped, Inputs, Unselected
<1>8. RequestsTyped'
  BY <1>1 DEF RequestsTyped, Inputs, Unselected
<1>9. \A r \in Requests : Accounted(r)'
  BY <1>1, AccountsStay
<1>10. \A r \in Requests : RanWith(r)'
  BY <1>1, <1>4, <1>6, RunsStay
<1>11. LifeTyped'
  BY <1>1 DEF LifeTyped
<1>12. SwitchesTyped'
  BY <1>1, Zenon DEF SwitchesTyped
<1>13. GateRight' /\ Phases'
  BY <1>1, Zenon DEF GateRight, Phases
<1>14. Fresh'
  BY <1>1 DEF Fresh, Inputs, Unselected
<1>15. Retains'
  <2>1. retained[Python] \in Int
    BY <1>2, ReplaceAssumption DEF InputsTyped, Unselected
  <2> QED
    BY <1>1, <1>2, <1>4, <1>6, <2>1 DEF Retains
<1> QED
  BY <1>7, <1>8, <1>9, <1>10, <1>11, <1>12, <1>13, <1>14, <1>15

\* What a step of a request does to the accounts: its own entry agrees with the ledger, and
\* the others are not touched.
LEMMA RequestMoves ==
  ASSUME ServiceInv, NEW r \in Requests,
         NEW q \in {"idle", "open", "done", "cut"},
         NEW h \in {"none", "asked", "ready", "checked", "launched", "ended", "lost"},
         request' = [request EXCEPT ![r] = q], handler' = [handler EXCEPT ![r] = h],
         \/ busy' = busy
         \/ busy' = busy \cup {Response(r)} \/ busy' = busy \ {Response(r)}
         \/ busy' = busy \cup {Operation(r)} \/ busy' = busy \ {Operation(r)},
         tainted => tainted',
         (q = "open") <=> (Response(r) \in busy'),
         (h \in {"ready", "checked", "launched"}) <=> (Operation(r) \in busy'),
         h \in {"asked", "ready", "checked", "launched"} => q \in {"open", "cut"}, q = "idle" => h = "none",
         q = "cut" => tainted', h = "lost" => tainted'
  PROVE  /\ busy' \subseteq Requests \X {"response", "operation"}
         /\ request' \in [Requests -> {"idle", "open", "done", "cut"}]
         /\ handler' \in [Requests -> {"none", "asked", "ready", "checked", "launched", "ended",
                                       "lost"}]
         /\ \A p \in Requests : Accounted(p)'
         /\ \A p \in Requests \ {r} : handler'[p] = handler[p] /\ request'[p] = request[p]
         /\ handler'[r] = h /\ request'[r] = q
<1> USE DEF ServiceInv, ServiceTyped, RequestsTyped
<1>1. Response(r) \in Requests \X {"response", "operation"}
      /\ Operation(r) \in Requests \X {"response", "operation"}
  BY DEF Response, Operation
<1>2. busy' \subseteq Requests \X {"response", "operation"}
  BY <1>1
<1>3. /\ request' \in [Requests -> {"idle", "open", "done", "cut"}]
      /\ request'[r] = q /\ \A p \in Requests \ {r} : request'[p] = request[p]
  OBVIOUS
<1>4. /\ handler' \in [Requests -> {"none", "asked", "ready", "checked", "launched", "ended",
                                    "lost"}]
      /\ handler'[r] = h /\ \A p \in Requests \ {r} : handler'[p] = handler[p]
  OBVIOUS
<1>5. ASSUME NEW p \in Requests PROVE Accounted(p)'
  <2>1. Response(p)' = Response(p) /\ Operation(p)' = Operation(p)
    BY DEF Response, Operation
  <2>2. CASE p = r
    BY <1>3, <1>4, <2>1, <2>2 DEF Accounted
  <2>3. CASE p # r
    <3>1. Accounted(p)
      OBVIOUS
    <3>2. /\ Response(p) # Response(r) /\ Operation(p) # Operation(r)
          /\ Response(p) # Operation(r) /\ Operation(p) # Response(r)
      BY <2>3 DEF Response, Operation
    <3>3. (Response(p) \in busy' <=> Response(p) \in busy)
          /\ (Operation(p) \in busy' <=> Operation(p) \in busy)
      BY <3>2
    <3>4. request'[p] = request[p] /\ handler'[p] = handler[p]
      BY <1>3, <1>4, <2>3
    <3> HIDE DEF ServiceInv
    <3> QED
      BY <2>1, <3>1, <3>3, <3>4 DEF Accounted
  <2> QED
    BY <2>2, <2>3
<1> QED
  BY <1>2, <1>3, <1>4, <1>5

\* The parts of a running service that a step of a request does not write.
Elsewhere ==
  /\ UNCHANGED <<lifecycle, starting, failed, socketOpen, serverTask, listening, control, cleanup,
                 cleanupFailed, clean, disk>>
  /\ invalid' \in BOOLEAN /\ tainted' \in BOOLEAN
  /\ gate' = gate \/ gate' = "closed"
  /\ gate' = "held" => busy' = {} /\ ~ tainted'
  /\ busy' \subseteq busy \/ gate = "open"

LEMMA ElsewhereKeeps ==
  ASSUME ServiceInv, Elsewhere, serverTask # "none", retained'[Python] = retained[Python]
  PROVE  LifeTyped' /\ SwitchesTyped' /\ GateRight' /\ Fresh' /\ Phases' /\ Retains'
<1> USE DEF ServiceInv, ServiceTyped, Elsewhere
<1>1. LifeTyped'
  BY DEF LifeTyped
<1>2. SwitchesTyped'
  BY Zenon DEF SwitchesTyped
<1>3. GateRight'
  BY DEF GateRight
<1>4. Fresh'
  BY DEF Fresh
<1>5. cleanup # "none" => busy' \subseteq busy
  BY DEF GateRight
<1>6. Phases'
  BY <1>5 DEF Phases
<1>7. Retains'
  BY DEF Retains
<1> QED
  BY <1>1, <1>2, <1>3, <1>4, <1>6, <1>7

\* A request that was made has a server, and a window has no request.
LEMMA AskedHasServer ==
  ASSUME ServiceInv, NEW r \in Requests, request[r] # "idle" \/ handler[r] # "none"
  PROVE  serverTask # "none"
BY DEF ServiceInv, Fresh, Accounted

LEMMA BeginRequestKeeps ==
  ASSUME ServiceInv, NEW r \in Requests, BeginRequest(r) PROVE ServiceInv'
<1> USE DEF ServiceInv, ServiceTyped
<1>1. PICK h \in {"none", "asked"} : handler' = [handler EXCEPT ![r] = h]
  BY DEF BeginRequest
<1>2. /\ request[r] = "idle" /\ request' = [request EXCEPT ![r] = "open"]
      /\ lifecycle = "running" /\ gate = "open" /\ gate' = gate
      /\ busy' = busy \cup {Response(r)} /\ tainted' = tainted
      /\ serverTask = "running"
  BY DEF BeginRequest, Gate!Admit, Serving
<1>3. /\ UNCHANGED <<lifecycle, starting, failed, socketOpen, serverTask, listening, control,
                     cleanup, cleanupFailed, clean, disk, retained, invalid, used, accepted>>
  BY DEF BeginRequest, lifeVars, serverVars, cleanupVars, inputVars
<1>4. handler[r] = "none" /\ Operation(r) \notin busy /\ Accounted(r)
  BY <1>2 DEF Accounted
<1>5. Operation(r) \notin busy' /\ Response(r) \in busy'
  BY <1>2, <1>4 DEF Response, Operation
<1>6. /\ busy' \subseteq Requests \X {"response", "operation"}
      /\ request' \in [Requests -> {"idle", "open", "done", "cut"}]
      /\ handler' \in [Requests -> {"none", "asked", "ready", "checked", "launched", "ended",
                                    "lost"}]
      /\ \A p \in Requests : Accounted(p)'
      /\ \A p \in Requests \ {r} : handler'[p] = handler[p] /\ request'[p] = request[p]
      /\ handler'[r] = h /\ request'[r] = "open"
  <2> HIDE DEF ServiceInv
  <2> QED
    BY <1>1, <1>2, <1>5, RequestMoves
<1>7. InputsTyped' /\ RequestsTyped'
  BY <1>3, <1>6 DEF InputsTyped, RequestsTyped, Inputs, Unselected
<1>8. Elsewhere
  BY <1>2, <1>3, Zenon DEF Elsewhere, SwitchesTyped
<1>9. LifeTyped' /\ SwitchesTyped' /\ GateRight' /\ Fresh' /\ Phases' /\ Retains'
  BY <1>2, <1>3, <1>8, ElsewhereKeeps
<1>10. \A p \in Requests : RanWith(p)'
  <2> SUFFICES ASSUME NEW p \in Requests PROVE RanWith(p)'
    OBVIOUS
  <2>1. RanWith(p)
    OBVIOUS
  <2>2. CASE p = r
    BY <1>1, <1>3, <1>4, <1>6, <2>1, <2>2 DEF RanWith
  <2>3. CASE p # r
    BY <1>3, <1>6, <2>1, <2>3 DEF RanWith
  <2> QED
    BY <2>2, <2>3
<1> QED
  BY <1>6, <1>7, <1>9, <1>10

LEMMA FinishRequestKeeps ==
  ASSUME ServiceInv, NEW r \in Requests, NEW complete \in BOOLEAN, FinishRequest(r, complete)
  PROVE  ServiceInv'
<1> USE DEF ServiceInv, ServiceTyped
<1>1. PICK q \in {"done", "cut"} : /\ request' = [request EXCEPT ![r] = q]
                                   /\ q = "done" => handler[r] \in {"none", "ended"}
                                   /\ q = "cut" => tainted'
  <2>1. CASE complete
    BY <2>1 DEF FinishRequest
  <2>2. CASE ~ complete
    BY <2>2 DEF FinishRequest, Uncertain
  <2> QED
    BY <2>1, <2>2
<1>2. /\ request[r] = "open" /\ gate' = gate /\ busy' = busy \ {Response(r)}
      /\ tainted => tainted'
  BY DEF FinishRequest
<1>3. UNCHANGED <<lifecycle, starting, failed, socketOpen, serverTask, listening, control,
                  cleanup, cleanupFailed, clean, disk, retained, invalid, handler, used, accepted>>
  BY DEF FinishRequest, lifeVars, serverVars, cleanupVars, inputVars, handlerVars
<1>4. tainted' \in BOOLEAN
  BY Zenon DEF FinishRequest, Uncertain, SwitchesTyped
<1>5. Accounted(r) /\ Response(r) \in busy
  BY <1>2 DEF Accounted
<1>6. Response(r) \notin busy' /\ (Operation(r) \in busy' <=> Operation(r) \in busy)
  BY <1>2 DEF Response, Operation
<1>7. /\ handler' = [handler EXCEPT ![r] = handler[r]]
      /\ handler[r] \in {"none", "asked", "ready", "checked", "launched", "ended", "lost"}
  BY <1>3 DEF RequestsTyped
<1>8. /\ busy' \subseteq Requests \X {"response", "operation"}
      /\ request' \in [Requests -> {"idle", "open", "done", "cut"}]
      /\ \A p \in Requests : Accounted(p)'
  <2>1. /\ (handler[r] \in {"ready", "checked", "launched"}) <=> (Operation(r) \in busy')
        /\ handler[r] \in {"asked", "ready", "checked", "launched"} => q \in {"open", "cut"}
        /\ handler[r] = "lost" => tainted'
    BY <1>1, <1>2, <1>5, <1>6 DEF Accounted
  <2> HIDE DEF ServiceInv
  <2> QED
    BY <1>1, <1>2, <1>6, <1>7, <2>1, RequestMoves
<1>9. InputsTyped' /\ RequestsTyped'
  BY <1>3, <1>8 DEF InputsTyped, RequestsTyped, Inputs, Unselected
<1>10. gate' # "held"
  BY <1>2, <1>5 DEF GateRight
<1>11. Elsewhere
  BY <1>2, <1>3, <1>4, <1>10, Zenon DEF Elsewhere, SwitchesTyped
<1>12. LifeTyped' /\ SwitchesTyped' /\ GateRight' /\ Fresh' /\ Phases' /\ Retains'
  BY <1>2, <1>3, <1>11, ElsewhereKeeps, AskedHasServer
<1>13. \A p \in Requests : RanWith(p)'
  BY <1>3, Zenon DEF RanWith
<1> QED
  BY <1>8, <1>9, <1>12, <1>13

\* A step of a handler whose request, clean-up and owner stay.
HandlerMoves ==
  /\ UNCHANGED <<lifecycle, starting, failed, socketOpen, serverTask, listening, control, cleanup,
                 cleanupFailed, clean, disk, request>>
  /\ invalid' \in BOOLEAN /\ tainted' \in BOOLEAN
  /\ tainted => tainted'
  /\ gate' = gate \/ gate' = "closed"

LEMMA HandlerKeeps ==
  ASSUME ServiceInv, NEW r \in Requests, HandlerMoves,
         handler[r] \in {"asked", "ready", "checked", "launched"},
         NEW h \in {"ready", "checked", "launched", "ended", "lost"},
         handler' = [handler EXCEPT ![r] = h],
         \/ busy' = busy
         \/ busy' = busy \cup {Operation(r)} /\ gate = "open" /\ gate' = "open"
         \/ busy' = busy \ {Operation(r)},
         (h \in {"ready", "checked", "launched"}) <=> (Operation(r) \in busy'),
         h = "lost" => tainted',
         InputsTyped', used' \in [Requests -> [Inputs -> 0..Unselected]],
         accepted' \in [Requests -> BOOLEAN],
         retained'[Python] = retained[Python],
         retained[Bundle] # Unselected => retained'[Bundle] = retained[Bundle],
         \A p \in Requests \ {r} : used'[p] = used[p] /\ accepted'[p] = accepted[p],
         RanWith(r)'
  PROVE  ServiceInv'
<1> USE DEF ServiceInv, ServiceTyped
<1>1. Accounted(r) /\ request[r] \in {"open", "cut"}
  BY DEF Accounted
<1>2. /\ request' = [request EXCEPT ![r] = request[r]]
      /\ request[r] \in {"idle", "open", "done", "cut"}
  BY DEF HandlerMoves, RequestsTyped
<1>3. (request[r] = "open") <=> (Response(r) \in busy')
  BY <1>1 DEF Accounted, Response, Operation
<1>4. request[r] = "cut" => tainted'
  BY <1>1 DEF Accounted, HandlerMoves
<1>5. /\ busy' \subseteq Requests \X {"response", "operation"}
      /\ request' \in [Requests -> {"idle", "open", "done", "cut"}]
      /\ handler' \in [Requests -> {"none", "asked", "ready", "checked", "launched", "ended",
                                    "lost"}]
      /\ \A p \in Requests : Accounted(p)'
      /\ \A p \in Requests \ {r} : handler'[p] = handler[p] /\ request'[p] = request[p]
      /\ handler'[r] = h
  <2>1. tainted => tainted'
    BY DEF HandlerMoves
  <2> HIDE DEF ServiceInv
  <2> QED
    BY <1>1, <1>2, <1>3, <1>4, <2>1, RequestMoves
<1>6. RequestsTyped'
  BY <1>5 DEF RequestsTyped, Inputs, Unselected
<1>7. gate # "held"
  BY <1>1 DEF Accounted, GateRight
<1>8. Elsewhere
  BY <1>7, Zenon DEF Elsewhere, HandlerMoves
<1>9. LifeTyped' /\ SwitchesTyped' /\ GateRight' /\ Fresh' /\ Phases' /\ Retains'
  BY <1>8, ElsewhereKeeps, AskedHasServer
<1>10. \A p \in Requests : RanWith(p)'
  <2> SUFFICES ASSUME NEW p \in Requests PROVE RanWith(p)'
    OBVIOUS
  <2>1. CASE p = r
    BY <2>1
  <2>2. CASE p # r
    <3>1. /\ RanWith(p) /\ handler'[p] = handler[p] /\ used'[p] = used[p]
          /\ accepted'[p] = accepted[p] /\ disk' = disk
      BY <1>5, <2>2 DEF HandlerMoves
    <3> QED
      BY <3>1 DEF RanWith
  <2> QED
    BY <2>1, <2>2
<1> QED
  BY <1>5, <1>6, <1>9, <1>10

LEMMA BeginOperationKeeps ==
  ASSUME ServiceInv, NEW r \in Requests, BeginOperation(r) PROVE ServiceInv'
<1> USE DEF ServiceInv, ServiceTyped
<1>1. /\ handler[r] = "asked" /\ Accounted(r) /\ Operation(r) \notin busy
      /\ UNCHANGED <<lifecycle, starting, failed, socketOpen, serverTask, listening, control, cleanup,
                     cleanupFailed, clean, disk, retained, invalid, request, used, accepted>>
  BY DEF BeginOperation, Accounted, lifeVars, serverVars, cleanupVars, inputVars
<1>2. gate # "held"
  BY <1>1 DEF Accounted, GateRight
<1>3. tainted' \in BOOLEAN /\ (tainted => tainted') /\ (gate' = gate \/ gate' = "closed")
  <2>1. CASE ~ invalid /\ Gate!Admit(Operation(r))
    BY <2>1, Zenon DEF BeginOperation, Gate!Admit, SwitchesTyped
  <2>2. CASE tainted' = (tainted \/ invalid)
    BY <2>2, Zenon DEF BeginOperation, Gate!Admit, SwitchesTyped
  <2> QED
    BY <2>1, <2>2 DEF BeginOperation
<1>4. HandlerMoves
  BY <1>1, <1>3, Zenon DEF HandlerMoves, SwitchesTyped
<1>5. InputsTyped'
  BY <1>1 DEF InputsTyped, Inputs, Unselected
<1>6. \E h \in {"ready", "ended"} :
        /\ handler' = [handler EXCEPT ![r] = h]
        /\ \/ h = "ready" /\ busy' = busy \cup {Operation(r)} /\ gate = "open" /\ gate' = "open"
           \/ h = "ended" /\ busy' = busy
  BY DEF BeginOperation, Gate!Admit
<1>7. PICK h \in {"ready", "ended"} :
        /\ handler' = [handler EXCEPT ![r] = h]
        /\ \/ h = "ready" /\ busy' = busy \cup {Operation(r)} /\ gate = "open" /\ gate' = "open"
           \/ h = "ended" /\ busy' = busy
  BY <1>6
<1>8. RanWith(r)'
  <2>1. RanWith(r) /\ handler'[r] = h /\ ~ accepted[r]
    BY <1>1, <1>7 DEF RanWith, RequestsTyped
  <2> QED
    BY <1>1, <1>7, <2>1 DEF RanWith
<1>9. /\ used' \in [Requests -> [Inputs -> 0..Unselected]] /\ accepted' \in [Requests -> BOOLEAN]
      /\ retained' = retained
      /\ \A p \in Requests \ {r} : used'[p] = used[p] /\ accepted'[p] = accepted[p]
  BY <1>1 DEF RequestsTyped
<1>10. (h \in {"ready", "checked", "launched"}) <=> (Operation(r) \in busy')
  BY <1>1, <1>7
<1> HIDE DEF ServiceInv
<1> QED
  BY <1>1, <1>2, <1>4, <1>5, <1>7, <1>8, <1>9, <1>10, HandlerKeeps

\* What a helper's end, or the end of an operation, does to the ledger.
LEMMA OperationEnds ==
  ASSUME ServiceInv, NEW r \in Requests, NEW doubt \in BOOLEAN, EndsOperation(r, doubt)
  PROVE  /\ busy' = busy \ {Operation(r)} /\ Operation(r) \notin busy'
         /\ \E h \in {"ended", "lost"} : /\ handler' = [handler EXCEPT ![r] = h]
                                         /\ h = "lost" => doubt
                                         /\ h = "ended" => ~ doubt
<1>1. busy' = busy \ {Operation(r)} /\ Operation(r) \notin busy'
  BY DEF EndsOperation
<1>2. CASE doubt
  BY <1>1, <1>2 DEF EndsOperation
<1>3. CASE ~ doubt
  BY <1>1, <1>3 DEF EndsOperation
<1> QED
  BY <1>2, <1>3

\* An operation that ends with a doubt or not, whose helper's result is not accepted.
LEMMA EndKeeps ==
  ASSUME ServiceInv, NEW r \in Requests, NEW doubt \in BOOLEAN, EndsOperation(r, doubt),
         handler[r] \in {"ready", "checked", "launched"}, HandlerMoves,
         doubt => tainted', UNCHANGED <<retained, used, accepted>>
  PROVE  ServiceInv'
<1>1. PICK h \in {"ended", "lost"} : /\ handler' = [handler EXCEPT ![r] = h]
                                     /\ h = "lost" => doubt
  BY OperationEnds
<1>2. busy' = busy \ {Operation(r)} /\ Operation(r) \notin busy'
  BY OperationEnds
<1>3. InputsTyped'
  BY DEF ServiceInv, ServiceTyped, InputsTyped, Inputs, Unselected, HandlerMoves
<1>4. RanWith(r)'
  <2>1. ~ accepted[r] /\ handler'[r] = h
    BY <1>1 DEF ServiceInv, ServiceTyped, RanWith, RequestsTyped
  <2> QED
    BY <1>1, <2>1 DEF RanWith
<1>5. /\ used' \in [Requests -> [Inputs -> 0..Unselected]] /\ accepted' \in [Requests -> BOOLEAN]
      /\ \A p \in Requests \ {r} : used'[p] = used[p] /\ accepted'[p] = accepted[p]
  BY DEF ServiceInv, ServiceTyped, RequestsTyped
<1> QED
  BY <1>1, <1>2, <1>3, <1>4, <1>5, HandlerKeeps

\* A binding that fails: the operation ends, and the service with it.
LEMMA BindingFailedKeeps ==
  ASSUME ServiceInv, NEW r \in Requests, handler[r] \in {"ready", "checked", "launched"},
         BindingFailed(r),
         UNCHANGED <<lifeVars, serverVars, cleanupVars, disk, request, retained, used, accepted>>
  PROVE  ServiceInv'
<1>1. UNCHANGED <<lifecycle, starting, failed, socketOpen, serverTask, listening, control, cleanup,
                  cleanupFailed, clean, disk, request, retained, used, accepted>>
  BY DEF lifeVars, serverVars, cleanupVars
<1>2. tainted' /\ gate' = "closed" /\ EndsOperation(r, FALSE)
  BY DEF BindingFailed
<1>3. tainted' \in BOOLEAN /\ invalid' \in BOOLEAN
  BY Zenon DEF BindingFailed, ServiceInv, ServiceTyped, SwitchesTyped
<1>4. HandlerMoves
  BY <1>1, <1>2, <1>3, Zenon DEF HandlerMoves
<1> QED
  BY <1>1, <1>2, <1>4, EndKeeps

LEMMA CheckInputsKeeps ==
  ASSUME ServiceInv, NEW r \in Requests, CheckInputs(r) PROVE ServiceInv'
<1>1. /\ handler[r] = "ready"
      /\ UNCHANGED <<lifecycle, starting, failed, socketOpen, serverTask, listening, control, cleanup,
                     cleanupFailed, clean, disk, request, used, accepted>>
  BY DEF CheckInputs, lifeVars, serverVars, cleanupVars
<1>2. ServiceTyped /\ Accounted(r) /\ RanWith(r)
  BY DEF ServiceInv
<1>3. CASE BindingFailed(r) /\ UNCHANGED retained
  BY <1>1, <1>3, BindingFailedKeeps DEF CheckInputs
<1>4. CASE EndsOperation(r, FALSE) /\ UNCHANGED <<tainted, gate, invalid, retained>>
  <2>1. HandlerMoves
    BY <1>1, <1>2, <1>4, Zenon DEF HandlerMoves, ServiceTyped, SwitchesTyped
  <2> QED
    BY <1>1, <1>4, <2>1, EndKeeps
<1>5. ASSUME handler' = [handler EXCEPT ![r] = "checked"],
             UNCHANGED <<ledgerVars, invalid>>,
             NEW needed \in BOOLEAN,
             retained' = IF needed /\ MaySelect
                           THEN [retained EXCEPT ![Bundle] = disk[Bundle]] ELSE retained
      PROVE  ServiceInv'
  <2>1. busy' = busy /\ tainted' = tainted /\ gate' = gate /\ invalid' = invalid
    BY <1>5 DEF ledgerVars
  <2>2. HandlerMoves
    BY <1>1, <1>2, <2>1, Zenon DEF HandlerMoves, ServiceTyped, SwitchesTyped
  <2>3. Bundle \in Inputs /\ Python # Bundle /\ disk[Bundle] \in 0..Unselected
    <3>1. Bundle \in Inputs /\ Python # Bundle
      BY InputsAssumption DEF Inputs
    <3> QED
      BY <1>2, <3>1, ReplaceAssumption DEF ServiceTyped, InputsTyped, Unselected
  <2>4. /\ retained' \in [Inputs -> 0..Unselected] /\ retained'[Python] = retained[Python]
        /\ retained[Bundle] # Unselected => retained'[Bundle] = retained[Bundle]
    <3>1. CASE needed /\ MaySelect
      <4>1. PICK kept : kept = [retained EXCEPT ![Bundle] = disk[Bundle]]
        OBVIOUS
      <4>2. kept \in [Inputs -> 0..Unselected] /\ kept[Python] = retained[Python]
        BY <1>2, <2>3, <4>1 DEF ServiceTyped, InputsTyped, Inputs
      <4>3. retained' = kept /\ retained[Bundle] = Unselected
        BY <1>5, <3>1, <4>1 DEF MaySelect
      <4> QED
        BY <4>2, <4>3
    <3>2. CASE ~ (needed /\ MaySelect)
      BY <1>2, <1>5, <3>2 DEF ServiceTyped, InputsTyped
    <3> QED
      BY <3>1, <3>2
  <2>5. InputsTyped'
    BY <1>1, <1>2, <2>4 DEF ServiceTyped, InputsTyped, Inputs, Unselected
  <2>6. Operation(r) \in busy'
    BY <1>1, <1>2, <2>1 DEF Accounted
  <2>7. RanWith(r)'
    <3>1. ~ accepted[r] /\ handler'[r] = "checked"
      BY <1>1, <1>2, <1>5 DEF ServiceTyped, RanWith, RequestsTyped
    <3> QED
      BY <1>1, <3>1 DEF RanWith
  <2>8. /\ used' \in [Requests -> [Inputs -> 0..Unselected]] /\ accepted' \in [Requests -> BOOLEAN]
        /\ \A p \in Requests \ {r} : used'[p] = used[p] /\ accepted'[p] = accepted[p]
    BY <1>1, <1>2 DEF ServiceTyped, RequestsTyped
  <2> QED
    BY <1>1, <1>5, <2>1, <2>2, <2>4, <2>5, <2>6, <2>7, <2>8, HandlerKeeps
<1> QED
  BY <1>3, <1>4, <1>5 DEF CheckInputs

LEMMA RunHelperKeeps ==
  ASSUME ServiceInv, NEW r \in Requests, RunHelper(r) PROVE ServiceInv'
<1>1. /\ handler[r] = "checked" /\ handler' = [handler EXCEPT ![r] = "launched"]
      /\ UNCHANGED <<lifecycle, starting, failed, socketOpen, serverTask, listening, control, cleanup,
                     cleanupFailed, clean, disk, request, accepted, retained, invalid>>
      /\ UNCHANGED <<busy, tainted, gate>>
  BY DEF RunHelper, lifeVars, serverVars, cleanupVars, inputVars, ledgerVars
<1>2. ServiceTyped /\ Accounted(r) /\ RanWith(r)
  BY DEF ServiceInv
<1>3. HandlerMoves
  BY <1>1, <1>2, Zenon DEF HandlerMoves, ServiceTyped, SwitchesTyped
<1>4. PICK ran : ran = [retained EXCEPT ![Python] = disk[Python]]
  OBVIOUS
<1>5. Python \in Inputs /\ Bundle \in Inputs /\ Python # Bundle
  BY InputsAssumption DEF Inputs
<1>6. disk[Python] \in 0..ReplaceBound /\ disk[Python] \in 0..Unselected /\ disk[Python] \in Int
  BY <1>2, <1>5, ReplaceAssumption DEF ServiceTyped, InputsTyped, Unselected
<1>7. /\ ran \in [Inputs -> 0..Unselected] /\ ran[Python] = disk[Python]
      /\ ran[Bundle] = retained[Bundle]
  BY <1>2, <1>4, <1>5, <1>6 DEF ServiceTyped, InputsTyped
<1>8. used' = [used EXCEPT ![r] = ran]
  BY <1>4 DEF RunHelper
<1>9. /\ used' \in [Requests -> [Inputs -> 0..Unselected]] /\ used'[r] = ran
      /\ \A p \in Requests \ {r} : used'[p] = used[p]
  BY <1>2, <1>7, <1>8 DEF ServiceTyped, RequestsTyped
<1>10. retained[Python] <= disk[Python]
  BY <1>1, AskedHasServer DEF ServiceInv, Retains
<1>11. RanWith(r)'
  <2>1. ~ accepted[r]
    BY <1>1, <1>2 DEF RanWith
  <2> QED
    BY <1>1, <1>6, <1>7, <1>9, <1>10, <2>1 DEF RanWith
<1>12. InputsTyped'
  BY <1>1, <1>2 DEF ServiceTyped, InputsTyped, Inputs, Unselected
<1>13. Operation(r) \in busy'
  BY <1>1, <1>2 DEF Accounted
<1>14. /\ accepted' \in [Requests -> BOOLEAN]
       /\ \A p \in Requests \ {r} : used'[p] = used[p] /\ accepted'[p] = accepted[p]
  BY <1>1, <1>2, <1>9 DEF ServiceTyped, RequestsTyped
<1> QED
  BY <1>1, <1>3, <1>9, <1>11, <1>12, <1>13, <1>14, HandlerKeeps

LEMMA HelperTimesOutKeeps ==
  ASSUME ServiceInv, NEW r \in Requests, HelperTimesOut(r) PROVE ServiceInv'
<1>1. /\ handler[r] = "launched" /\ EndsOperation(r, TRUE) /\ tainted' = TRUE
      /\ UNCHANGED <<lifecycle, starting, failed, socketOpen, serverTask, listening, control, cleanup,
                     cleanupFailed, clean, disk, request, used, accepted, retained, invalid, gate>>
  BY DEF HelperTimesOut, lifeVars, serverVars, cleanupVars, inputVars
<1>2. HandlerMoves
  BY <1>1, Zenon DEF HandlerMoves, ServiceInv, ServiceTyped, SwitchesTyped
<1> QED
  BY <1>1, <1>2, EndKeeps

\* The interpreter on disk is the retained one, the helper's launch was between: it ran it.
LEMMA HelperReturnsKeeps ==
  ASSUME ServiceInv, NEW r \in Requests, HelperReturns(r) PROVE ServiceInv'
<1>1. /\ handler[r] = "launched"
      /\ UNCHANGED <<lifecycle, starting, failed, socketOpen, serverTask, listening, control, cleanup,
                     cleanupFailed, clean, disk, retained, request, used>>
      /\ UNCHANGED <<lifeVars, serverVars, cleanupVars>>
  BY DEF HelperReturns, lifeVars, serverVars, cleanupVars
<1>2. ServiceTyped /\ Accounted(r) /\ RanWith(r)
  BY DEF ServiceInv
<1>3. CASE BindingFailed(r) /\ UNCHANGED accepted
  BY <1>1, <1>3, BindingFailedKeeps
<1>4. ASSUME StillBound, NEW good \in BOOLEAN, accepted' = [accepted EXCEPT ![r] = good],
             EndsOperation(r, FALSE), UNCHANGED <<invalid, tainted, gate>>
      PROVE  ServiceInv'
  <2>1. HandlerMoves
    BY <1>1, <1>2, <1>4, Zenon DEF HandlerMoves, ServiceTyped, SwitchesTyped
  <2>2. busy' = busy \ {Operation(r)} /\ Operation(r) \notin busy'
        /\ handler' = [handler EXCEPT ![r] = "ended"]
    BY <1>4 DEF EndsOperation
  <2>3. Python \in Inputs
    BY DEF Inputs
  <2>4. /\ disk[Python] \in 0..ReplaceBound /\ retained[Python] \in Int
        /\ used[r][Python] \in Int
    BY <1>2, <2>3, ReplaceAssumption DEF ServiceTyped, InputsTyped, RequestsTyped, Unselected
  <2>5. retained[Python] <= disk[Python]
    BY <1>1, AskedHasServer DEF ServiceInv, Retains
  <2>6. retained[Python] = disk[Python]
    BY <1>4, <2>4, <2>5, ReplaceAssumption DEF StillBound, ContextHolds, Matches, Unselected
  <2>7. used[r][Python] = retained[Python] /\ used[r][Bundle] \in {Unselected, retained[Bundle]}
    BY <1>1, <1>2, <2>4, <2>6 DEF RanWith
  <2>8. handler'[r] = "ended"
    BY <1>2, <2>2 DEF ServiceTyped, RequestsTyped
  <2>9. RanWith(r)'
    BY <1>1, <2>7, <2>8 DEF RanWith, Unselected
  <2>10. InputsTyped'
    BY <1>1, <1>2 DEF ServiceTyped, InputsTyped, Inputs, Unselected
  <2>11. /\ used' \in [Requests -> [Inputs -> 0..Unselected]]
         /\ accepted' \in [Requests -> BOOLEAN]
         /\ \A p \in Requests \ {r} : used'[p] = used[p] /\ accepted'[p] = accepted[p]
    BY <1>1, <1>2, <1>4 DEF ServiceTyped, RequestsTyped
  <2> QED
    BY <1>1, <2>1, <2>2, <2>9, <2>10, <2>11, HandlerKeeps
<1> QED
  BY <1>3, <1>4 DEF HelperReturns

LEMMA ServiceKeeps ==
  ASSUME ServiceInv, [ServiceNext]_serviceVars PROVE ServiceInv'
<1>1. CASE UNCHANGED serviceVars
  <2>1. /\ UNCHANGED <<busy, request, handler, used, accepted, disk, retained, invalid, tainted, gate>>
        /\ UNCHANGED <<lifecycle, starting, failed, socketOpen, serverTask, listening, control>>
        /\ UNCHANGED <<cleanup, cleanupFailed, clean>>
    BY <1>1 DEF serviceVars, lifeVars, ledgerVars, serverVars, cleanupVars, inputVars, requestVars,
                handlerVars
  <2>2. /\ InputsTyped' /\ RequestsTyped'
        /\ \A r \in Requests : Accounted(r)'
        /\ \A r \in Requests : RanWith(r)'
    BY <2>1, OwnerKeepsRequests
  <2>3. LifeTyped' /\ SwitchesTyped'
    <3>1. LifeTyped'
      BY <2>1 DEF LifeTyped, ServiceInv, ServiceTyped
    <3>2. SwitchesTyped'
      BY <2>1, Zenon DEF SwitchesTyped, ServiceInv, ServiceTyped
    <3> QED
      BY <3>1, <3>2
  <2>4. GateRight' /\ Phases' /\ Retains'
    BY <2>1, Zenon DEF GateRight, Phases, Retains, ServiceInv
  <2>5. Fresh'
    BY <2>1 DEF Fresh, Inputs, Unselected, ServiceInv
  <2> QED
    BY <2>2, <2>3, <2>4, <2>5 DEF ServiceInv, ServiceTyped
<1>2. CASE \/ Start \/ StartFailsEarly \/ StartRuns \/ StartFails \/ ServerListens \/ ListenerLost
           \/ \E error \in BOOLEAN : ServerEnds(error)
           \/ FoundBroken \/ FoundChanged \/ EnterMaintenance \/ LeaveMaintenance
  BY <1>2, StartKeeps, StartFailsEarlyKeeps, StartRunsKeeps, StartFailsKeeps, ServerListensKeeps,
     ListenerLostKeeps, ServerEndsKeeps, FoundBrokenKeeps, FoundChangedKeeps,
     EnterMaintenanceKeeps, LeaveMaintenanceKeeps
<1>3. CASE \E r \in Requests : RequestStep(r)
  BY <1>3, BeginRequestKeeps, FinishRequestKeeps, BeginOperationKeeps, CheckInputsKeeps,
     RunHelperKeeps, HelperTimesOutKeeps, HelperReturnsKeeps DEF RequestStep
<1>4. CASE \/ AClose \/ CloseCancelled \/ CleanupStep \/ ControllerCloses
           \/ \E i \in Inputs : ServiceReplace(i)
  BY <1>4, ACloseKeeps, CloseCancelledKeeps, CloseServerKeeps, CloseRequestsKeeps, CloseSocketKeeps,
     ControllerClosesKeeps, ServiceReplaceKeeps DEF CleanupStep
<1> QED
  BY <1>1, <1>2, <1>3, <1>4 DEF ServiceNext

\* A window is quiet, a clean end has released everything, a gate that had to be shut is, and a
\* result that was accepted came from what was retained.
LEMMA ServiceInvSound == ASSUME ServiceInv PROVE ServiceSound /\ ServiceTypeOK
<1> USE DEF ServiceInv, ServiceTyped
<1>1. HeldMeansQuiet
  <2> SUFFICES ASSUME gate = "held", NEW r \in Requests
               PROVE  request[r] \in {"idle", "done"} /\ handler[r] \in {"none", "ended"}
    BY DEF HeldMeansQuiet
  <2>1. busy = {} /\ ~ tainted /\ Accounted(r)
    BY DEF GateRight
  <2>2. request[r] \notin {"open", "cut"}
    BY <2>1 DEF Accounted
  <2>3. handler[r] \notin {"ready", "checked", "launched", "lost", "asked"}
    BY <2>1, <2>2 DEF Accounted
  <2> QED
    BY <2>2, <2>3 DEF RequestsTyped
<1>2. CleanMeansReleased
  <2> SUFFICES ASSUME clean PROVE CleanMeansReleased
    BY DEF CleanMeansReleased
  <2>1. /\ serverTask # "running" /\ ~ socketOpen /\ control \in {"none", "closed"}
        /\ busy \subseteq Requests \X {"operation"}
    BY DEF Phases
  <2>2. ASSUME NEW r \in Requests PROVE request[r] # "open" /\ (AtWork(r) => tainted)
    <3>1. Accounted(r) /\ Response(r) \notin busy
      BY <2>1 DEF Response
    <3> QED
      BY <3>1 DEF Accounted, AtWork
  <2> QED
    BY <2>1, <2>2 DEF CleanMeansReleased, LifeTyped
<1>3. NotRunningMeansShut
  BY DEF NotRunningMeansShut, GateRight
<1>4. AcceptedUsedRetained
  BY DEF AcceptedUsedRetained, RanWith
<1>5. ServiceTypeOK
  <2>1. {starting, failed, tainted, socketOpen, listening, cleanupFailed, clean, invalid} \subseteq BOOLEAN
    BY Zenon DEF SwitchesTyped
  <2> QED
    BY <2>1 DEF ServiceTypeOK, LifeTyped, InputsTyped, RequestsTyped
<1> QED
  BY <1>1, <1>2, <1>3, <1>4, <1>5 DEF ServiceSound

\* What a step of a service may not do.
LEMMA ServiceStepRight ==
  ASSUME ServiceInv, [ServiceNext]_serviceVars
  PROVE  /\ lifecycle \in {"closing", "closed", "failed"} => lifecycle' # "running"
         /\ \A i \in Inputs : retained[i] # Unselected => retained'[i] = retained[i]
         /\ invalid => invalid' /\ \A r \in Requests : accepted'[r] => accepted[r]
<1> DEFINE Once ==
      /\ lifecycle \in {"closing", "closed", "failed"} => lifecycle' # "running"
      /\ \A i \in Inputs : retained[i] # Unselected => retained'[i] = retained[i]
      /\ invalid => invalid' /\ \A r \in Requests : accepted'[r] => accepted[r]
<1> USE DEF lifeVars, ledgerVars, serverVars, cleanupVars, inputVars, requestVars, handlerVars
<1>1. CASE UNCHANGED serviceVars
  BY <1>1 DEF serviceVars
<1>2. CASE Start
  <2>1. \A i \in Inputs : retained[i] = Unselected
    BY <1>2 DEF Start, ServiceInv, Fresh
  <2> QED
    BY <1>2, <2>1 DEF Start
<1>3. CASE \/ StartFailsEarly \/ StartRuns \/ StartFails \/ ServerListens \/ ListenerLost
           \/ \E error \in BOOLEAN : ServerEnds(error)
  <2>1. UNCHANGED <<retained, accepted>>
    BY <1>3 DEF StartFailsEarly, StartRuns, StartFails, ServerListens, ListenerLost, ServerEnds
  <2>2. invalid => invalid'
    BY <1>3 DEF StartFailsEarly, StartRuns, StartFails, ServerListens, ListenerLost, ServerEnds
  <2>3. lifecycle \in {"closing", "closed", "failed"} => lifecycle' # "running"
    BY <1>3 DEF StartFailsEarly, StartRuns, StartFails, ServerListens, ListenerLost, ServerEnds,
                Shutting, Failed
  <2> QED
    BY <2>1, <2>2, <2>3
<1>4. CASE FoundBroken \/ FoundChanged \/ EnterMaintenance \/ LeaveMaintenance
  <2>1. UNCHANGED <<retained, accepted>>
    BY <1>4 DEF FoundBroken, FoundChanged, EnterMaintenance, LeaveMaintenance
  <2>2. invalid => invalid'
    BY <1>4, Zenon DEF FoundBroken, FoundChanged, EnterMaintenance, LeaveMaintenance
  <2>3. lifecycle = "running"
    BY <1>4, Zenon DEF FoundBroken, FoundChanged, EnterMaintenance, LeaveMaintenance
  <2> QED
    BY <2>1, <2>2, <2>3
<1>5. CASE AClose \/ CloseCancelled \/ CleanupStep \/ ControllerCloses
  <2>1. UNCHANGED <<retained, accepted, invalid>>
    BY <1>5 DEF AClose, CloseCancelled, CleanupStep, CloseServer, CloseRequests, CloseSocket,
                ControllerCloses
  <2>2. lifecycle \in {"closing", "closed", "failed"} => lifecycle' # "running"
    BY <1>5 DEF AClose, CloseCancelled, CleanupStep, CloseServer, CloseRequests, CloseSocket,
                ControllerCloses, Shutting
  <2> QED
    BY <2>1, <2>2
<1>6. CASE \E i \in Inputs : ServiceReplace(i)
  BY <1>6 DEF ServiceReplace
<1>7. ASSUME NEW r \in Requests, RequestStep(r) PROVE Once
  <2>1. lifecycle' = lifecycle
    BY <1>7 DEF RequestStep, BeginRequest, FinishRequest, BeginOperation, CheckInputs, RunHelper,
                HelperTimesOut, HelperReturns
  <2>2. invalid => invalid'
    BY <1>7 DEF RequestStep, BeginRequest, FinishRequest, BeginOperation, CheckInputs, RunHelper,
                HelperTimesOut, HelperReturns, BindingFailed
  <2>3. invalid => accepted' = accepted
    BY <1>7 DEF RequestStep, BeginRequest, FinishRequest, BeginOperation, CheckInputs, RunHelper,
                HelperTimesOut, HelperReturns, StillBound, ContextHolds
  <2>4. \A i \in Inputs : retained[i] # Unselected => retained'[i] = retained[i]
    <3>1. retained' = retained \/ (MaySelect /\ retained' = [retained EXCEPT ![Bundle] = disk[Bundle]])
      BY <1>7 DEF RequestStep, BeginRequest, FinishRequest, BeginOperation, CheckInputs, RunHelper,
                  HelperTimesOut, HelperReturns
    <3> QED
      BY <3>1 DEF MaySelect, ServiceInv, ServiceTyped, InputsTyped
  <2>5. lifecycle \in {"closing", "closed", "failed"} => lifecycle' # "running"
    BY <2>1
  <2> QED
    BY <2>2, <2>3, <2>4, <2>5
<1> QED
  BY <1>1, <1>2, <1>3, <1>4, <1>5, <1>6, <1>7 DEF ServiceNext

-----------------------------------------------------------------------------
(***************************************************************************)
(* Side by side.                                                           *)
(***************************************************************************)
ManagedInv == ServiceInv /\ StartupInv /\ ValidationInv

LEMMA ManagedStart == ManagedInit => ManagedInv
BY ServiceStart, StartupStart, ValidationStart DEF ManagedInit, ManagedInv

LEMMA ManagedSubject ==
  ASSUME [ManagedNext]_managedVars
  PROVE  [ServiceNext]_serviceVars /\ [StartupNext]_startupVars /\ [ValidationNext]_validationVars
<1>1. CASE UNCHANGED managedVars
  BY <1>1, Zenon DEF managedVars
<1>2. CASE ServiceNext /\ UNCHANGED <<subject, startupVars, validationVars>>
  BY <1>2, Zenon
<1>3. CASE StartupNext /\ UNCHANGED <<subject, serviceVars, validationVars>>
  BY <1>3, Zenon
<1>4. CASE ValidationStep /\ UNCHANGED <<subject, serviceVars, startupVars>>
  BY <1>4, Zenon DEF ValidationStep
<1> QED
  BY <1>1, <1>2, <1>3, <1>4 DEF ManagedNext

LEMMA ManagedKeeps == ASSUME ManagedInv, [ManagedNext]_managedVars PROVE ManagedInv'
BY ManagedSubject, ServiceKeeps, StartupKeeps, ValidationSteps DEF ManagedInv

LEMMA ManagedInvSound ==
  ASSUME ManagedInv PROVE ManagedTypes /\ ManagedSound /\ ValidationReported
BY ServiceInvSound, StartupInvSound, ValidationInvReports DEF ManagedInv, ManagedTypes, ManagedSound

\* What the service, its start and the command keep in their variables.
THEOREM ManagedTyped == ManagedSpec => []ManagedTypes
<1>1. ManagedInv /\ [ManagedNext]_managedVars => ManagedInv'
  BY ManagedKeeps
<1>2. ManagedInv => ManagedTypes
  BY ManagedInvSound
<1> QED
  BY <1>1, <1>2, ManagedStart, PTL DEF ManagedSpec

\* For any number of requests and of replacements, wherever they come: a maintenance window
\* has nothing in progress and nothing in doubt, a clean end has released everything, an
\* accepted result came from the interpreter and the bundle that were retained; and a start
\* that is reported ok is one from beginning to end (service_managed.py, service_children.py,
\* startup_managed.py, startup_protocol.py).
THEOREM ManagedIsSound == ManagedSpec => []ManagedSound
<1>1. ManagedInv /\ [ManagedNext]_managedVars => ManagedInv'
  BY ManagedKeeps
<1>2. ManagedInv => ManagedSound
  BY ManagedInvSound
<1> QED
  BY <1>1, <1>2, ManagedStart, PTL DEF ManagedSpec

\* The report of a validation command, run beside a service as the runs do.
THEOREM CommandIsReported == ManagedSpec => []ValidationReported
<1>1. ManagedInv /\ [ManagedNext]_managedVars => ManagedInv'
  BY ManagedKeeps
<1>2. ManagedInv => ValidationReported
  BY ManagedInvSound
<1> QED
  BY <1>1, <1>2, ManagedStart, PTL DEF ManagedSpec

\* No step of them serves twice or chooses twice, believes a catalogue whose child does not
\* serve, uses a challenge twice, signals a group that was reaped, or replaces a binding that
\* was not reviewed.
THEOREM NoStepGoesBack == ManagedSpec => ManagedSteps
<1>1. ManagedInv /\ [ManagedNext]_managedVars => ManagedInv'
  BY ManagedKeeps
<1>2. ManagedInv /\ [ManagedNext]_managedVars =>
        [ /\ (lifecycle \in {"closing", "closed", "failed"} => lifecycle' # "running")
          /\ (\A i \in Inputs : retained[i] # Unselected => retained'[i] = retained[i])
          /\ (invalid => invalid' /\ \A r \in Requests : accepted'[r] => accepted[r])
        ]_serviceVars
  BY ManagedSubject, ServiceStepRight DEF ManagedInv
<1>3. ManagedInv /\ [ManagedNext]_managedVars =>
        [ /\ (probeOk' /\ ~probeOk => diskRuntime' = selected)
          /\ (~verified /\ verified' => child = "serving")
          /\ (challengeUse = "consumed" => challengeUse' = "consumed")
        ]_startupVars
  BY ManagedSubject, StartupStepRight DEF ManagedInv
<1>4. ManagedInv /\ [ManagedNext]_managedVars =>
        [(RunAt("terminating") /\ run'.step = "killing") => leader # "reaped"]_validationVars
  BY ManagedSubject, ReapedNotSignalled DEF ManagedInv
<1>5. ManagedInv /\ [ManagedNext]_managedVars =>
        [binding' # binding =>
           \E b \in Binders : /\ plan[b].previous = binding
                              /\ plan[b].fingerprint = binding']_validationVars
  BY ManagedSubject, ReviewedReplaces DEF ManagedInv
<1> QED
  BY <1>1, <1>2, <1>3, <1>4, <1>5, ManagedStart, PTL
     DEF ManagedSpec, ManagedSteps, ServiceOneShot, StartupSteps, NoSignalAfterReaping,
         BindingReplacesReviewed

=============================================================================
