---------------------------- MODULE BridgeTurns ----------------------------
(***************************************************************************)
(* A turn of the coding worker, from the controller call that starts it to *)
(* the event that ends it: the calls of BridgeController made by several   *)
(* threads (controller.py), the reader thread of AppServerClient           *)
(* (codex_app_server.py), the worker at the other end of the pipe, the     *)
(* maintenance owner and shutdown.  The ledger is ControllerAdmission: a   *)
(* step here does at most one of its actions, and the ledger is never      *)
(* touched in any other way.                                               *)
(*                                                                         *)
(* Modelled for one connection whose creation succeeded.  The work a call  *)
(* does outside the turn (policy checks, prompts, decorating the thread)   *)
(* changes no state kept here.  The controller's _lock is held across two  *)
(* steps by the event handler alone, so holding it is a state of the       *)
(* reader; any other step under it is atomic and needs it free.            *)
(***************************************************************************)
EXTENDS ControllerAdmission, Sequences

CONSTANTS
  Callers,      \* threads that call the controller
  Reader,       \* the reader thread of the connection
  App,          \* the app key of the connection
  WorkspaceOf,  \* the workspace of each thread's session
  MaxCalls,     \* bound on the calls made
  MaxItems,     \* bound on the events that carry no turn state
  NamedTurns,   \* turn ids a caller of interrupt may name itself
  Losses,       \* whether the environment may lose the stream, and
  Shutdowns     \* whether it may close the controller, in the run at hand

CallSteps == {"idle", "session", "reserve", "revise", "send", "waiting",
              "replied", "failing", "record", "choose", "stop", "finish"}

\* uncertain is what the admission decorator will report when the call ends.
Calls ==
  [step : CallSteps, kind : {"start", "interrupt", None},
   thread : Threads \cup {None}, token : TurnTokens \cup {None},
   revision : Nat, rid : Nat, id : TurnIds \cup {None},
   active : BOOLEAN, uncertain : BOOLEAN]

IdleCall ==
  [step |-> "idle", kind |-> None, thread |-> None, token |-> None,
   revision |-> 0, rid |-> 0, id |-> None, active |-> FALSE, uncertain |-> FALSE]

Statuses == {"prepared", "inProgress", "unknown", "ended"}
Display  == [id : TurnIds \cup {None}, status : Statuses]

\* What the worker sends: answers to requests, and events.  "garbled" stands for
\* turn events without a usable identity or status.
Messages ==
  [kind : {"reply"}, rid : Nat, id : TurnIds \cup {None}]
    \cup [kind : {"started", "completed", "item", "garbled"},
          thread : Threads, id : TurnIds]

Requests == [kind : {"start", "interrupt"}, rid : Nat,
             thread : Threads, id : TurnIds \cup {None}]

\* A turn the worker has accepted.
WorkerTurns ==
  [thread : Threads, rid : Nat, running : BOOLEAN,
   replied : BOOLEAN, announced : BOOLEAN]

ASSUME BridgeAssumption ==
  /\ Reader \notin Callers
  /\ OperationTokens = Callers \cup {Reader}
  /\ App \in Apps
  /\ WorkspaceOf \in [Threads -> Workspaces]
  /\ TurnIds = 1 .. MaxCalls
  /\ MaxCalls \in Nat /\ MaxItems \in Nat
  /\ NamedTurns \subseteq TurnIds
  /\ Losses \in BOOLEAN /\ Shutdowns \in BOOLEAN
  /\ None \notin Nat \cup Threads \cup Display \cup WorkerTurns
  /\ {"transport_lost", "unexpected_event"} \subseteq ReportedReasons

VARIABLES
  calls,         \* number of calls begun
  call,          \* the call each caller is in
  display,       \* session last_turn_id and last_turn_status, by thread
  revisions,     \* _start_revisions
  nextRevision,  \* _next_start_revision
  reader,        \* the reader thread: its step and the event it handles
  lossNotified,  \* _transport_lost_notified
  appClosed,     \* AppServerClient._closed
  closing,       \* progress of BridgeController.close
  requests,      \* written to the worker, not yet read by it
  channel,       \* written by the worker, not yet read by the reader
  worker,        \* the turns the worker accepted, by turn id
  streamOpen,    \* the worker still holds its end of the pipe
  items          \* number of events sent that carry no turn state

controllerVars == <<calls, call, display, revisions, nextRevision>>
clientVars     == <<reader, lossNotified, appClosed, closing>>
workerVars     == <<requests, channel, worker, streamOpen, items>>
bridgeVars == <<admissionVars, controllerVars, clientVars, workerVars>>

BridgeTypeOK ==
  /\ TypeOK
  /\ calls \in Nat
  /\ call \in [Callers -> Calls]
  /\ display \in [Threads -> Display \cup {None}]
  /\ revisions \in [Threads -> Nat]
  /\ nextRevision \in Nat
  /\ reader \in [step : {"idle", "reserved", "accepted", "finish", "eof", "done"},
                 event : Messages \cup {None}, uncertain : BOOLEAN]
  /\ lossNotified \in BOOLEAN /\ appClosed \in BOOLEAN /\ streamOpen \in BOOLEAN
  /\ closing \in {"no", "ledger", "app", "done"}
  /\ requests \in Seq(Requests) /\ channel \in Seq(Messages)
  /\ worker \in [TurnIds -> WorkerTurns \cup {None}]
  /\ items \in Nat

BridgeInit ==
  /\ Init
  /\ calls = 0
  /\ call = [c \in Callers |-> IdleCall]
  /\ display = [th \in Threads |-> None]
  /\ revisions = [th \in Threads |-> 0]
  /\ nextRevision = 0
  /\ reader = [step |-> "idle", event |-> None, uncertain |-> FALSE]
  /\ lossNotified = FALSE /\ appClosed = FALSE /\ streamOpen = TRUE
  /\ closing = "no"
  /\ requests = <<>> /\ channel = <<>>
  /\ worker = [id \in TurnIds |-> None]
  /\ items = 0

-----------------------------------------------------------------------------
(* Helpers. *)

\* _lock is not held by the event handler.
LockFree == reader.step # "accepted"

Step(c, step) == call' = [call EXCEPT ![c].step = step]

\* A call that fails, with an error the decorator counts as uncertain or not.
Raise(c, step, uncertain) ==
  call' = [call EXCEPT ![c].step = step, ![c].uncertain = uncertain]

\* _notify_transport_lost: the observer runs once per connection.
NotifyLost ==
  /\ lossNotified' = TRUE
  /\ IF lossNotified THEN UNCHANGED admissionVars ELSE MarkUnknown("transport_lost")

\* _is_running.
Connected == streamOpen /\ ~appClosed

Ended(d) == d.status = "ended"

-----------------------------------------------------------------------------
(* A call, by one caller. *)

\* start_codex: the thread is new, thread/start having just made it.
BeginStart(c, th) ==
  /\ call[c].step = "idle" /\ calls < MaxCalls
  /\ display[th] = None /\ \A d \in Callers : call[d].thread # th
  /\ ReserveOperation(c, "operation")
  /\ calls' = calls + 1
  /\ call' = [call EXCEPT ![c] = [IdleCall EXCEPT !.step = "session",
                                    !.kind = "start", !.thread = th,
                                    !.rid = calls']]
  /\ UNCHANGED <<display, revisions, nextRevision, clientVars, workerVars>>

CreateSession(c) ==
  /\ call[c].step = "session" /\ LockFree
  /\ display' = [display EXCEPT ![call[c].thread] =
                   [id |-> None, status |-> "prepared"]]
  /\ Step(c, "reserve")
  /\ UNCHANGED <<admissionVars, calls, revisions, nextRevision, clientVars,
                 workerVars>>

\* continue_task and interrupt, of a thread that has a session.
BeginOther(c, th, kind) ==
  /\ call[c].step = "idle" /\ calls < MaxCalls
  /\ display[th] # None
  /\ ReserveOperation(c, "operation")
  /\ calls' = calls + 1
  /\ call' = [call EXCEPT ![c] =
                [IdleCall EXCEPT !.step = IF kind = "start" THEN "reserve"
                                                            ELSE "choose",
                                 !.kind = kind, !.thread = th,
                                 !.rid = calls']]
  /\ UNCHANGED <<display, revisions, nextRevision, clientVars, workerVars>>

\* _start_tracked_turn: the reservation, or the refusal of the ledger.
Reserve(c, r) ==
  LET th == call[c].thread
  IN /\ call[c].step = "reserve"
     /\ ReserveTurn(r, App, th, WorkspaceOf[th])
     /\ call' = [call EXCEPT ![c].step = "revise", ![c].token = r]
     /\ UNCHANGED <<calls, display, revisions, nextRevision, clientVars,
                    workerVars>>

ReservationRefused(c) ==
  LET th == call[c].thread
  IN /\ call[c].step = "reserve"
     /\ ~(/\ AdmissionOpen
          /\ ThreadFree(App, th) /\ WorkspaceFree(WorkspaceOf[th]) /\ TurnRoom)
     /\ Step(c, "finish")
     /\ UNCHANGED <<admissionVars, calls, display, revisions, nextRevision,
                    clientVars, workerVars>>

Revise(c) ==
  /\ call[c].step = "revise" /\ LockFree
  /\ nextRevision' = nextRevision + 1
  /\ revisions' = [revisions EXCEPT ![call[c].thread] = nextRevision']
  /\ call' = [call EXCEPT ![c].step = "send", ![c].revision = nextRevision']
  /\ UNCHANGED <<admissionVars, calls, display, clientVars, workerVars>>

\* interrupt: the turn the caller names, or the last one of the session, read
\* without the lock and perhaps over by the time it is marked.
ChooseTurn(c) ==
  /\ call[c].step = "choose"
  /\ \E id \in NamedTurns \cup {display[call[c].thread].id} :
       call' = [call EXCEPT ![c].step = "stop", ![c].id = id]
  /\ UNCHANGED <<admissionVars, calls, display, revisions, nextRevision,
                 clientVars, workerVars>>

\* The turn is marked before the request is sent.
MarkStopping(c) ==
  LET id == call[c].id
  IN /\ call[c].step = "stop"
     /\ IF id = None
          THEN InvalidEvent /\ Step(c, "finish")
          ELSE TurnEvent("stopping", App, call[c].thread, id) /\ Step(c, "send")
     /\ UNCHANGED <<calls, display, revisions, nextRevision, clientVars,
                    workerVars>>

\* _request: register the waiter and write; the call's number is the request id.
Send(c) ==
  /\ call[c].step = "send"
  /\ IF Connected
       THEN /\ requests' = Append(requests,
                 [kind |-> call[c].kind, rid |-> call[c].rid,
                  thread |-> call[c].thread, id |-> call[c].id])
            /\ call' = [call EXCEPT ![c].step = "waiting"]
            /\ UNCHANGED <<admissionVars, lossNotified>>
       ELSE /\ NotifyLost
            /\ Raise(c, "failing", TRUE)
            /\ UNCHANGED requests
  /\ UNCHANGED <<calls, display, revisions, nextRevision, reader, appClosed,
                 closing, channel, worker, streamOpen, items>>

FaultyTimeOut(c) == call[c].step = "waiting" /\ FALSE

\* queue.Empty: the waiter is dropped, and a late answer with it.
TimeOut(c) ==
  /\ call[c].step = "waiting"
  /\ NotifyLost
  /\ Raise(c, "failing", TRUE)
  /\ UNCHANGED <<calls, display, revisions, nextRevision, reader, appClosed,
                 closing, workerVars>>

\* bind_turn with the answer of turn/start.  An answer without a turn id is an
\* error; so is any error answer.
Bind(c) ==
  LET r  == call[c].token
      id == call[c].id
  IN /\ call[c].step = "replied" /\ call[c].kind = "start"
     /\ \/ /\ id # None
           /\ BindTurn(r, id)
           /\ call' = [call EXCEPT ![c].step = "record",
                                   ![c].active = BindShown(r)]
        \/ /\ id # None
           /\ RefuseBind(r, id)
           /\ Raise(c, "failing", FALSE)
        \/ /\ id = None
           /\ Raise(c, "failing", TRUE)
           /\ UNCHANGED admissionVars
     /\ UNCHANGED <<calls, display, revisions, nextRevision, clientVars,
                    workerVars>>

\* The except clause of _start_tracked_turn.  The refusal of bind_turn is an
\* AdmissionError, which the decorator does not count as uncertain.
Fail(c) ==
  /\ call[c].step = "failing" /\ call[c].kind = "start"
  /\ FailTurn(call[c].token)
  /\ Step(c, "finish")
  /\ UNCHANGED <<calls, display, revisions, nextRevision, clientVars, workerVars>>

FaultySupersededRecord(c) == revisions[call[c].thread] # call[c].revision

FaultySupersededByEnd(c) ==
  display[call[c].thread].id = call[c].id /\ Ended(display[call[c].thread])

\* _record_start_response: only the latest start of the thread may write the
\* display, and never over the end of the same turn.
SupersededRecord(c) ==
  LET d == display[call[c].thread]
  IN \/ revisions[call[c].thread] # call[c].revision
     \/ d.id = call[c].id /\ Ended(d)

Record(c) ==
  /\ call[c].step = "record" /\ LockFree
  /\ display' = IF SupersededRecord(c) THEN display
                ELSE [display EXCEPT ![call[c].thread] =
                        [id |-> call[c].id,
                         status |-> IF call[c].active THEN "inProgress"
                                                      ELSE "unknown"]]
  /\ Step(c, "finish")
  /\ UNCHANGED <<admissionVars, calls, revisions, nextRevision, clientVars,
                 workerVars>>

\* The answer to turn/interrupt, or its failure.
EndInterrupt(c) ==
  /\ call[c].kind = "interrupt"
  /\ call[c].step \in {"replied", "failing"}
  /\ Raise(c, "finish", call[c].step = "failing" \/ call[c].id = None)
  /\ UNCHANGED <<admissionVars, calls, display, revisions, nextRevision,
                 clientVars, workerVars>>

\* The finally clause of _admitted_operation.
Return(c) ==
  /\ call[c].step = "finish"
  /\ FinishOperation(c, call[c].uncertain)
  /\ call' = [call EXCEPT ![c] = IdleCall]
  /\ UNCHANGED <<calls, display, revisions, nextRevision, clientVars, workerVars>>

CallerStep(c) ==
  \/ CreateSession(c) \/ ReservationRefused(c) \/ Revise(c)
  \/ ChooseTurn(c) \/ MarkStopping(c)
  \/ \E r \in TurnTokens : Reserve(c, r)
  \/ Send(c) \/ TimeOut(c) \/ Bind(c) \/ Fail(c) \/ Record(c)
  \/ EndInterrupt(c) \/ Return(c)

-----------------------------------------------------------------------------
(* The reader thread: _handle_message, _on_event, _mark_closed. *)

NextMessage == Head(channel)

\* An answer goes to its waiter, or nowhere.
DeliverReply ==
  /\ reader.step = "idle" /\ channel # <<>> /\ NextMessage.kind = "reply"
  /\ call' = [c \in Callers |->
       IF call[c].step = "waiting" /\ call[c].rid = NextMessage.rid
         THEN [call[c] EXCEPT !.step = "replied", !.id = NextMessage.id]
         ELSE call[c]]
  /\ channel' = Tail(channel)
  /\ UNCHANGED <<admissionVars, calls, display, revisions, nextRevision,
                 clientVars, requests, worker, streamOpen, items>>

\* _on_event, the reservation: without one the event is dropped.
TakeEvent ==
  /\ reader.step = "idle" /\ channel # <<>> /\ NextMessage.kind # "reply"
  /\ \/ /\ ReserveOperation(Reader, "callback")
        /\ reader' = [step |-> "reserved", event |-> NextMessage,
                      uncertain |-> FALSE]
     \/ /\ ~(AdmissionOpen /\ OperationRoom)
        /\ MarkUnknown("unexpected_event")
        /\ UNCHANGED reader
  /\ channel' = Tail(channel)
  /\ UNCHANGED <<controllerVars, lossNotified, appClosed, closing, requests,
                 worker, streamOpen, items>>

\* _on_event under _lock: the ledger decides whether the display follows.
AcceptEvent ==
  LET e == reader.event
  IN /\ reader.step = "reserved"
     /\ \/ /\ e.kind \in {"started", "completed"}
           /\ TurnEvent(e.kind, App, e.thread, e.id)
           /\ reader' = [reader EXCEPT !.step =
                IF EventAccepted(e.kind, App, e.thread, e.id) THEN "accepted"
                                                              ELSE "finish"]
        \/ /\ e.kind = "item"
           /\ reader' = [reader EXCEPT !.step = "accepted"]
           /\ UNCHANGED admissionVars
        \/ /\ e.kind = "garbled"
           /\ MarkUnknown("unexpected_event")
           /\ reader' = [reader EXCEPT !.step = "finish", !.uncertain = TRUE]
     /\ UNCHANGED <<controllerVars, lossNotified, appClosed, closing, workerVars>>

FaultyRecorded(e) == [id |-> e.id, status |-> e.kind]

\* _record_event, still under _lock.
Recorded(e) ==
  LET d == display[e.thread]
  IN CASE e.kind = "started" /\ ~(d.id = e.id /\ Ended(d)) ->
            [id |-> e.id, status |-> "inProgress"]
       [] e.kind = "completed" -> [id |-> e.id, status |-> "ended"]
       [] OTHER -> d

RecordEvent ==
  /\ reader.step = "accepted"
  /\ LET e == reader.event
     IN display' = IF display[e.thread] = None THEN display
                   ELSE [display EXCEPT ![e.thread] = Recorded(e)]
  /\ reader' = [reader EXCEPT !.step = "finish"]
  /\ UNCHANGED <<admissionVars, calls, call, revisions, nextRevision,
                 lossNotified, appClosed, closing, workerVars>>

FinishEvent ==
  /\ reader.step = "finish"
  /\ FinishOperation(Reader, reader.uncertain)
  /\ reader' = [step |-> "idle", event |-> None, uncertain |-> FALSE]
  /\ UNCHANGED <<controllerVars, lossNotified, appClosed, closing, workerVars>>

\* End of the stream: the loss is observed before any waiter is woken.
StreamEnds ==
  /\ reader.step = "idle" /\ channel = <<>> /\ ~streamOpen
  /\ appClosed' = TRUE
  /\ NotifyLost
  /\ reader' = [reader EXCEPT !.step = "eof"]
  /\ UNCHANGED <<controllerVars, closing, workerVars>>

\* _fail_pending.
WakeWaiters ==
  call' = [c \in Callers |->
    IF call[c].step = "waiting"
      THEN [call[c] EXCEPT !.step = "failing", !.uncertain = TRUE]
      ELSE call[c]]

StreamEnded ==
  /\ reader.step = "eof"
  /\ WakeWaiters
  /\ reader' = [reader EXCEPT !.step = "done"]
  /\ UNCHANGED <<admissionVars, calls, display, revisions, nextRevision,
                 lossNotified, appClosed, closing, workerVars>>

ReaderStep ==
  \/ DeliverReply \/ TakeEvent \/ AcceptEvent \/ RecordEvent \/ FinishEvent
  \/ StreamEnds \/ StreamEnded

-----------------------------------------------------------------------------
(* BridgeController.close and AppServerClient.close. *)

CloseAdmission ==
  /\ Shutdowns /\ closing = "no"
  /\ Close
  /\ closing' = "ledger"
  /\ UNCHANGED <<controllerVars, reader, lossNotified, appClosed, workerVars>>

CloseApp ==
  /\ closing = "ledger"
  /\ appClosed' = TRUE
  /\ NotifyLost
  /\ closing' = IF appClosed THEN "done" ELSE "app"
  /\ UNCHANGED <<controllerVars, reader, workerVars>>

\* The worker of a lost stream stops with it, or goes on out of reach.
StreamLost ==
  /\ streamOpen' = FALSE
  /\ \/ UNCHANGED worker
     \/ worker' = [id \in TurnIds |-> IF worker[id] = None THEN None
                      ELSE [worker[id] EXCEPT !.running = FALSE]]

\* The pending requests fail, and the stream is closed or its process ended.
TerminateApp ==
  /\ closing = "app"
  /\ WakeWaiters
  /\ StreamLost
  /\ closing' = "done"
  /\ UNCHANGED <<admissionVars, calls, display, revisions, nextRevision, reader,
                 lossNotified, appClosed, requests, channel, items>>

-----------------------------------------------------------------------------
(* The maintenance owner (enter_maintenance, leave_maintenance). *)

EnterMaintenance ==
  /\ TryEnterMaintenance
  /\ UNCHANGED <<controllerVars, clientVars, workerVars>>

EndMaintenance ==
  /\ \E l \in 1 .. generation : LeaveMaintenance(l)
  /\ UNCHANGED <<controllerVars, clientVars, workerVars>>

-----------------------------------------------------------------------------
(* The worker: external, as the client uses it.  An answer and the events of  *)
(* its turn come in any order the protocol leaves open.                       *)

WorkerStep == streamOpen /\ UNCHANGED <<admissionVars, controllerVars, clientVars, streamOpen>>

Tell(m) == channel' = Append(channel, m)

NextTurnId == CHOOSE id \in TurnIds :
  worker[id] = None /\ \A other \in 1 .. (id - 1) : worker[other] # None

WorkerAccepts ==
  /\ WorkerStep
  /\ requests # <<>> /\ Head(requests).kind = "start"
  /\ requests' = Tail(requests)
  /\ worker' = [worker EXCEPT ![NextTurnId] =
       [thread |-> Head(requests).thread, rid |-> Head(requests).rid,
        running |-> TRUE, replied |-> FALSE, announced |-> FALSE]]
  /\ UNCHANGED <<channel, items>>

\* An error answer, or for an interrupt also its confirmation.
WorkerAnswers ==
  /\ WorkerStep
  /\ requests # <<>>
  /\ \E id \in {None, Head(requests).id} :
       Tell([kind |-> "reply", rid |-> Head(requests).rid, id |-> id])
  /\ requests' = Tail(requests)
  /\ UNCHANGED <<worker, items>>

WorkerReplies(id) ==
  /\ WorkerStep
  /\ worker[id] # None /\ ~worker[id].replied
  /\ Tell([kind |-> "reply", rid |-> worker[id].rid, id |-> id])
  /\ worker' = [worker EXCEPT ![id].replied = TRUE]
  /\ UNCHANGED <<requests, items>>

WorkerAnnounces(id) ==
  /\ WorkerStep
  /\ worker[id] # None /\ worker[id].running /\ ~worker[id].announced
  /\ Tell([kind |-> "started", thread |-> worker[id].thread, id |-> id])
  /\ worker' = [worker EXCEPT ![id].announced = TRUE]
  /\ UNCHANGED <<requests, items>>

WorkerCompletes(id) ==
  /\ WorkerStep
  /\ worker[id] # None /\ worker[id].running /\ worker[id].announced
  /\ Tell([kind |-> "completed", thread |-> worker[id].thread, id |-> id])
  /\ worker' = [worker EXCEPT ![id].running = FALSE]
  /\ UNCHANGED <<requests, items>>

WorkerTalks(id) ==
  /\ WorkerStep
  /\ worker[id] # None /\ items < MaxItems
  /\ \E kind \in {"item", "garbled"} :
       Tell([kind |-> kind, thread |-> worker[id].thread, id |-> id])
  /\ items' = items + 1
  /\ UNCHANGED <<requests, worker>>

WorkerDies ==
  /\ Losses /\ streamOpen
  /\ StreamLost
  /\ UNCHANGED <<admissionVars, controllerVars, clientVars, requests, channel,
                 items>>

WorkerActs ==
  \/ WorkerAccepts \/ WorkerAnswers \/ WorkerDies
  \/ \E id \in TurnIds : \/ WorkerReplies(id) \/ WorkerAnnounces(id)
                         \/ WorkerCompletes(id) \/ WorkerTalks(id)

-----------------------------------------------------------------------------
BridgeNext ==
  \/ ClaimController /\ UNCHANGED <<controllerVars, clientVars, workerVars>>
  \/ \E c \in Callers :
       \/ CallerStep(c)
       \/ \E th \in Threads : \/ BeginStart(c, th)
                              \/ \E kind \in {"start", "interrupt"} :
                                   BeginOther(c, th, kind)
  \/ ReaderStep
  \/ CloseAdmission \/ CloseApp \/ TerminateApp
  \/ EnterMaintenance \/ EndMaintenance
  \/ WorkerActs

BridgeFairness ==
  /\ \A c \in Callers : WF_bridgeVars(CallerStep(c))
  /\ WF_bridgeVars(ReaderStep)

BridgeSpec == BridgeInit /\ [][BridgeNext]_bridgeVars
FairBridgeSpec == BridgeSpec /\ BridgeFairness

-----------------------------------------------------------------------------
(* Properties. *)

Running(id) == worker[id] # None /\ worker[id].running

\* Every turn the worker runs, or has been asked to run, still has its
\* reservation: a time-out, a lost stream, a refused answer or a close never
\* frees the thread of a turn that may be running.
RunningTurnIsReserved ==
  /\ \A id \in TurnIds : Running(id) =>
       \E r \in ActiveTurns : /\ turns[r].thread = worker[id].thread
                              /\ turns[r].turnId \in {None, id}
  /\ \A i \in 1 .. Len(requests) : requests[i].kind = "start" =>
       \E r \in ActiveTurns : turns[r].thread = requests[i].thread

\* While maintenance is held the bridge is idle in fact and not only in the
\* ledger: the worker runs no turn and has none to start, no event of a turn is
\* unread, no caller is inside a call and no event is being handled.
IdleIsReal ==
  lease # NoLease =>
    /\ \A id \in TurnIds : ~Running(id)
    /\ \A i \in 1 .. Len(requests) : requests[i].kind # "start"
    /\ \A i \in 1 .. Len(channel) : channel[i].kind \notin {"started", "completed"}
    /\ \A c \in Callers : call[c].step = "idle"
    /\ reader.step \notin {"reserved", "accepted", "finish"}

\* At most one running turn writes a workspace, through whichever threads the
\* callers started them.
OneWriterPerWorkspace ==
  \A i, j \in TurnIds :
    /\ Running(i) /\ Running(j)
    /\ WorkspaceOf[worker[i].thread] = WorkspaceOf[worker[j].thread]
    /\ WorkspaceOf[worker[i].thread] # NoWorkspace
    => i = j

\* Neither a turn's thread nor its workspace is free while the worker may run it.
TurnsHeld == RunningTurnIsReserved /\ OneWriterPerWorkspace

\* What a session displays never goes back: not to an earlier turn, and not from
\* the end of a turn to that turn still in progress, whatever the order in which
\* the answer, the events and the next start reach the controller.
DisplayMovesForward ==
  \A th \in Threads :
    display[th] # None /\ display[th].id # None =>
      /\ display'[th].id # None /\ display'[th].id >= display[th].id
      /\ display'[th].id = display[th].id /\ Ended(display[th])
           => Ended(display'[th])
DisplayNeverRegresses == [][DisplayMovesForward]_bridgeVars

\* Every call returns: no answer, event, lock or shutdown keeps a caller.
CallsReturn == \A c \in Callers : call[c].step # "idle" ~> call[c].step = "idle"

\* A completion the worker has sent is recorded in the end, or the ledger knows
\* that something is missing: the turn is never left active by silence.
CompletionAccounted ==
  \A th \in Threads, id \in TurnIds :
    (\E i \in 1 .. Len(channel) : channel[i] = [kind |-> "completed",
                                                thread |-> th, id |-> id])
      ~> (<<App, th, id>> \in completed \/ unknown # {})

=============================================================================
