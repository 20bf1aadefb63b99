-------------------------- MODULE BridgeTurnsProofs --------------------------
(***************************************************************************)
(* The bridge in use, for any number of callers, threads and turns.        *)
(*                                                                         *)
(* First, it uses its ledger only as the ledger allows, so what is proved  *)
(* of the ledger alone in ControllerAdmissionProofs holds in the running   *)
(* bridge.  The step from one to the other needs the callers and the       *)
(* reader to be in possession of what they hand to the ledger (BridgeInv): *)
(* a caller that binds or fails a turn holds a reservation, and the reader *)
(* handles an event of a thread and not an answer.                         *)
(*                                                                         *)
(* Second, the ledger tells the truth about the worker at the other end of *)
(* the pipe: a turn that runs, or is asked for, keeps its reservation, and *)
(* an idle ledger means an idle bridge.  The invariant (Turning) follows a *)
(* start from the caller that reserved its thread to the event that ends   *)
(* it.  It needs that a thread has one start at a time (Starts), that      *)
(* answers reach the call that asked (Numbers, Answers), and that the end  *)
(* of a turn is the last event of it (Events, Ends).                       *)
(*                                                                         *)
(* Third, the display of a session goes only forward (Showing).            *)
(***************************************************************************)
EXTENDS BridgeTurns, ControllerAdmissionProofs

HoldingSteps == {"revise", "send", "waiting", "replied", "failing", "record"}

\* What a caller has in hand.
Equipped(k) ==
  /\ k.step # "idle" => k.kind \in {"start", "interrupt"} /\ k.thread \in Threads
  /\ k.step \in {"choose", "stop"} => k.kind = "interrupt"
  /\ k.kind = "start" /\ k.step \in HoldingSteps => k.token \in TurnTokens

CallsOK ==
  /\ calls \in Nat /\ nextRevision \in Nat
  /\ revisions \in [Threads -> Nat]
  /\ display \in [Threads -> Display \cup {None}]
  /\ call \in [Callers -> Calls]
  /\ \A c \in Callers : Equipped(call[c])
  /\ \A c \in Callers : call[c].step = "choose" => display[call[c].thread] # None

ReaderSteps == {"idle", "reserved", "accepted", "finish", "eof", "done"}

ReaderOK ==
  /\ reader \in [step : ReaderSteps, event : Messages \cup {None},
                 uncertain : BOOLEAN]
  /\ reader.step \in {"reserved", "accepted", "finish"} =>
       reader.event \in Messages /\ reader.event.kind # "reply"
  /\ lossNotified \in BOOLEAN /\ appClosed \in BOOLEAN
  /\ closing \in {"no", "ledger", "app", "done"}

WorkerOK ==
  /\ streamOpen \in BOOLEAN /\ items \in Nat
  /\ requests \in Seq(Requests) /\ channel \in Seq(Messages)
  /\ worker \in [TurnIds -> WorkerTurns \cup {None}]

BridgeInv == Ledger /\ CallsOK /\ ReaderOK /\ WorkerOK

-----------------------------------------------------------------------------
(* Every step of the bridge is a step of the ledger, or none of its business. *)

LEMMA EventOfThread ==
  ASSUME NEW m \in Messages, m.kind # "reply"
  PROVE  m.thread \in Threads /\ m.id \in TurnIds
  BY DEF Messages

LEMMA LossReport ==
  ASSUME NotifyLost
  PROVE  [Next]_admissionVars
  BY BridgeAssumption DEF NotifyLost, Next

LEMMA CallerUsesLedger ==
  ASSUME BridgeInv, NEW c \in Callers, CallerStep(c)
  PROVE  [Next]_admissionVars
<1> DEFINE k == call[c]
<1>1. c \in OperationTokens /\ App \in Apps
  BY BridgeAssumption
<1>2. k \in Calls /\ Equipped(k)
  BY DEF BridgeInv, CallsOK
<1>3. CASE CreateSession(c) \/ ReservationRefused(c) \/ Revise(c) \/ ChooseTurn(c)
           \/ Record(c) \/ EndInterrupt(c)
  BY <1>3 DEF CreateSession, ReservationRefused, Revise, ChooseTurn, Record,
              EndInterrupt
<1>4. ASSUME NEW r \in TurnTokens, Reserve(c, r)
      PROVE  [Next]_admissionVars
  <2>1. k.thread \in Threads
    BY <1>2, <1>4 DEF Reserve, Equipped
  <2>2. WorkspaceOf[k.thread] \in Workspaces
    BY <2>1, BridgeAssumption
  <2>3. ReserveTurn(r, App, k.thread, WorkspaceOf[k.thread])
    BY <1>4 DEF Reserve
  <2> QED
    BY <1>1, <2>1, <2>2, <2>3 DEF Next
<1>5. CASE MarkStopping(c)
  <2>1. k.thread \in Threads /\ k.id \in TurnIds \cup {None}
    BY <1>2, <1>5 DEF MarkStopping, Equipped, Calls
  <2>2. InvalidEvent \/ (k.id # None /\ TurnEvent("stopping", App, k.thread, k.id))
    BY <1>5 DEF MarkStopping
  <2>3. "stopping" \in EventKinds
    BY DEF EventKinds
  <2> QED
    BY <1>1, <2>1, <2>2, <2>3 DEF Next
<1>6. CASE Send(c) \/ TimeOut(c)
  BY <1>6, LossReport DEF Send, TimeOut
<1>7. CASE Bind(c)
  <2>1. k.token \in TurnTokens /\ k.id \in TurnIds \cup {None}
    BY <1>2, <1>7 DEF Bind, Equipped, HoldingSteps, Calls
  <2>2. \/ k.id # None /\ (BindTurn(k.token, k.id) \/ RefuseBind(k.token, k.id))
        \/ UNCHANGED admissionVars
    BY <1>7 DEF Bind
  <2> QED
    BY <2>1, <2>2 DEF Next
<1>8. CASE Fail(c)
  BY <1>2, <1>8 DEF Fail, Equipped, HoldingSteps, Next
<1>9. CASE Return(c)
  <2>1. k.uncertain \in BOOLEAN /\ FinishOperation(c, k.uncertain)
    BY <1>2, <1>9 DEF Return, Calls
  <2> QED
    BY <1>1, <2>1 DEF Next
<1> QED
  BY <1>3, <1>4, <1>5, <1>6, <1>7, <1>8, <1>9 DEF CallerStep

LEMMA ReaderUsesLedger ==
  ASSUME BridgeInv, ReaderStep
  PROVE  [Next]_admissionVars
<1>1. Reader \in OperationTokens /\ App \in Apps
  BY BridgeAssumption
<1>2. CASE DeliverReply \/ RecordEvent \/ StreamEnded
  BY <1>2 DEF DeliverReply, RecordEvent, StreamEnded
<1>3. CASE TakeEvent
  <2>1. ReserveOperation(Reader, "callback") \/ MarkUnknown("unexpected_event")
    BY <1>3 DEF TakeEvent
  <2>2. "callback" \in ActivityKinds /\ "unexpected_event" \in ReportedReasons
    BY BridgeAssumption DEF ActivityKinds
  <2> QED
    BY <1>1, <2>1, <2>2 DEF Next
<1>4. CASE AcceptEvent
  <2> DEFINE e == reader.event
  <2>1. e.thread \in Threads /\ e.id \in TurnIds
    BY <1>4, EventOfThread DEF AcceptEvent, BridgeInv, ReaderOK
  <2>2. \/ e.kind \in EventKinds /\ TurnEvent(e.kind, App, e.thread, e.id)
        \/ UNCHANGED admissionVars
        \/ MarkUnknown("unexpected_event")
    BY <1>4 DEF AcceptEvent, EventKinds
  <2>3. "unexpected_event" \in ReportedReasons
    BY BridgeAssumption
  <2> QED
    BY <1>1, <2>1, <2>2, <2>3 DEF Next
<1>5. CASE FinishEvent
  <2>1. reader.uncertain \in BOOLEAN
    BY DEF BridgeInv, ReaderOK
  <2>2. FinishOperation(Reader, reader.uncertain)
    BY <1>5 DEF FinishEvent
  <2> QED
    BY <1>1, <2>1, <2>2 DEF Next
<1>6. CASE StreamEnds
  BY <1>6, LossReport DEF StreamEnds
<1> QED
  BY <1>2, <1>3, <1>4, <1>5, <1>6 DEF ReaderStep

LEMMA BridgeUsesLedger ==
  ASSUME BridgeInv, [BridgeNext]_bridgeVars
  PROVE  [Next]_admissionVars
<1>1. CASE UNCHANGED bridgeVars
  BY <1>1 DEF bridgeVars
<1>2. CASE ClaimController
  BY <1>2 DEF Next
<1>3. ASSUME NEW c \in Callers, CallerStep(c)
      PROVE  [Next]_admissionVars
  BY <1>3, CallerUsesLedger
<1>4. ASSUME NEW c \in Callers, NEW th \in Threads,
             \/ BeginStart(c, th)
             \/ \E kind \in {"start", "interrupt"} : BeginOther(c, th, kind)
      PROVE  [Next]_admissionVars
  <2>1. ReserveOperation(c, "operation")
    BY <1>4 DEF BeginStart, BeginOther
  <2> QED
    BY <2>1, BridgeAssumption DEF Next, ActivityKinds
<1>5. CASE ReaderStep
  BY <1>5, ReaderUsesLedger
<1>6. CASE CloseAdmission \/ CloseApp \/ TerminateApp
  BY <1>6, LossReport DEF CloseAdmission, CloseApp, TerminateApp, Next
<1>7. CASE EnterMaintenance \/ EndMaintenance
  BY <1>7 DEF EnterMaintenance, EndMaintenance, Next
<1>8. CASE WorkerActs
  BY <1>8 DEF WorkerActs, WorkerStep, WorkerAccepts, WorkerAnswers, WorkerReplies,
              WorkerAnnounces, WorkerCompletes, WorkerTalks, WorkerDies
<1> QED
  BY <1>1, <1>2, <1>3, <1>4, <1>5, <1>6, <1>7, <1>8 DEF BridgeNext

-----------------------------------------------------------------------------
(* The callers and the reader keep what they need. *)

\* A call that moves to another record that is in order.
LEMMA CallMoves ==
  ASSUME CallsOK, NEW c \in Callers, NEW k \in Calls, Equipped(k),
         k.step # "choose",
         call' = [call EXCEPT ![c] = k],
         UNCHANGED <<calls, display, revisions, nextRevision>>
  PROVE  CallsOK'
<1>1. call' \in [Callers -> Calls]
  BY DEF CallsOK
<1>2. ASSUME NEW d \in Callers
      PROVE  /\ Equipped(call'[d])
             /\ call'[d].step = "choose" => display[call'[d].thread] # None
  <2>1. CASE d = c
    BY <2>1 DEF CallsOK
  <2>2. CASE d # c
    BY <2>2 DEF CallsOK
  <2> QED
    BY <2>1, <2>2
<1>3. \A d \in Callers : Equipped(call[d])'
  BY <1>2 DEF Equipped
<1> QED
  BY <1>1, <1>2, <1>3 DEF CallsOK

LEMMA CallerKeepsCalls ==
  ASSUME CallsOK, NEW c \in Callers, CallerStep(c)
  PROVE  CallsOK'
<1> DEFINE k == call[c]
<1>1. k \in Calls /\ Equipped(k)
  BY DEF CallsOK
<1>2. ASSUME NEW s \in {"waiting", "failing", "finish", "stop", "send", "replied"},
             NEW u \in BOOLEAN, NEW id \in TurnIds \cup {None},
             k.step # "idle",
             s = "stop" => k.kind = "interrupt",
             k.kind = "start" /\ s \in HoldingSteps => k.step \in HoldingSteps,
             call' = [call EXCEPT ![c] = [k EXCEPT !.step = s, !.uncertain = u,
                                                   !.id = id]],
             UNCHANGED <<calls, display, revisions, nextRevision>>
      PROVE  CallsOK'
  <2> DEFINE n == [k EXCEPT !.step = s, !.uncertain = u, !.id = id]
  <2>1. n \in Calls /\ n.step # "choose"
    BY <1>1, <1>2 DEF Calls, CallSteps
  <2>2. Equipped(n)
    BY <1>1, <1>2 DEF Equipped, Calls, HoldingSteps
  <2>3. call' = [call EXCEPT ![c] = n]
    BY <1>2
  <2> QED
    BY <1>2, <2>1, <2>2, <2>3, CallMoves
<1>3. /\ k.uncertain \in BOOLEAN /\ k.id \in TurnIds \cup {None}
      /\ call \in [Callers -> Calls]
  BY <1>1 DEF Calls, CallsOK
<1>a. ASSUME NEW s, call' = [call EXCEPT ![c].step = s]
      PROVE  call' = [call EXCEPT ![c] = [k EXCEPT !.step = s,
                        !.uncertain = k.uncertain, !.id = k.id]]
  <2>1. [k EXCEPT !.step = s]
          = [k EXCEPT !.step = s, !.uncertain = k.uncertain, !.id = k.id]
    BY <1>1 DEF Calls
  <2>2. call' = [call EXCEPT ![c] = [k EXCEPT !.step = s]]
    BY <1>a
  <2> QED
    BY <2>1, <2>2
<1>b. ASSUME NEW s, NEW u, call' = [call EXCEPT ![c].step = s, ![c].uncertain = u]
      PROVE  call' = [call EXCEPT ![c] = [k EXCEPT !.step = s,
                        !.uncertain = u, !.id = k.id]]
  <2>1. [k EXCEPT !.step = s, !.uncertain = u]
          = [k EXCEPT !.step = s, !.uncertain = u, !.id = k.id]
    BY <1>1 DEF Calls
  <2>2. call' = [call EXCEPT ![c] = [k EXCEPT !.step = s, !.uncertain = u]]
    BY <1>3, <1>b
  <2> QED
    BY <2>1, <2>2
<1>4. CASE ReservationRefused(c) \/ Fail(c) \/ MarkStopping(c)
  <2>1. PICK s \in {"finish", "send"} :
          /\ call' = [call EXCEPT ![c].step = s]
          /\ s = "send" => MarkStopping(c)
    BY <1>4 DEF ReservationRefused, Fail, MarkStopping, Step
  <2>2. call' = [call EXCEPT ![c] = [k EXCEPT !.step = s,
                   !.uncertain = k.uncertain, !.id = k.id]]
    BY <1>a, <2>1
  <2> QED
    BY <1>1, <1>2, <1>3, <1>4, <2>1, <2>2
    DEF ReservationRefused, Fail, MarkStopping, HoldingSteps, Equipped
<1>5. CASE Send(c)
  <2>1. CASE call' = [call EXCEPT ![c].step = "waiting"]
    <3>1. call' = [call EXCEPT ![c] = [k EXCEPT !.step = "waiting",
                     !.uncertain = k.uncertain, !.id = k.id]]
      BY <1>a, <2>1
    <3> QED
      BY <1>2, <1>3, <1>5, <3>1 DEF Send, HoldingSteps
  <2>2. CASE Raise(c, "failing", TRUE)
    <3>1. call' = [call EXCEPT ![c] = [k EXCEPT !.step = "failing",
                     !.uncertain = TRUE, !.id = k.id]]
      BY <1>b, <2>2 DEF Raise
    <3> QED
      BY <1>2, <1>3, <1>5, <3>1 DEF Send, HoldingSteps
  <2> QED
    BY <1>5, <2>1, <2>2 DEF Send
<1>6. CASE TimeOut(c)
  <2>1. call' = [call EXCEPT ![c] = [k EXCEPT !.step = "failing",
                   !.uncertain = TRUE, !.id = k.id]]
    BY <1>b, <1>6 DEF TimeOut, Raise
  <2> QED
    BY <1>2, <1>3, <1>6, <2>1 DEF TimeOut, HoldingSteps
<1>c. CASE EndInterrupt(c)
  <2>1. PICK u \in BOOLEAN : call' = [call EXCEPT ![c].step = "finish",
                                                 ![c].uncertain = u]
    BY <1>c DEF EndInterrupt, Raise
  <2>2. call' = [call EXCEPT ![c] = [k EXCEPT !.step = "finish", !.uncertain = u,
                                                !.id = k.id]]
    BY <1>b, <2>1
  <2> QED
    BY <1>2, <1>3, <1>c, <2>2 DEF EndInterrupt, HoldingSteps
<1>7. CASE ChooseTurn(c)
  <2>1. PICK id \in NamedTurns \cup {display[k.thread].id} :
          call' = [call EXCEPT ![c].step = "stop", ![c].id = id]
    BY <1>7 DEF ChooseTurn
  <2>2. k.thread \in Threads /\ display[k.thread] \in Display
    BY <1>1, <1>7 DEF ChooseTurn, Equipped, CallsOK
  <2>3. id \in TurnIds \cup {None}
    BY <2>2, BridgeAssumption DEF Display
  <2>4. call' = [call EXCEPT ![c] = [k EXCEPT !.step = "stop",
                   !.uncertain = k.uncertain, !.id = id]]
    <3>1. [k EXCEPT !.step = "stop", !.id = id]
            = [k EXCEPT !.step = "stop", !.uncertain = k.uncertain, !.id = id]
      BY <1>1 DEF Calls
    <3>2. call' = [call EXCEPT ![c] = [k EXCEPT !.step = "stop", !.id = id]]
      BY <1>3, <2>1
    <3> QED
      BY <3>1, <3>2
  <2> QED
    BY <1>1, <1>2, <1>3, <1>7, <2>3, <2>4 DEF ChooseTurn, Equipped, HoldingSteps
<1>8. ASSUME NEW r \in TurnTokens, Reserve(c, r)
      PROVE  CallsOK'
  <2> DEFINE n == [k EXCEPT !.step = "revise", !.token = r]
  <2>1. n \in Calls /\ Equipped(n) /\ n.step # "choose"
    BY <1>1, <1>8 DEF Reserve, Calls, CallSteps, Equipped, HoldingSteps
  <2>2. call' = [call EXCEPT ![c] = n]
    BY <1>8 DEF Reserve
  <2> QED
    BY <1>8, <2>1, <2>2, CallMoves DEF Reserve
<1>9. CASE Bind(c)
  <2>1. CASE call' = [call EXCEPT ![c].step = "record",
                                  ![c].active = BindShown(k.token)]
    <3> DEFINE n == [k EXCEPT !.step = "record", !.active = BindShown(k.token)]
    <3>1. BindShown(k.token) \in BOOLEAN
      BY DEF BindShown
    <3>2. n \in Calls /\ Equipped(n) /\ n.step # "choose"
      BY <1>1, <1>9, <3>1 DEF Bind, Calls, CallSteps, Equipped, HoldingSteps
    <3>3. call' = [call EXCEPT ![c] = n]
      BY <2>1
    <3> QED
      BY <1>9, <3>2, <3>3, CallMoves DEF Bind
  <2>2. CASE \E u \in BOOLEAN : call' = [call EXCEPT ![c].step = "failing",
                                                     ![c].uncertain = u]
    <3>1. PICK u \in BOOLEAN :
            call' = [call EXCEPT ![c].step = "failing", ![c].uncertain = u]
      BY <2>2
    <3>2. call' = [call EXCEPT ![c] = [k EXCEPT !.step = "failing",
                     !.uncertain = u, !.id = k.id]]
      BY <1>b, <3>1
    <3> QED
      BY <1>2, <1>3, <1>9, <3>2 DEF Bind, HoldingSteps
  <2> QED
    BY <1>9, <2>1, <2>2 DEF Bind, Raise
<1>10. CASE Return(c)
  <2>1. IdleCall \in Calls /\ Equipped(IdleCall) /\ IdleCall.step # "choose"
    BY DEF IdleCall, Calls, CallSteps, Equipped, HoldingSteps
  <2> QED
    BY <1>10, <2>1, CallMoves DEF Return
<1>11. CASE CreateSession(c) \/ Record(c)
  <2> DEFINE s == IF k.step = "session" THEN "reserve" ELSE "finish"
             n == [k EXCEPT !.step = s]
  <2>1. n \in Calls /\ Equipped(n) /\ n.step # "choose"
    BY <1>1, <1>11 DEF CreateSession, Record, Calls, CallSteps, Equipped, HoldingSteps
  <2>2. call' = [call EXCEPT ![c] = n]
    BY <1>11 DEF CreateSession, Record, Step
  <2>3. PICK d \in Display : display' \in {display, [display EXCEPT ![k.thread] = d]}
    <3>1. [id |-> None, status |-> "prepared"] \in Display
      BY DEF Display, Statuses
    <3>2. [id |-> k.id, status |-> IF k.active THEN "inProgress" ELSE "unknown"]
            \in Display
      BY <1>1 DEF Display, Statuses, Calls
    <3> QED
      BY <1>11, <3>1, <3>2 DEF CreateSession, Record
  <2>4. /\ display' \in [Threads -> Display \cup {None}]
        /\ \A th \in Threads : display[th] # None => display'[th] # None
    BY <2>3, BridgeAssumption DEF CallsOK
  <2>5. \A e \in Callers : /\ Equipped(call'[e])
                           /\ call'[e].step = "choose" => display'[call'[e].thread] # None
    BY <2>1, <2>2, <2>4 DEF CallsOK, Equipped
  <2>6. call' \in [Callers -> Calls]
    BY <2>1, <2>2 DEF CallsOK
  <2>7. \A e \in Callers : Equipped(call[e])'
    BY <2>5 DEF Equipped, HoldingSteps
  <2>8. UNCHANGED <<calls, revisions, nextRevision>>
    BY <1>11 DEF CreateSession, Record
  <2> QED
    BY <2>4, <2>5, <2>6, <2>7, <2>8 DEF CallsOK
<1>12. CASE Revise(c)
  <2> DEFINE n == [k EXCEPT !.step = "send", !.revision = nextRevision + 1]
  <2>1. k.step = "revise" /\ nextRevision \in Nat /\ nextRevision + 1 \in Nat
    BY <1>12 DEF Revise, CallsOK
  <2>2. n \in Calls /\ n.step = "send"
    BY <1>1, <2>1 DEF Calls, CallSteps
  <2>3. Equipped(n)
    BY <1>1, <2>1 DEF Calls, Equipped, HoldingSteps
  <2>4. call' = [call EXCEPT ![c] = n]
    BY <1>3, <1>12 DEF Revise
  <2>5. call' \in [Callers -> Calls]
    BY <1>3, <2>2, <2>4
  <2>6. \A e \in Callers : /\ Equipped(call'[e])
                           /\ call'[e].step = "choose" => display[call'[e].thread] # None
    BY <2>2, <2>3, <2>4 DEF CallsOK
  <2>7. \A e \in Callers : Equipped(call[e])'
    BY <2>6 DEF Equipped, HoldingSteps
  <2>8. /\ revisions' \in [Threads -> Nat] /\ nextRevision' \in Nat
        /\ UNCHANGED <<calls, display>>
    BY <1>12, <2>1 DEF Revise, CallsOK
  <2> QED
    BY <2>5, <2>6, <2>7, <2>8 DEF CallsOK
<1> QED
  BY <1>4, <1>5, <1>6, <1>c, <1>7, <1>8, <1>9, <1>10, <1>11, <1>12 DEF CallerStep

LEMMA BeginKeepsCalls ==
  ASSUME CallsOK, NEW c \in Callers, NEW th \in Threads,
         \/ BeginStart(c, th)
         \/ \E kind \in {"start", "interrupt"} : BeginOther(c, th, kind)
  PROVE  CallsOK'
<1>1. PICK kind \in {"start", "interrupt"}, s \in {"session", "reserve", "choose"} :
        /\ s = "choose" => kind = "interrupt" /\ display[th] # None
        /\ call' = [call EXCEPT ![c] = [IdleCall EXCEPT !.step = s, !.kind = kind,
                                         !.thread = th, !.rid = calls']]
  BY DEF BeginStart, BeginOther
<1> DEFINE n == [IdleCall EXCEPT !.step = s, !.kind = kind, !.thread = th,
                                 !.rid = calls']
<1>2. calls' = calls + 1 /\ UNCHANGED <<display, revisions, nextRevision>>
  BY DEF BeginStart, BeginOther
<1>3. calls' \in Nat
  BY <1>2 DEF CallsOK
<1>4. n \in Calls /\ n.step = s /\ n.thread = th
  BY <1>3 DEF IdleCall, Calls, CallSteps
<1>5. Equipped(n)
  BY <1>1 DEF IdleCall, Equipped, HoldingSteps
<1>6. call' = [call EXCEPT ![c] = n]
  BY <1>1
<1>7. call' \in [Callers -> Calls]
  BY <1>4, <1>6 DEF CallsOK
<1>8. \A e \in Callers : Equipped(call'[e])
  BY <1>5, <1>6 DEF CallsOK
<1>9. \A e \in Callers : call'[e].step = "choose" => display[call'[e].thread] # None
  BY <1>1, <1>4, <1>6 DEF CallsOK
<1>10. \A e \in Callers : Equipped(call[e])'
  BY <1>8 DEF Equipped, HoldingSteps
<1> QED
  BY <1>2, <1>3, <1>7, <1>9, <1>10 DEF CallsOK

\* An answer, or the end of the stream, moves the waiting calls on.
LEMMA WakingKeepsCalls ==
  ASSUME CallsOK,
         NEW s \in {"replied", "failing"}, NEW W \in SUBSET Callers,
         NEW id \in TurnIds \cup {None}, NEW u \in BOOLEAN,
         \A c \in W : call[c].step = "waiting",
         \/ call' = [c \in Callers |-> IF c \in W
                      THEN [call[c] EXCEPT !.step = s, !.id = id] ELSE call[c]]
         \/ call' = [c \in Callers |-> IF c \in W
                      THEN [call[c] EXCEPT !.step = s, !.uncertain = u] ELSE call[c]],
         UNCHANGED <<calls, display, revisions, nextRevision>>
  PROVE  CallsOK'
<1>1. ASSUME NEW e \in Callers
      PROVE  /\ call'[e] \in Calls
             /\ Equipped(call'[e])
             /\ call'[e].step = "choose" => display[call'[e].thread] # None
  <2>1. call[e] \in Calls /\ Equipped(call[e])
    BY DEF CallsOK
  <2>2. CASE e \in W
    <3>1. call[e].step = "waiting"
      BY <2>2
    <3>2. \/ call'[e] = [call[e] EXCEPT !.step = s, !.id = id]
          \/ call'[e] = [call[e] EXCEPT !.step = s, !.uncertain = u]
      BY <2>2
    <3>3. /\ call'[e] \in Calls /\ call'[e].step = s
          /\ call'[e].kind = call[e].kind /\ call'[e].thread = call[e].thread
          /\ call'[e].token = call[e].token
      <4>1. CASE call'[e] = [call[e] EXCEPT !.step = s, !.id = id]
        BY <2>1, <4>1 DEF Calls, CallSteps
      <4>2. CASE call'[e] = [call[e] EXCEPT !.step = s, !.uncertain = u]
        BY <2>1, <4>2 DEF Calls, CallSteps
      <4> QED
        BY <3>2, <4>1, <4>2
    <3> QED
      BY <2>1, <3>1, <3>3 DEF Equipped, HoldingSteps
  <2>3. CASE e \notin W
    BY <2>1, <2>3 DEF CallsOK
  <2> QED
    BY <2>2, <2>3
<1>2. call' \in [Callers -> Calls]
  BY <1>1
<1>3. \A e \in Callers : Equipped(call[e])'
  BY <1>1 DEF Equipped, HoldingSteps
<1> QED
  BY <1>1, <1>2, <1>3 DEF CallsOK

LEMMA WakeKeepsCalls ==
  ASSUME CallsOK, WakeWaiters, UNCHANGED <<calls, display, revisions, nextRevision>>
  PROVE  CallsOK'
<1> DEFINE W == {c \in Callers : call[c].step = "waiting"}
<1>1. call' = [c \in Callers |-> IF c \in W
                 THEN [call[c] EXCEPT !.step = "failing", !.uncertain = TRUE]
                 ELSE call[c]]
  BY DEF WakeWaiters
<1>2. W \in SUBSET Callers /\ \A c \in W : call[c].step = "waiting"
  OBVIOUS
<1> HIDE DEF W
<1> QED
  BY <1>1, <1>2, WakingKeepsCalls

LEMMA HeadTail ==
  ASSUME NEW S, NEW q \in Seq(S), q # <<>>
  PROVE  Head(q) \in S /\ Tail(q) \in Seq(S)
  OBVIOUS

LEMMA ReplyKeepsCalls ==
  ASSUME CallsOK, WorkerOK, DeliverReply
  PROVE  CallsOK'
<1> DEFINE W == {c \in Callers : call[c].step = "waiting"
                                  /\ call[c].rid = NextMessage.rid}
<1>1. channel # <<>> /\ NextMessage \in Messages /\ NextMessage.kind = "reply"
  BY HeadTail DEF WorkerOK, DeliverReply, NextMessage
<1>2. NextMessage.id \in TurnIds \cup {None}
  BY <1>1 DEF Messages
<1>3. call' = [c \in Callers |-> IF c \in W
                 THEN [call[c] EXCEPT !.step = "replied", !.id = NextMessage.id]
                 ELSE call[c]]
  BY DEF DeliverReply
<1>4. W \in SUBSET Callers /\ \A c \in W : call[c].step = "waiting"
  OBVIOUS
<1>5. UNCHANGED <<calls, display, revisions, nextRevision>>
  BY DEF DeliverReply
<1> HIDE DEF W
<1> QED
  BY <1>2, <1>3, <1>4, <1>5, WakingKeepsCalls

\* The display of a session is rewritten, never removed.
LEMMA RecordKeepsCalls ==
  ASSUME CallsOK, ReaderOK, RecordEvent
  PROVE  CallsOK'
<1> DEFINE e == reader.event
<1>1. e \in Messages /\ e.kind # "reply"
  BY DEF ReaderOK, RecordEvent
<1>2. e.thread \in Threads /\ e.id \in TurnIds
  BY <1>1, EventOfThread
<1>3. display[e.thread] # None => Recorded(e) \in Display
  <2>1. display[e.thread] \in Display \cup {None}
    BY <1>2 DEF CallsOK
  <2>2. /\ [id |-> e.id, status |-> "inProgress"] \in Display
        /\ [id |-> e.id, status |-> "ended"] \in Display
    BY <1>2 DEF Display, Statuses
  <2> QED
    BY <2>1, <2>2 DEF Recorded
<1>4. /\ display' \in [Threads -> Display \cup {None}]
      /\ \A th \in Threads : display[th] # None => display'[th] # None
  <2>1. None \notin Display
    BY BridgeAssumption
  <2> QED
    BY <1>2, <1>3, <2>1 DEF CallsOK, RecordEvent
<1>5. UNCHANGED <<calls, call, revisions, nextRevision>>
  BY DEF RecordEvent
<1>6. \A c \in Callers : call'[c].step = "choose" => display'[call'[c].thread] # None
  <2>1. \A c \in Callers : call[c].step = "choose" => call[c].thread \in Threads
    BY DEF CallsOK, Equipped
  <2> QED
    BY <1>4, <1>5, <2>1 DEF CallsOK
<1>7. \A c \in Callers : Equipped(call[c])'
  BY <1>5 DEF CallsOK, Equipped, HoldingSteps
<1> QED
  BY <1>4, <1>5, <1>6, <1>7 DEF CallsOK

LEMMA CallsPreserved ==
  ASSUME BridgeInv, [BridgeNext]_bridgeVars
  PROVE  CallsOK'
<1> USE DEF BridgeInv
<1>1. CASE UNCHANGED controllerVars
  BY <1>1 DEF controllerVars, CallsOK, Equipped, HoldingSteps
<1>2. ASSUME NEW c \in Callers, CallerStep(c)
      PROVE  CallsOK'
  BY <1>2, CallerKeepsCalls
<1>3. ASSUME NEW c \in Callers, NEW th \in Threads,
             \/ BeginStart(c, th)
             \/ \E kind \in {"start", "interrupt"} : BeginOther(c, th, kind)
      PROVE  CallsOK'
  BY <1>3, BeginKeepsCalls
<1>4. CASE ReaderStep
  <2>1. CASE DeliverReply
    BY <2>1, ReplyKeepsCalls
  <2>2. CASE RecordEvent
    BY <2>2, RecordKeepsCalls
  <2>3. CASE StreamEnded
    BY <2>3, WakeKeepsCalls DEF StreamEnded
  <2>4. CASE TakeEvent \/ AcceptEvent \/ FinishEvent \/ StreamEnds
    BY <1>1, <2>4 DEF TakeEvent, AcceptEvent, FinishEvent, StreamEnds
  <2> QED
    BY <1>4, <2>1, <2>2, <2>3, <2>4 DEF ReaderStep
<1>5. CASE TerminateApp
  BY <1>5, WakeKeepsCalls DEF TerminateApp
<1>6. CASE \/ CloseAdmission \/ CloseApp \/ EnterMaintenance \/ EndMaintenance
           \/ WorkerActs
  BY <1>1, <1>6 DEF CloseAdmission, CloseApp, EnterMaintenance, EndMaintenance,
     WorkerActs, WorkerStep, WorkerAccepts, WorkerAnswers, WorkerReplies,
     WorkerAnnounces, WorkerCompletes, WorkerTalks, WorkerDies
<1> QED
  BY <1>1, <1>2, <1>3, <1>4, <1>5, <1>6 DEF BridgeNext, bridgeVars

-----------------------------------------------------------------------------
(* The reader and the streams. *)

\* Steps of the reader that take it on with the same event.
LEMMA ReaderMoves ==
  ASSUME ReaderOK, reader.step \in {"reserved", "accepted"},
         NEW s \in {"accepted", "finish"}, NEW u \in BOOLEAN,
         reader' \in {[reader EXCEPT !.step = s],
                      [reader EXCEPT !.step = s, !.uncertain = u]},
         UNCHANGED <<lossNotified, appClosed, closing>>
  PROVE  ReaderOK'
<1>1. /\ reader' \in [step : ReaderSteps, event : Messages \cup {None},
                       uncertain : BOOLEAN]
      /\ reader'.event = reader.event
  BY DEF ReaderOK, ReaderSteps
<1> QED
  BY <1>1 DEF ReaderOK

LEMMA ReaderPreserved ==
  ASSUME BridgeInv, [BridgeNext]_bridgeVars
  PROVE  ReaderOK'
<1> USE DEF BridgeInv
<1>1. CASE UNCHANGED clientVars
  BY <1>1 DEF clientVars, ReaderOK
<1>2. ASSUME NEW c \in Callers, CallerStep(c)
      PROVE  ReaderOK'
  <2>1. CASE UNCHANGED clientVars
    BY <1>1, <2>1
  <2>2. CASE Send(c) \/ TimeOut(c)
    BY <2>2 DEF Send, TimeOut, NotifyLost, ReaderOK
  <2> QED
    BY <1>2, <2>1, <2>2 DEF CallerStep, CreateSession, ReservationRefused, Revise,
       ChooseTurn, MarkStopping, Reserve, Bind, Fail, Record, EndInterrupt, Return
<1>3. ASSUME NEW c \in Callers, NEW th \in Threads,
             \/ BeginStart(c, th)
             \/ \E kind \in {"start", "interrupt"} : BeginOther(c, th, kind)
      PROVE  ReaderOK'
  BY <1>1, <1>3 DEF BeginStart, BeginOther
<1>4. CASE ReaderStep
  <2>1. CASE DeliverReply
    BY <1>1, <2>1 DEF DeliverReply
  <2>2. CASE TakeEvent
    <3>1. NextMessage \in Messages /\ NextMessage.kind # "reply"
      BY <2>2, HeadTail DEF TakeEvent, WorkerOK, NextMessage
    <3>2. UNCHANGED <<lossNotified, appClosed, closing>>
      BY <2>2 DEF TakeEvent
    <3>3. CASE UNCHANGED reader
      BY <3>2, <3>3 DEF ReaderOK
    <3>4. CASE reader' = [step |-> "reserved", event |-> NextMessage,
                          uncertain |-> FALSE]
      <4>1. /\ reader' \in [step : ReaderSteps, event : Messages \cup {None},
                             uncertain : BOOLEAN]
            /\ reader'.event = NextMessage
        BY <3>1, <3>4 DEF ReaderSteps
      <4> QED
        BY <3>1, <3>2, <4>1 DEF ReaderOK
    <3> QED
      BY <2>2, <3>3, <3>4 DEF TakeEvent
  <2>3. CASE AcceptEvent
    <3>1. /\ reader.step = "reserved"
          /\ UNCHANGED <<lossNotified, appClosed, closing>>
          /\ \E s \in {"accepted", "finish"} :
               reader' \in {[reader EXCEPT !.step = s],
                            [reader EXCEPT !.step = s, !.uncertain = TRUE]}
      BY <2>3 DEF AcceptEvent
    <3> QED
      BY <3>1, ReaderMoves
  <2>4. CASE RecordEvent
    BY <2>4, ReaderMoves DEF RecordEvent
  <2>5. CASE FinishEvent
    BY <2>5 DEF FinishEvent, ReaderOK, ReaderSteps
  <2>6. CASE StreamEnds \/ StreamEnded
    BY <2>6 DEF StreamEnds, StreamEnded, NotifyLost, ReaderOK, ReaderSteps
  <2> QED
    BY <1>4, <2>1, <2>2, <2>3, <2>4, <2>5, <2>6 DEF ReaderStep
<1>5. CASE CloseAdmission \/ CloseApp \/ TerminateApp
  BY <1>5 DEF CloseAdmission, CloseApp, TerminateApp, NotifyLost, ReaderOK
<1>6. CASE EnterMaintenance \/ EndMaintenance \/ WorkerActs
  BY <1>1, <1>6 DEF EnterMaintenance, EndMaintenance, WorkerActs, WorkerStep,
     WorkerAccepts, WorkerAnswers, WorkerReplies, WorkerAnnounces, WorkerCompletes,
     WorkerTalks, WorkerDies
<1> QED
  BY <1>1, <1>2, <1>3, <1>4, <1>5, <1>6 DEF BridgeNext, bridgeVars

LEMMA Sending ==
  ASSUME NEW S, NEW q \in Seq(S), NEW m \in S
  PROVE  Append(q, m) \in Seq(S)
  OBVIOUS

LEMMA LossKeepsWorker ==
  ASSUME WorkerOK, StreamLost, UNCHANGED <<requests, channel, items>>
  PROVE  WorkerOK'
<1>1. worker' \in [TurnIds -> WorkerTurns \cup {None}]
  <2>1. ASSUME NEW id \in TurnIds, worker[id] # None
        PROVE  [worker[id] EXCEPT !.running = FALSE] \in WorkerTurns
    BY <2>1 DEF WorkerOK, WorkerTurns
  <2> QED
    BY <2>1 DEF StreamLost, WorkerOK
<1> QED
  BY <1>1 DEF WorkerOK, StreamLost

LEMMA WorkerKeepsStreams ==
  ASSUME BridgeInv, WorkerActs
  PROVE  WorkerOK'
<1> USE DEF BridgeInv
<1>1. CASE WorkerDies
  BY <1>1, LossKeepsWorker DEF WorkerDies
<1>2. CASE WorkerAccepts
  <2> DEFINE t == [thread |-> Head(requests).thread, rid |-> Head(requests).rid,
                   running |-> TRUE, replied |-> FALSE, announced |-> FALSE]
  <2>1. Head(requests) \in Requests /\ Tail(requests) \in Seq(Requests)
    BY <1>2, HeadTail DEF WorkerAccepts, WorkerOK
  <2>2. t \in WorkerTurns
    BY <2>1 DEF Requests, WorkerTurns
  <2>3. worker' \in [TurnIds -> WorkerTurns \cup {None}]
    BY <1>2, <2>2 DEF WorkerAccepts, WorkerOK
  <2> QED
    BY <1>2, <2>1, <2>3 DEF WorkerAccepts, WorkerStep, WorkerOK
<1>3. CASE WorkerAnswers
  <2>1. Head(requests) \in Requests /\ Tail(requests) \in Seq(Requests)
    BY <1>3, HeadTail DEF WorkerAnswers, WorkerOK
  <2>2. PICK id \in {None, Head(requests).id} :
          Tell([kind |-> "reply", rid |-> Head(requests).rid, id |-> id])
    BY <1>3 DEF WorkerAnswers
  <2>3. [kind |-> "reply", rid |-> Head(requests).rid, id |-> id] \in Messages
    BY <2>1 DEF Requests, Messages
  <2>4. channel' \in Seq(Messages)
    BY <2>2, <2>3, Sending DEF Tell, WorkerOK
  <2> QED
    BY <1>3, <2>1, <2>4 DEF WorkerAnswers, WorkerStep, WorkerOK
<1>4. ASSUME NEW id \in TurnIds,
             WorkerReplies(id) \/ WorkerAnnounces(id) \/ WorkerCompletes(id)
               \/ WorkerTalks(id)
      PROVE  WorkerOK'
  <2>1. worker[id] \in WorkerTurns
    BY <1>4 DEF WorkerReplies, WorkerAnnounces, WorkerCompletes, WorkerTalks, WorkerOK
  <2>2. /\ [kind |-> "reply", rid |-> worker[id].rid, id |-> id] \in Messages
        /\ \A kind \in {"started", "completed", "item", "garbled"} :
             [kind |-> kind, thread |-> worker[id].thread, id |-> id] \in Messages
    BY <2>1 DEF WorkerTurns, Messages
  <2>3. \E m \in Messages : Tell(m)
    BY <1>4, <2>2 DEF WorkerReplies, WorkerAnnounces, WorkerCompletes, WorkerTalks
  <2>4. channel' \in Seq(Messages)
    BY <2>3, Sending DEF Tell, WorkerOK
  <2>5. worker' \in [TurnIds -> WorkerTurns \cup {None}]
    <3>1. /\ [worker[id] EXCEPT !.replied = TRUE] \in WorkerTurns
          /\ [worker[id] EXCEPT !.announced = TRUE] \in WorkerTurns
          /\ [worker[id] EXCEPT !.running = FALSE] \in WorkerTurns
      BY <2>1 DEF WorkerTurns
    <3>2. worker' = worker \/ \E t \in WorkerTurns : worker' = [worker EXCEPT ![id] = t]
      BY <1>4, <3>1 DEF WorkerReplies, WorkerAnnounces, WorkerCompletes, WorkerTalks
    <3> QED
      BY <3>2 DEF WorkerOK
  <2> QED
    BY <1>4, <2>4, <2>5 DEF WorkerReplies, WorkerAnnounces, WorkerCompletes,
                            WorkerTalks, WorkerStep, WorkerOK
<1> QED
  BY <1>1, <1>2, <1>3, <1>4 DEF WorkerActs

LEMMA WorkerPreserved ==
  ASSUME BridgeInv, [BridgeNext]_bridgeVars
  PROVE  WorkerOK'
<1> USE DEF BridgeInv
<1>1. CASE UNCHANGED workerVars
  BY <1>1 DEF workerVars, WorkerOK
<1>2. ASSUME NEW c \in Callers, CallerStep(c)
      PROVE  WorkerOK'
  <2>1. CASE UNCHANGED workerVars
    BY <1>1, <2>1
  <2>2. CASE Send(c)
    <3>1. CASE UNCHANGED requests
      BY <2>2, <3>1 DEF Send, WorkerOK
    <3>2. CASE requests' = Append(requests,
                 [kind |-> call[c].kind, rid |-> call[c].rid,
                  thread |-> call[c].thread, id |-> call[c].id])
      <4>1. call[c] \in Calls /\ Equipped(call[c]) /\ call[c].step = "send"
        BY <2>2 DEF Send, CallsOK
      <4>2. [kind |-> call[c].kind, rid |-> call[c].rid,
             thread |-> call[c].thread, id |-> call[c].id] \in Requests
        BY <4>1 DEF Calls, Equipped, Requests
      <4>3. requests' \in Seq(Requests)
        BY <3>2, <4>2, Sending DEF WorkerOK
      <4> QED
        BY <2>2, <4>3 DEF Send, WorkerOK
    <3> QED
      BY <2>2, <3>1, <3>2 DEF Send
  <2> QED
    BY <1>2, <2>1, <2>2 DEF CallerStep, CreateSession, ReservationRefused, Revise,
       ChooseTurn, MarkStopping, Reserve, TimeOut, Bind, Fail, Record, EndInterrupt,
       Return
<1>3. ASSUME NEW c \in Callers, NEW th \in Threads,
             \/ BeginStart(c, th)
             \/ \E kind \in {"start", "interrupt"} : BeginOther(c, th, kind)
      PROVE  WorkerOK'
  BY <1>1, <1>3 DEF BeginStart, BeginOther
<1>4. CASE ReaderStep
  <2>1. CASE UNCHANGED workerVars
    BY <1>1, <2>1
  <2>2. CASE DeliverReply \/ TakeEvent
    <3>1. /\ channel # <<>> /\ channel' = Tail(channel)
          /\ UNCHANGED <<requests, worker, streamOpen, items>>
      BY <2>2 DEF DeliverReply, TakeEvent
    <3> QED
      BY <3>1, HeadTail DEF WorkerOK
  <2> QED
    BY <1>4, <2>1, <2>2 DEF ReaderStep, AcceptEvent, RecordEvent, FinishEvent,
       StreamEnds, StreamEnded
<1>5. CASE TerminateApp
  BY <1>5, LossKeepsWorker DEF TerminateApp
<1>6. CASE CloseAdmission \/ CloseApp \/ EnterMaintenance \/ EndMaintenance
  BY <1>1, <1>6 DEF CloseAdmission, CloseApp, EnterMaintenance, EndMaintenance
<1>7. CASE WorkerActs
  BY <1>7, WorkerKeepsStreams
<1> QED
  BY <1>1, <1>2, <1>3, <1>4, <1>5, <1>6, <1>7 DEF BridgeNext, bridgeVars

-----------------------------------------------------------------------------
(* The theorems. *)

LEMMA BridgeInitially == BridgeInit => BridgeInv
<1> SUFFICES ASSUME BridgeInit PROVE BridgeInv
  OBVIOUS
<1>1. Ledger
  BY LedgerInitially DEF BridgeInit
<1>2. CallsOK
  <2>1. IdleCall \in Calls /\ Equipped(IdleCall) /\ IdleCall.step = "idle"
    BY DEF IdleCall, Calls, CallSteps, Equipped, HoldingSteps
  <2> QED
    BY <2>1 DEF BridgeInit, CallsOK
<1>3. ReaderOK
  BY DEF BridgeInit, ReaderOK, ReaderSteps
<1>4. WorkerOK
  BY DEF BridgeInit, WorkerOK
<1> QED
  BY <1>1, <1>2, <1>3, <1>4 DEF BridgeInv

LEMMA BridgeAlways == BridgeSpec => []BridgeInv
<1>1. BridgeInv /\ [BridgeNext]_bridgeVars => BridgeInv'
  <2> SUFFICES ASSUME BridgeInv, [BridgeNext]_bridgeVars PROVE BridgeInv'
    OBVIOUS
  <2>1. Ledger'
    BY BridgeUsesLedger, LedgerPreserved DEF BridgeInv
  <2>2. CallsOK' /\ ReaderOK' /\ WorkerOK'
    BY CallsPreserved, ReaderPreserved, WorkerPreserved
  <2> QED
    BY <2>1, <2>2 DEF BridgeInv
<1> QED
  BY BridgeInitially, <1>1, PTL DEF BridgeSpec

\* Type correctness of the bridge: calls, reader, streams and ledger.
THEOREM BridgeTypeCorrect == BridgeSpec => []BridgeTypeOK
<1>1. BridgeInv => BridgeTypeOK
  BY DEF BridgeInv, Ledger, CallsOK, ReaderOK, ReaderSteps, WorkerOK, BridgeTypeOK
<1> QED
  BY <1>1, BridgeAlways, PTL

\* The ledger is used by its operations only, so what is proved of it alone holds here.
LEMMA UsesLedger == BridgeSpec => Spec
<1>1. BridgeInit => Init
  BY DEF BridgeInit
<1>2. BridgeInv /\ [BridgeNext]_bridgeVars => [Next]_admissionVars
  BY BridgeUsesLedger
<1> QED
  BY <1>1, <1>2, BridgeAlways, PTL DEF BridgeSpec, Spec

\* So the running bridge excludes turns and operations from maintenance, keeps a
\* workspace to one reservation and never takes an ended turn for a new one.
THEOREM BridgeExclusive ==
  BridgeSpec => [](LeaseExcludesWork /\ OneTurnPerWorkspace /\ RetiredNeverRevived)
  BY UsesLedger, MaintenanceExclusive, WorkspaceExclusive, NoRevival, PTL


-----------------------------------------------------------------------------
(* A turn from the call that starts it to the completion that frees its       *)
(* thread.  A thread has at most one start on its way: held back by a caller, *)
(* written to the worker, or alive, that is, accepted and not yet known to    *)
(* have ended; and while there is one the thread has its reservation.         *)

OwnSteps == {"revise", "send", "waiting", "replied", "failing"}
Owns(k)   == k.kind = "start" /\ k.step \in OwnSteps
Unsent(k) == k.kind = "start" /\ k.step \in {"revise", "send"}

Places(q) == 1 .. Len(q)
Asks(i)   == requests[i].kind = "start"
Holder(th)      == byThread[<<App, th>>]
OfThread(id, th) == id \in TurnIds /\ worker[id] # None /\ worker[id].thread = th
Alive(id) == worker[id] # None /\ <<App, worker[id].thread, id>> \notin completed

ReservedInPlace ==
  \A r \in TurnTokens : turns[r] # None =>
    turns[r].app = App /\ turns[r].workspace = WorkspaceOf[turns[r].thread]

\* A caller that holds a reservation is the only one, and the turn has not begun.
OwnersHold ==
  /\ \A c \in Callers : Owns(call[c]) =>
       /\ turns[call[c].token] # None
       /\ turns[call[c].token].thread = call[c].thread
       /\ turns[call[c].token].state = "starting"
  /\ \A c, d \in Callers :
       Owns(call[c]) /\ Owns(call[d]) /\ call[c].token = call[d].token => c = d

\* Whatever has been asked of the worker has its reservation, for no other turn.
StartsHeld ==
  /\ \A i \in Places(requests) : Asks(i) =>
       /\ Holder(requests[i].thread) # None
       /\ turns[Holder(requests[i].thread)].turnId = None
  /\ \A id \in TurnIds : Alive(id) =>
       /\ Holder(worker[id].thread) # None
       /\ turns[Holder(worker[id].thread)].turnId \in {None, id}

OneStart ==
  /\ \A i, j \in Places(requests) :
       Asks(i) /\ Asks(j) /\ requests[i].thread = requests[j].thread => i = j
  /\ \A id, jd \in TurnIds :
       Alive(id) /\ Alive(jd) /\ worker[id].thread = worker[jd].thread => id = jd
  /\ \A i \in Places(requests), id \in TurnIds :
       Asks(i) /\ Alive(id) => requests[i].thread # worker[id].thread
  /\ \A c \in Callers, i \in Places(requests) :
       Unsent(call[c]) /\ Asks(i) => call[c].thread # requests[i].thread
  /\ \A c \in Callers, id \in TurnIds :
       Unsent(call[c]) /\ Alive(id) => call[c].thread # worker[id].thread

-----------------------------------------------------------------------------
(* What the methods of the ledger do to one reservation. *)

\* Its entry is rewritten for the same thread, workspace and turn,
Renews(r, t) ==
  /\ turns[r] # None
  /\ t.app = turns[r].app /\ t.thread = turns[r].thread
  /\ t.workspace = turns[r].workspace /\ t.turnId = turns[r].turnId
  /\ turns' = [turns EXCEPT ![r] = t]
  /\ UNCHANGED <<byThread, completed>>

\* or for the turn it now names,
Names(r, t, id) ==
  /\ turns[r] # None
  /\ <<turns[r].app, turns[r].thread, id>> \notin completed
  /\ t.app = turns[r].app /\ t.thread = turns[r].thread
  /\ t.workspace = turns[r].workspace
  /\ t.turnId = id /\ ~t.earlyCompleted
  /\ turns' = [turns EXCEPT ![r] = t]
  /\ UNCHANGED <<byThread, completed>>

\* or it goes, and its turn into the history.
Frees(r, id) ==
  /\ turns[r] # None
  /\ <<turns[r].app, turns[r].thread, id>> \notin completed
  /\ turns' = [turns EXCEPT ![r] = None]
  /\ byThread' = [byThread EXCEPT ![<<turns[r].app, turns[r].thread>>] = None]
  /\ completed' = completed \cup {<<turns[r].app, turns[r].thread, id>>}

\* The history has room for a turn of the table.
LEMMA RoomToRetire ==
  ASSUME Ledger, History, NEW r \in TurnTokens, turns[r] # None
  PROVE  Cardinality(completed) < MaxCompletedTurns
<1>1. Cardinality(completed) \in Nat /\ Cardinality(ActiveTurns) \in Nat
  BY FS_CardinalityType DEF History
<1>2. Cardinality(ActiveTurns) # 0
  <2>1. r \in ActiveTurns
    BY DEF ActiveTurns
  <2> QED
    BY <2>1, FS_EmptySet DEF History
<1> QED
  BY <1>1, <1>2, AdmissionAssumption DEF History, HistoryNeverOverflows

LEMMA RetireFrees ==
  ASSUME Ledger, History, NEW r \in TurnTokens, NEW id \in TurnIds, NEW reasons,
         turns[r] # None, RetireTurn(r, id, reasons),
         <<turns[r].app, turns[r].thread, id>> \notin completed
  PROVE  Frees(r, id)
  BY RoomToRetire DEF RetireTurn, Frees

\* What an event's record of a starting turn becomes.
Follows(kind, t, u, id) ==
  /\ t.state = "starting" => u.state = "starting"
  /\ \/ u.earlyId = t.earlyId /\ u.earlyCompleted = t.earlyCompleted
     \/ /\ t.earlyId \in {None, id} /\ u.earlyId = id
        /\ u.earlyCompleted => t.earlyCompleted \/ kind = "completed"

LEMMA EventEffect ==
  ASSUME Ledger, History, NEW kind \in EventKinds, NEW th \in Threads,
         NEW id \in TurnIds, TurnEvent(kind, App, th, id)
  PROVE  \/ UNCHANGED turnVars
         \/ \E r \in TurnTokens, u \in Turn :
              /\ turns[r].thread = th /\ <<App, th, id>> \notin completed
              /\ Renews(r, u) /\ Follows(kind, turns[r], u, id)
         \/ \E r \in TurnTokens :
              /\ turns[r].app = App /\ turns[r].thread = th
              /\ turns[r].state # "starting" /\ turns[r].turnId = id
              /\ kind = "completed" /\ Frees(r, id)
<1> DEFINE r == byThread[<<App, th>>]
           t == turns[r]
           u == IF t.state = "starting" THEN EarlyEvent(kind, t, id)
                                        ELSE BoundEvent(kind, t)
<1>0. App \in Apps
  BY BridgeAssumption
<1>1. CASE ~EventAccepted(kind, App, th, id)
  BY <1>1 DEF TurnEvent
<1>2. CASE EventAccepted(kind, App, th, id)
  <2>1. /\ r # None
        /\ <<App, th, id>> \notin completed
        /\ ~Unexpected(App, th, id)
        /\ IF t.state = "starting" THEN t.earlyId \in {None, id}
                                   ELSE t.turnId = id
    BY <1>2 DEF EventAccepted, Unexpected, Duplicate
  <2>2. r \in TurnTokens /\ t \in Turn /\ t.app = App /\ t.thread = th
    BY <1>0, <2>1, IndexedTurn
  <2>3. t # None
    BY <2>2, AdmissionAssumption
  <2>4. CASE /\ kind = "completed" /\ t.state # "starting"
             /\ RetireTurn(r, id, {})
    <3>1. Frees(r, id)
      BY <2>1, <2>2, <2>3, <2>4, RetireFrees
    <3> QED
      BY <2>1, <2>2, <2>4, <3>1
  <2>5. CASE /\ turns' = [turns EXCEPT ![r] = u]
             /\ UNCHANGED <<byThread, completed>>
    <3>1. u \in Turn
      BY <2>2 DEF EarlyEvent, BoundEvent, Turn, TurnStates
    <3>2. /\ u.turnId = t.turnId
          /\ u.app = t.app /\ u.thread = t.thread /\ u.workspace = t.workspace
      BY <2>2 DEF EarlyEvent, BoundEvent, Turn
    <3>3. Follows(kind, t, u, id)
      <4>1. CASE t.state = "starting"
        <5>1. /\ u.state = "starting" /\ u.earlyId = id
              /\ u.earlyCompleted => t.earlyCompleted \/ kind = "completed"
          BY <2>2, <4>1 DEF EarlyEvent, Turn
        <5> QED
          BY <2>1, <4>1, <5>1 DEF Follows
      <4>2. CASE t.state # "starting"
        <5>1. u.earlyId = t.earlyId /\ u.earlyCompleted = t.earlyCompleted
          BY <2>2, <4>2 DEF BoundEvent, Turn
        <5> QED
          BY <4>2, <5>1 DEF Follows
      <4> QED
        BY <4>1, <4>2
    <3>4. Renews(r, u)
      BY <2>3, <2>5, <3>2 DEF Renews
    <3> HIDE DEF u
    <3> QED
      BY <2>1, <2>2, <3>1, <3>3, <3>4
  <2> QED
    BY <1>2, <2>1, <2>2, <2>4, <2>5 DEF TurnEvent
<1> QED
  BY <1>1, <1>2

LEMMA FailEffect ==
  ASSUME Ledger, NEW r \in TurnTokens, FailTurn(r)
  PROVE  \E u \in Turn : /\ Renews(r, u)
                         /\ u.earlyId = turns[r].earlyId
                         /\ u.earlyCompleted = turns[r].earlyCompleted
<1> DEFINE u == [turns[r] EXCEPT !.state = "unknown"]
<1>1. turns[r] \in Turn
  BY ActiveTurnType DEF FailTurn, Ledger
<1>2. u \in Turn
  BY <1>1 DEF Turn, TurnStates
<1>3. /\ u.turnId = turns[r].turnId /\ u.earlyId = turns[r].earlyId
      /\ u.earlyCompleted = turns[r].earlyCompleted
      /\ u.app = turns[r].app /\ u.thread = turns[r].thread
      /\ u.workspace = turns[r].workspace
  BY <1>1 DEF Turn
<1>4. turns[r] # None /\ turns' = [turns EXCEPT ![r] = u]
  BY <1>1 DEF FailTurn, Ledger, TypeOK
<1>5. Renews(r, u)
  BY <1>3, <1>4 DEF FailTurn, Renews
<1> HIDE DEF u
<1> QED
  BY <1>2, <1>3, <1>5

LEMMA BindEffect ==
  ASSUME Ledger, History, NEW r \in TurnTokens, NEW id \in TurnIds, BindTurn(r, id)
  PROVE  /\ turns[r] # None /\ turns[r].state = "starting"
         /\ turns[r].earlyId \in {None, id}
         /\ \/ \E u \in Turn : Names(r, u, id)
            \/ Frees(r, id) /\ turns[r].earlyCompleted
<1> DEFINE t    == turns[r]
           late == IF closed THEN {"operation_outcome_unknown"} ELSE {}
           s == IF closed THEN "unknown"
                ELSE IF t.stopRequested THEN "stopping" ELSE "running"
           u == [t EXCEPT !.turnId = id, !.state = s]
<1>1. t \in Turn
  BY ActiveTurnType DEF BindTurn, CanBind, Ledger
<1>2. /\ turns[r] # None /\ t.state = "starting" /\ t.earlyId \in {None, id}
      /\ <<t.app, t.thread, id>> \notin completed
  BY DEF BindTurn, CanBind, BindMismatch
<1>3. CASE t.earlyCompleted /\ RetireTurn(r, id, late)
  BY <1>2, <1>3, RetireFrees
<1>4. CASE /\ ~t.earlyCompleted
           /\ turns' = [turns EXCEPT ![r].turnId = id, ![r].state = s]
           /\ UNCHANGED <<byThread, completed>>
  <2>1. u \in Turn
    BY <1>1 DEF Turn, TurnStates
  <2>2. turns' = [turns EXCEPT ![r] = u]
    BY <1>1, <1>4 DEF Ledger, TypeOK
  <2>3. /\ u.turnId = id /\ u.earlyCompleted = t.earlyCompleted
        /\ u.app = t.app /\ u.thread = t.thread /\ u.workspace = t.workspace
    BY <1>1 DEF Turn
  <2>4. Names(r, u, id)
    BY <1>2, <1>4, <2>2, <2>3 DEF Names
  <2> HIDE DEF u
  <2> QED
    BY <1>2, <2>1, <2>4
<1> QED
  BY <1>3, <1>4 DEF BindTurn

-----------------------------------------------------------------------------
(* A call goes through its steps in one order, keeping its kind, its thread    *)
(* and its number, and the reservation and the turn once it has them.          *)

StepAfter(s, t) ==
  \/ s = "session" /\ t = "reserve"
  \/ s = "reserve" /\ t \in {"revise", "finish"}
  \/ s = "revise"  /\ t = "send"
  \/ s = "choose"  /\ t = "stop"
  \/ s = "stop"    /\ t \in {"send", "finish"}
  \/ s = "send"    /\ t \in {"waiting", "failing"}
  \/ s = "waiting" /\ t \in {"replied", "failing"}
  \/ s = "replied" /\ t \in {"record", "failing", "finish"}
  \/ s \in {"failing", "record"} /\ t = "finish"

Advances(k, n) ==
  \/ k.step = "finish" /\ n = IdleCall
  \/ /\ StepAfter(k.step, n.step)
     /\ n.kind = k.kind /\ n.thread = k.thread /\ n.rid = k.rid
     /\ n.token = k.token \/ k.step = "reserve"
     /\ n.id = k.id \/ k.step = "choose" \/ (k.step = "waiting" /\ n.step = "replied")
     /\ n.revision = k.revision \/ k.step = "revise"
     /\ n.step = "record" => k.kind = "start" /\ k.id # None

Moved == \A c \in Callers : call'[c] = call[c] \/ Advances(call[c], call'[c])

LEMMA CallerAdvances ==
  ASSUME CallsOK, NEW c \in Callers, CallerStep(c)
  PROVE  \E n \in Calls : call' = [call EXCEPT ![c] = n] /\ Advances(call[c], n)
<1> DEFINE k == call[c]
           Goal == \E n \in Calls : /\ call' = [call EXCEPT ![c] = n]
                                    /\ Advances(k, n)
<1>1. k \in Calls /\ Equipped(k) /\ call \in [Callers -> Calls]
  BY DEF CallsOK
<1>2. ASSUME NEW n, n \in Calls, call' = [call EXCEPT ![c] = n], Advances(k, n)
      PROVE  Goal
  BY <1>2
<1>3. ASSUME NEW s \in CallSteps, NEW u \in BOOLEAN,
             StepAfter(k.step, s), s # "record",
             \/ call' = [call EXCEPT ![c].step = s]
             \/ call' = [call EXCEPT ![c].step = s, ![c].uncertain = u]
      PROVE  Goal
  <2>1. PICK n \in {[k EXCEPT !.step = s], [k EXCEPT !.step = s, !.uncertain = u]} :
          call' = [call EXCEPT ![c] = n]
    BY <1>1, <1>3
  <2>2. /\ n \in Calls /\ n.step = s /\ n.kind = k.kind /\ n.thread = k.thread
        /\ n.rid = k.rid /\ n.token = k.token /\ n.id = k.id
        /\ n.revision = k.revision
    BY <1>1 DEF Calls
  <2> QED
    BY <1>2, <1>3, <2>1, <2>2 DEF Advances
<1>4. CASE CreateSession(c) \/ ReservationRefused(c) \/ Fail(c) \/ Record(c)
  <2>1. PICK s \in {"reserve", "finish"} : /\ call' = [call EXCEPT ![c].step = s]
                                           /\ StepAfter(k.step, s)
    BY <1>4 DEF CreateSession, ReservationRefused, Fail, Record, Step, StepAfter
  <2> QED
    BY <1>3, <2>1 DEF CallSteps
<1>5. CASE MarkStopping(c) \/ Send(c) \/ TimeOut(c) \/ EndInterrupt(c)
  <2>1. PICK s \in {"finish", "send", "waiting", "failing"}, u \in BOOLEAN :
          /\ \/ call' = [call EXCEPT ![c].step = s]
             \/ call' = [call EXCEPT ![c].step = s, ![c].uncertain = u]
          /\ StepAfter(k.step, s)
    BY <1>5 DEF MarkStopping, Send, TimeOut, EndInterrupt, Raise, Step, StepAfter
  <2> QED
    BY <1>3, <2>1 DEF CallSteps
<1>6. ASSUME NEW r \in TurnTokens, Reserve(c, r)
      PROVE  Goal
  <2> DEFINE n == [k EXCEPT !.step = "revise", !.token = r]
  <2>1. /\ n \in Calls /\ n.step = "revise" /\ n.kind = k.kind /\ n.thread = k.thread
        /\ n.rid = k.rid /\ n.id = k.id /\ n.revision = k.revision
    BY <1>1 DEF Calls, CallSteps
  <2>2. k.step = "reserve" /\ call' = [call EXCEPT ![c] = n]
    BY <1>6 DEF Reserve
  <2> HIDE DEF n
  <2>3. Advances(k, n)
    BY <2>1, <2>2 DEF Advances, StepAfter
  <2> QED
    BY <1>2, <2>1, <2>2, <2>3
<1>7. CASE Revise(c)
  <2> DEFINE n == [k EXCEPT !.step = "send", !.revision = nextRevision']
  <2>1. nextRevision' \in Nat
    BY <1>7 DEF Revise, CallsOK
  <2>2. /\ n \in Calls /\ n.step = "send" /\ n.kind = k.kind /\ n.thread = k.thread
        /\ n.rid = k.rid /\ n.id = k.id /\ n.token = k.token
    BY <1>1, <2>1 DEF Calls, CallSteps
  <2>3. k.step = "revise" /\ call' = [call EXCEPT ![c] = n]
    BY <1>1, <1>7 DEF Revise
  <2> HIDE DEF n
  <2>4. Advances(k, n)
    BY <2>2, <2>3 DEF Advances, StepAfter
  <2> QED
    BY <1>2, <2>2, <2>3, <2>4
<1>8. CASE ChooseTurn(c)
  <2>1. PICK id \in NamedTurns \cup {display[k.thread].id} :
          call' = [call EXCEPT ![c].step = "stop", ![c].id = id]
    BY <1>8 DEF ChooseTurn
  <2>2. k.thread \in Threads /\ display[k.thread] \in Display
    BY <1>1, <1>8 DEF ChooseTurn, Equipped, CallsOK
  <2>3. id \in TurnIds \cup {None}
    BY <2>2, BridgeAssumption DEF Display
  <2> DEFINE n == [k EXCEPT !.step = "stop", !.id = id]
  <2>4. /\ n \in Calls /\ n.step = "stop" /\ n.kind = k.kind /\ n.thread = k.thread
        /\ n.rid = k.rid /\ n.token = k.token /\ n.revision = k.revision
    BY <1>1, <2>3 DEF Calls, CallSteps
  <2>5. k.step = "choose" /\ call' = [call EXCEPT ![c] = n]
    BY <1>1, <1>8, <2>1 DEF ChooseTurn
  <2> HIDE DEF n
  <2>6. Advances(k, n)
    BY <2>4, <2>5 DEF Advances, StepAfter
  <2> QED
    BY <1>2, <2>4, <2>5, <2>6
<1>9. CASE Bind(c)
  <2>1. CASE k.id # None /\ call' = [call EXCEPT ![c].step = "record",
                                                 ![c].active = BindShown(k.token)]
    <3> DEFINE n == [k EXCEPT !.step = "record", !.active = BindShown(k.token)]
    <3>1. BindShown(k.token) \in BOOLEAN
      BY DEF BindShown
    <3>2. /\ n \in Calls /\ n.step = "record" /\ n.kind = k.kind /\ n.thread = k.thread
          /\ n.rid = k.rid /\ n.token = k.token /\ n.revision = k.revision
          /\ n.id = k.id
      BY <1>1, <3>1 DEF Calls, CallSteps
    <3>3. call' = [call EXCEPT ![c] = n]
      BY <1>1, <2>1
    <3> HIDE DEF n
    <3>4. Advances(k, n)
      BY <1>9, <2>1, <3>2 DEF Bind, Advances, StepAfter
    <3> QED
      BY <1>2, <3>2, <3>3, <3>4
  <2>2. CASE \E u \in BOOLEAN : call' = [call EXCEPT ![c].step = "failing",
                                                     ![c].uncertain = u]
    <3>1. StepAfter(k.step, "failing")
      BY <1>9 DEF Bind, StepAfter
    <3> QED
      BY <1>3, <2>2, <3>1 DEF CallSteps
  <2> QED
    BY <1>9, <2>1, <2>2 DEF Bind, Raise
<1>10. CASE Return(c)
  <2>1. IdleCall \in Calls
    BY DEF IdleCall, Calls, CallSteps
  <2>2. Advances(k, IdleCall)
    BY <1>10 DEF Return, Advances
  <2> QED
    BY <1>2, <1>10, <2>1, <2>2 DEF Return
<1> QED
  BY <1>4, <1>5, <1>6, <1>7, <1>8, <1>9, <1>10 DEF CallerStep

LEMMA CallerMoved ==
  ASSUME CallsOK, NEW c \in Callers, CallerStep(c)
  PROVE  Moved /\ \A d \in Callers : d # c => call'[d] = call[d]
  BY CallerAdvances DEF Moved, CallsOK

LEMMA WokenMoved ==
  ASSUME CallsOK, WakeWaiters
  PROVE  Moved
<1> SUFFICES ASSUME NEW c \in Callers, call'[c] # call[c]
             PROVE  Advances(call[c], call'[c])
  BY DEF Moved
<1>1. /\ call[c].step = "waiting"
      /\ call'[c] = [call[c] EXCEPT !.step = "failing", !.uncertain = TRUE]
  BY DEF WakeWaiters
<1>2. call[c] \in Calls
  BY DEF CallsOK
<1>3. /\ call'[c].step = "failing"
      /\ call'[c].kind = call[c].kind /\ call'[c].thread = call[c].thread
      /\ call'[c].rid = call[c].rid /\ call'[c].token = call[c].token
      /\ call'[c].id = call[c].id /\ call'[c].revision = call[c].revision
  BY <1>1, <1>2 DEF Calls
<1> QED
  BY <1>1, <1>3 DEF Advances, StepAfter

\* A caller that is answered has the number and the turn of the answer.
LEMMA RepliedMoved ==
  ASSUME CallsOK, DeliverReply
  PROVE  /\ Moved
         /\ \A c \in Callers : call'[c] # call[c] =>
              call[c].rid = NextMessage.rid /\ call'[c].id = NextMessage.id
<1> SUFFICES ASSUME NEW c \in Callers, call'[c] # call[c]
             PROVE  /\ Advances(call[c], call'[c])
                    /\ call[c].rid = NextMessage.rid /\ call'[c].id = NextMessage.id
  BY DEF Moved
<1>1. /\ call[c].step = "waiting" /\ call[c].rid = NextMessage.rid
      /\ call'[c] = [call[c] EXCEPT !.step = "replied", !.id = NextMessage.id]
  BY DEF DeliverReply
<1>2. call[c] \in Calls
  BY DEF CallsOK
<1>3. /\ call'[c].step = "replied" /\ call'[c].id = NextMessage.id
      /\ call'[c].kind = call[c].kind /\ call'[c].thread = call[c].thread
      /\ call'[c].rid = call[c].rid /\ call'[c].token = call[c].token
      /\ call'[c].revision = call[c].revision
  BY <1>1, <1>2 DEF Calls
<1> QED
  BY <1>1, <1>3 DEF Advances, StepAfter

\* What moving on does to the holders of reservations.
LEMMA OwnersMove ==
  ASSUME CallsOK, Moved, NEW c \in Callers, Owns(call'[c])
  PROVE  \/ call[c].step = "reserve" /\ call'[c].step = "revise"
         \/ /\ Owns(call[c])
            /\ call'[c].token = call[c].token /\ call'[c].thread = call[c].thread
            /\ Unsent(call'[c]) => Unsent(call[c])
<1> DEFINE k == call[c]
           n == call'[c]
<1>1. CASE n = k
  BY <1>1
<1>2. CASE Advances(k, n)
  <2>1. k.step # "finish" \/ n # IdleCall
    BY DEF Owns, OwnSteps, IdleCall
  <2>2. /\ StepAfter(k.step, n.step)
        /\ n.kind = k.kind /\ n.thread = k.thread
        /\ n.token = k.token \/ k.step = "reserve"
    BY <1>2, <2>1 DEF Advances
  <2>3. n.kind = "start" /\ n.step \in OwnSteps
    BY DEF Owns
  <2>4. \/ k.step = "reserve" /\ n.step = "revise"
        \/ /\ k.step \in OwnSteps
           /\ n.step \in {"revise", "send"} => k.step \in {"revise", "send"}
    <3>1. k.step # "stop"
      BY <2>2, <2>3 DEF CallsOK, Equipped
    <3> QED
      BY <2>2, <2>3, <3>1 DEF StepAfter, OwnSteps
  <2>5. k.step \in OwnSteps => k.step # "reserve"
    BY DEF OwnSteps
  <2> QED
    BY <2>2, <2>3, <2>4, <2>5 DEF Owns, Unsent
<1> QED
  BY <1>1, <1>2 DEF Moved

-----------------------------------------------------------------------------
(* Queues, and the turns the worker has accepted. *)

Shrinks(q, p) == p = q \/ (q # <<>> /\ p = Tail(q))

LEMMA ShrunkQueue ==
  ASSUME NEW S, NEW q \in Seq(S), NEW p, Shrinks(q, p)
  PROVE  \E o \in {0, 1} : \A i \in Places(p) : i + o \in Places(q) /\ p[i] = q[i + o]
<1>1. CASE p = q
  <2>1. \A i \in Places(p) : i + 0 \in Places(q) /\ p[i] = q[i + 0]
    BY <1>1 DEF Places
  <2> QED
    BY <2>1
<1>2. CASE q # <<>> /\ p = Tail(q)
  <2>1. \A i \in Places(p) : i + 1 \in Places(q) /\ p[i] = q[i + 1]
    BY <1>2 DEF Places
  <2> QED
    BY <2>1
<1> QED
  BY <1>1, <1>2 DEF Shrinks

LEMMA GrownQueue ==
  ASSUME NEW S, NEW q \in Seq(S), NEW m \in S
  PROVE  \A i \in Places(Append(q, m)) :
           \/ i \in Places(q) /\ Append(q, m)[i] = q[i]
           \/ i = Len(q) + 1 /\ Append(q, m)[i] = m
<1> SUFFICES ASSUME NEW i \in Places(Append(q, m))
             PROVE  \/ i \in Places(q) /\ Append(q, m)[i] = q[i]
                    \/ i = Len(q) + 1 /\ Append(q, m)[i] = m
  OBVIOUS
<1>1. Len(Append(q, m)) = Len(q) + 1 /\ Len(q) \in Nat
  OBVIOUS
<1>2. i \in 1 .. Len(q) \/ i = Len(q) + 1
  BY <1>1 DEF Places
<1> QED
  BY <1>1, <1>2 DEF Places

WorkerKept ==
  \A id \in TurnIds :
    /\ worker'[id] # None <=> worker[id] # None
    /\ worker[id] # None => /\ worker'[id].thread = worker[id].thread
                            /\ worker'[id].rid = worker[id].rid

Starts == ReservedInPlace /\ OwnersHold /\ StartsHeld /\ OneStart

-----------------------------------------------------------------------------
(* A step that starts nothing. *)

Calm ==
  /\ Shrinks(requests, requests')
  /\ WorkerKept
  /\ completed \subseteq completed'
  /\ \A c \in Callers : Owns(call'[c]) =>
       /\ Owns(call[c])
       /\ call'[c].token = call[c].token /\ call'[c].thread = call[c].thread
       /\ Unsent(call'[c]) => Unsent(call[c])

LeftAlone(r) == \A c \in Callers : Owns(call'[c]) => call'[c].token # r

TableMoves ==
  \/ UNCHANGED turnVars
  \/ \E r \in TurnTokens, u \in Turn :
       /\ Renews(r, u)
       /\ (turns[r].state = "starting" => u.state = "starting") \/ LeftAlone(r)
  \/ \E r \in TurnTokens, u \in Turn, id \in TurnIds :
       Names(r, u, id) /\ OfThread(id, turns[r].thread) /\ LeftAlone(r)
  \/ \E r \in TurnTokens, id \in TurnIds :
       Frees(r, id) /\ OfThread(id, turns[r].thread) /\ LeftAlone(r)

LEMMA UnsentOwns ==
  ASSUME NEW k, Unsent(k)
  PROVE  Owns(k)
  BY DEF Unsent, Owns, OwnSteps

LEMMA StillAlive ==
  ASSUME WorkerKept, completed \subseteq completed', NEW id \in TurnIds, Alive(id)'
  PROVE  Alive(id) /\ worker'[id].thread = worker[id].thread
  BY DEF WorkerKept, Alive

LEMMA CalmKeepsOne ==
  ASSUME WorkerOK, OneStart, Calm
  PROVE  OneStart'
<1>1. PICK o \in {0, 1} : \A i \in Places(requests') :
        i + o \in Places(requests) /\ requests'[i] = requests[i + o]
  BY ShrunkQueue DEF WorkerOK, Calm
<1>2. \A id \in TurnIds : Alive(id)' =>
        Alive(id) /\ worker'[id].thread = worker[id].thread
  BY StillAlive DEF Calm
<1>3. \A i \in Places(requests') : Asks(i)' => Asks(i + o)
  BY <1>1 DEF Asks
<1>4. \A c \in Callers : Unsent(call'[c]) =>
        Unsent(call[c]) /\ call'[c].thread = call[c].thread
  BY UnsentOwns DEF Calm
<1>5. ASSUME NEW i \in Places(requests'), NEW j \in Places(requests'),
             Asks(i)', Asks(j)', requests'[i].thread = requests'[j].thread
      PROVE  i = j
  <2>1. i + o = j + o
    BY <1>1, <1>3, <1>5 DEF OneStart
  <2> QED
    BY <2>1 DEF Places
<1>6. ASSUME NEW id \in TurnIds, NEW jd \in TurnIds,
             Alive(id)', Alive(jd)', worker'[id].thread = worker'[jd].thread
      PROVE  id = jd
  BY <1>2, <1>6 DEF OneStart
<1>7. ASSUME NEW i \in Places(requests'), NEW id \in TurnIds, Asks(i)', Alive(id)'
      PROVE  requests'[i].thread # worker'[id].thread
  BY <1>1, <1>2, <1>3, <1>7 DEF OneStart
<1>8. ASSUME NEW c \in Callers, NEW i \in Places(requests'),
             Unsent(call'[c]), Asks(i)'
      PROVE  call'[c].thread # requests'[i].thread
  BY <1>1, <1>3, <1>4, <1>8 DEF OneStart
<1>9. ASSUME NEW c \in Callers, NEW id \in TurnIds, Unsent(call'[c]), Alive(id)'
      PROVE  call'[c].thread # worker'[id].thread
  BY <1>2, <1>4, <1>9 DEF OneStart
<1>10. \A c \in Callers : Unsent(call[c])' <=> Unsent(call'[c])
  BY DEF Unsent
<1>11. Places(requests)' = Places(requests')
  BY DEF Places
<1> QED
  BY <1>5, <1>6, <1>7, <1>8, <1>9, <1>10, <1>11 DEF OneStart

\* A reservation is found under the thread of its turn.
LEMMA HeldBy ==
  ASSUME Ledger, ReservedInPlace, NEW r \in TurnTokens, turns[r] # None
  PROVE  /\ turns[r] \in Turn /\ turns[r].thread \in Threads
         /\ <<turns[r].app, turns[r].thread>> = <<App, turns[r].thread>>
         /\ Holder(turns[r].thread) = r
<1>1. turns[r] \in Turn
  BY ActiveTurnType DEF Ledger
<1>2. turns[r].thread \in Threads
  BY <1>1 DEF Turn
<1> QED
  BY <1>1, <1>2 DEF Ledger, ThreadIndexExact, ActiveTurns, ReservedInPlace, Holder

LEMMA HolderHolds ==
  ASSUME Ledger, NEW th \in Threads, Holder(th) # None
  PROVE  /\ Holder(th) \in TurnTokens /\ turns[Holder(th)] # None
         /\ turns[Holder(th)].thread = th
  BY IndexedTurn, BridgeAssumption, AdmissionAssumption DEF Holder

LEMMA RequestThread ==
  ASSUME WorkerOK, NEW i \in Places(requests)
  PROVE  requests[i] \in Requests /\ requests[i].thread \in Threads
<1>1. requests[i] \in Requests
  BY DEF WorkerOK, Places
<1> QED
  BY <1>1 DEF Requests

LEMMA WorkerThread ==
  ASSUME WorkerOK, NEW id \in TurnIds, worker[id] # None
  PROVE  worker[id] \in WorkerTurns /\ worker[id].thread \in Threads
  BY DEF WorkerOK, WorkerTurns

LEMMA CalmKeepsHeld ==
  ASSUME Ledger, WorkerOK, Starts, Calm, TableMoves
  PROVE  StartsHeld'
<1>1. PICK o \in {0, 1} : \A i \in Places(requests') :
        i + o \in Places(requests) /\ requests'[i] = requests[i + o]
  BY ShrunkQueue DEF WorkerOK, Calm
<1>2. \A id \in TurnIds : Alive(id)' =>
        Alive(id) /\ worker'[id].thread = worker[id].thread
  BY StillAlive DEF Calm
\* It is enough that the threads concerned keep their reservations.
<1> DEFINE held(th) == byThread'[<<App, th>>]
           asked(i) == /\ held(requests[i].thread) # None
                       /\ turns'[held(requests[i].thread)].turnId = None
           begun(id) == /\ held(worker[id].thread) # None
                        /\ turns'[held(worker[id].thread)].turnId \in {None, id}
<1>3. ASSUME \A i \in Places(requests) : Asks(i) => asked(i),
             \A id \in TurnIds : Alive(id) /\ Alive(id)' => begun(id)
      PROVE  StartsHeld'
  <2>0. \A i \in Places(requests') : Asks(i)' =>
          Asks(i + o) /\ i + o \in Places(requests) /\ requests'[i] = requests[i + o]
    BY <1>1 DEF Asks
  <2>1. \A i \in Places(requests') : Asks(i)' =>
          /\ held(requests'[i].thread) # None
          /\ turns'[held(requests'[i].thread)].turnId = None
    BY <1>3, <2>0
  <2>2. \A id \in TurnIds : Alive(id)' =>
          /\ held(worker'[id].thread) # None
          /\ turns'[held(worker'[id].thread)].turnId \in {None, id}
    BY <1>2, <1>3
  <2>3. Places(requests)' = Places(requests')
    BY DEF Places
  <2> QED
    BY <2>1, <2>2, <2>3 DEF StartsHeld, Holder
<1>4. \A i \in Places(requests) : Asks(i) =>
        /\ requests[i].thread \in Threads
        /\ Holder(requests[i].thread) # None
        /\ turns[Holder(requests[i].thread)].turnId = None
  BY RequestThread DEF Starts, StartsHeld
<1>5. \A id \in TurnIds : Alive(id) =>
        /\ worker[id].thread \in Threads
        /\ Holder(worker[id].thread) # None
        /\ turns[Holder(worker[id].thread)].turnId \in {None, id}
  BY WorkerThread DEF Starts, StartsHeld, Alive
<1>6. CASE UNCHANGED turnVars
  BY <1>3, <1>4, <1>5, <1>6 DEF turnVars, Holder
<1>7. ASSUME NEW r \in TurnTokens, NEW u \in Turn, Renews(r, u)
      PROVE  StartsHeld'
  <2>1. \A th \in Threads : Holder(th) # None =>
          /\ held(th) = Holder(th)
          /\ turns'[Holder(th)].turnId = turns[Holder(th)].turnId
    BY <1>7, HolderHolds DEF Renews, Holder, Ledger, TypeOK
  <2> QED
    BY <1>3, <1>4, <1>5, <2>1
<1>8. ASSUME NEW r \in TurnTokens, NEW u \in Turn, NEW id \in TurnIds,
             Names(r, u, id), OfThread(id, turns[r].thread)
      PROVE  StartsHeld'
  <2>1. Alive(id) /\ worker[id].thread = turns[r].thread
    BY <1>8 DEF Names, OfThread, Alive, Starts, ReservedInPlace
  <2>2. \A th \in Threads : Holder(th) # None =>
          /\ held(th) = Holder(th)
          /\ th = turns[r].thread => turns'[Holder(th)].turnId = id
          /\ th # turns[r].thread => turns'[Holder(th)] = turns[Holder(th)]
    <3> SUFFICES ASSUME NEW th \in Threads, Holder(th) # None
                 PROVE  /\ held(th) = Holder(th)
                        /\ th = turns[r].thread => turns'[Holder(th)].turnId = id
                        /\ th # turns[r].thread => turns'[Holder(th)] = turns[Holder(th)]
      OBVIOUS
    <3>1. /\ Holder(th) \in TurnTokens /\ turns[Holder(th)] # None
          /\ turns[Holder(th)].thread = th
      BY HolderHolds
    <3>2. turns[r] # None /\ turns' = [turns EXCEPT ![r] = u] /\ u.turnId = id
          /\ UNCHANGED byThread
      BY <1>8 DEF Names
    <3>3. Holder(turns[r].thread) = r
      BY <3>2, HeldBy DEF Starts
    <3> QED
      BY <3>1, <3>2, <3>3 DEF Holder, Ledger, TypeOK
  <2>3. \A i \in Places(requests) : Asks(i) => requests[i].thread # turns[r].thread
    BY <2>1 DEF Starts, OneStart
  <2>4. \A jd \in TurnIds : Alive(jd) /\ worker[jd].thread = turns[r].thread => jd = id
    BY <2>1 DEF Starts, OneStart
  <2> QED
    BY <1>3, <1>4, <1>5, <2>2, <2>3, <2>4
<1>9. ASSUME NEW r \in TurnTokens, NEW id \in TurnIds,
             Frees(r, id), OfThread(id, turns[r].thread)
      PROVE  StartsHeld'
  <2>1. Alive(id) /\ worker[id].thread = turns[r].thread
    BY <1>9 DEF Frees, OfThread, Alive, Starts, ReservedInPlace
  <2>2. ~Alive(id)'
    BY <1>9, <2>1 DEF Frees, Alive, Starts, ReservedInPlace, Calm, WorkerKept
  <2>3. \A th \in Threads : Holder(th) # None /\ th # turns[r].thread =>
          held(th) = Holder(th) /\ turns'[Holder(th)] = turns[Holder(th)]
    <3> SUFFICES ASSUME NEW th \in Threads, Holder(th) # None, th # turns[r].thread
                 PROVE  held(th) = Holder(th) /\ turns'[Holder(th)] = turns[Holder(th)]
      OBVIOUS
    <3>1. /\ Holder(th) \in TurnTokens /\ turns[Holder(th)] # None
          /\ turns[Holder(th)].thread = th
      BY HolderHolds
    <3>2. /\ turns[r] # None /\ turns' = [turns EXCEPT ![r] = None]
          /\ byThread' = [byThread EXCEPT ![<<turns[r].app, turns[r].thread>>] = None]
      BY <1>9 DEF Frees
    <3>3. <<App, th>> \in Apps \X Threads /\ <<App, th>> # <<turns[r].app, turns[r].thread>>
      BY BridgeAssumption
    <3>4. byThread \in [Apps \X Threads -> TurnTokens \cup {None}]
          /\ turns \in [TurnTokens -> Turn \cup {None}]
      BY DEF Ledger, TypeOK
    <3> QED
      BY <3>1, <3>2, <3>3, <3>4 DEF Holder
  <2>4. \A i \in Places(requests) : Asks(i) => requests[i].thread # turns[r].thread
    BY <2>1 DEF Starts, OneStart
  <2>5. \A jd \in TurnIds : Alive(jd) /\ Alive(jd)' => worker[jd].thread # turns[r].thread
    BY <2>1, <2>2 DEF Starts, OneStart
  <2> QED
    BY <1>3, <1>4, <1>5, <2>3, <2>4, <2>5
<1> QED
  BY <1>6, <1>7, <1>8, <1>9 DEF TableMoves

LEMMA CalmKeepsOwners ==
  ASSUME Ledger, CallsOK, Starts, Calm, TableMoves
  PROVE  OwnersHold' /\ ReservedInPlace'
<1> DEFINE Kept(r) == /\ turns'[r] # None
                      /\ turns'[r].thread = turns[r].thread
                      /\ turns'[r].state = "starting"
<1>1. \A c \in Callers : Owns(call'[c]) =>
        /\ call[c].token \in TurnTokens
        /\ turns[call[c].token] # None
        /\ turns[call[c].token].thread = call[c].thread
        /\ turns[call[c].token].state = "starting"
  BY DEF Calm, Starts, OwnersHold, CallsOK, Equipped, Owns, OwnSteps, HoldingSteps
<1>2. turns \in [TurnTokens -> Turn \cup {None}] /\ None \notin Turn
  BY AdmissionAssumption DEF Ledger, TypeOK
<1>3. \A c \in Callers : Owns(call'[c]) => Kept(call[c].token)
  <2> SUFFICES ASSUME NEW c \in Callers, Owns(call'[c]) PROVE Kept(call[c].token)
    OBVIOUS
  <2>1. call'[c].token = call[c].token
    BY DEF Calm
  <2>2. CASE UNCHANGED turnVars
    BY <1>1, <2>2 DEF turnVars
  <2>3. ASSUME NEW r \in TurnTokens, NEW u \in Turn, Renews(r, u),
               (turns[r].state = "starting" => u.state = "starting") \/ LeftAlone(r)
        PROVE  Kept(call[c].token)
    BY <1>1, <1>2, <2>1, <2>3 DEF Renews, LeftAlone
  <2>4. ASSUME NEW r \in TurnTokens, NEW u, turns' = [turns EXCEPT ![r] = u],
               LeftAlone(r)
        PROVE  Kept(call[c].token)
    BY <1>1, <1>2, <2>1, <2>4 DEF LeftAlone
  <2> QED
    BY <2>2, <2>3, <2>4 DEF TableMoves, Names, Frees
<1>4. OwnersHold'
  <2>1. \A c \in Callers : Owns(call[c])' <=> Owns(call'[c])
    BY DEF Owns
  <2>2. \A c \in Callers : Owns(call'[c]) =>
          /\ turns'[call'[c].token] # None
          /\ turns'[call'[c].token].thread = call'[c].thread
          /\ turns'[call'[c].token].state = "starting"
    BY <1>1, <1>3 DEF Calm
  <2>3. \A c, d \in Callers :
          Owns(call'[c]) /\ Owns(call'[d]) /\ call'[c].token = call'[d].token => c = d
    BY DEF Calm, Starts, OwnersHold
  <2> QED
    BY <2>1, <2>2, <2>3 DEF OwnersHold
<1>5. ReservedInPlace'
  <2>1. ASSUME NEW r \in TurnTokens, NEW u \in Turn, turns[r] # None,
               u.app = turns[r].app, u.thread = turns[r].thread,
               u.workspace = turns[r].workspace, turns' = [turns EXCEPT ![r] = u]
        PROVE  ReservedInPlace'
    BY <1>2, <2>1 DEF Starts, ReservedInPlace
  <2>2. ASSUME NEW r \in TurnTokens, turns' = [turns EXCEPT ![r] = None]
        PROVE  ReservedInPlace'
    BY <1>2, <2>2 DEF Starts, ReservedInPlace
  <2>3. CASE UNCHANGED turnVars
    BY <2>3 DEF turnVars, Starts, ReservedInPlace
  <2> QED
    BY <2>1, <2>2, <2>3 DEF TableMoves, Renews, Names, Frees
<1> QED
  BY <1>4, <1>5

LEMMA CalmKeepsStarts ==
  ASSUME Ledger, CallsOK, WorkerOK, Starts, Calm, TableMoves
  PROVE  Starts'
  BY CalmKeepsOne, CalmKeepsHeld, CalmKeepsOwners DEF Starts

-----------------------------------------------------------------------------
(* The three steps that take a start on. *)

LEMMA ReserveKeepsStarts ==
  ASSUME BridgeInv, Starts, NEW c \in Callers, NEW r \in TurnTokens, Reserve(c, r)
  PROVE  Starts'
<1> DEFINE k  == call[c]
           th == k.thread
           u  == NewTurn(App, th, WorkspaceOf[th])
           n  == call'[c]
<1> USE DEF BridgeInv
<1>1. /\ k \in Calls /\ th \in Threads /\ k.step = "reserve"
      /\ n.step = "revise" /\ n.kind = k.kind /\ n.thread = th /\ n.token = r
      /\ \A d \in Callers : d # c => call'[d] = call[d]
  BY DEF Reserve, CallsOK, Equipped, Calls
<1>2. /\ ThreadFree(App, th) /\ turns[r] = None
      /\ turns' = [turns EXCEPT ![r] = u]
      /\ byThread' = [byThread EXCEPT ![<<App, th>>] = r]
      /\ UNCHANGED <<completed, requests, worker>>
  BY DEF Reserve, ReserveTurn, workerVars
<1>3. /\ App \in Apps /\ WorkspaceOf[th] \in Workspaces
      /\ turns \in [TurnTokens -> Turn \cup {None}] /\ None \notin Turn
      /\ byThread \in [Apps \X Threads -> TurnTokens \cup {None}]
  BY <1>1, BridgeAssumption, AdmissionAssumption DEF Ledger, TypeOK
<1>4. /\ u \in Turn /\ u.app = App /\ u.thread = th /\ u.workspace = WorkspaceOf[th]
      /\ u.state = "starting" /\ u.turnId = None
  BY <1>1, <1>3 DEF NewTurn, Turn, TurnStates
<1> HIDE DEF u
<1>5. Holder(th) = None
  BY <1>2 DEF ThreadFree, Holder
<1>6. /\ \A i \in Places(requests) : Asks(i) => requests[i].thread # th
      /\ \A id \in TurnIds : Alive(id) => worker[id].thread # th
  BY <1>5 DEF Starts, StartsHeld
<1>7. ReservedInPlace'
  BY <1>2, <1>3, <1>4 DEF Starts, ReservedInPlace
<1>8. \A d \in Callers : d # c /\ Owns(call[d]) => call[d].token # r
  BY <1>2 DEF Starts, OwnersHold
<1>9. OwnersHold'
  <2>1. ASSUME NEW d \in Callers, Owns(call'[d])
        PROVE  /\ turns'[call'[d].token] # None
               /\ turns'[call'[d].token].thread = call'[d].thread
               /\ turns'[call'[d].token].state = "starting"
    <3>1. CASE d = c
      BY <1>1, <1>2, <1>3, <1>4, <3>1
    <3>2. CASE d # c
      <4>1. Owns(call[d]) /\ call'[d] = call[d]
        BY <1>1, <2>1, <3>2
      <4>2. call[d].token \in TurnTokens
        BY <4>1 DEF CallsOK, Equipped, Owns, OwnSteps, HoldingSteps
      <4>3. turns'[call[d].token] = turns[call[d].token]
        BY <1>2, <1>3, <1>8, <3>2, <4>1, <4>2
      <4> QED
        BY <4>1, <4>3 DEF Starts, OwnersHold
    <3> QED
      BY <3>1, <3>2
  <2>2. ASSUME NEW d \in Callers, NEW e \in Callers,
               Owns(call'[d]), Owns(call'[e]), call'[d].token = call'[e].token
        PROVE  d = e
    BY <1>1, <1>8, <2>2 DEF Starts, OwnersHold
  <2>3. \A d \in Callers : Owns(call[d])' <=> Owns(call'[d])
    BY DEF Owns
  <2> QED
    BY <2>1, <2>2, <2>3 DEF OwnersHold
<1>10. \A x \in Threads : x # th /\ Holder(x) # None =>
         Holder(x)' = Holder(x) /\ turns'[Holder(x)] = turns[Holder(x)]
  <2> SUFFICES ASSUME NEW x \in Threads, x # th, Holder(x) # None
               PROVE  Holder(x)' = Holder(x) /\ turns'[Holder(x)] = turns[Holder(x)]
    OBVIOUS
  <2>1. Holder(x) \in TurnTokens /\ turns[Holder(x)] # None
    BY HolderHolds
  <2> QED
    BY <1>2, <1>3, <2>1 DEF Holder
<1>11. StartsHeld'
  <2>1. \A i \in Places(requests) : Asks(i) =>
          requests[i].thread \in Threads /\ Holder(requests[i].thread) # None
    BY RequestThread DEF Starts, StartsHeld
  <2>2. \A id \in TurnIds : Alive(id) =>
          worker[id].thread \in Threads /\ Holder(worker[id].thread) # None
    BY WorkerThread DEF Starts, StartsHeld, Alive
  <2>3. /\ \A id \in TurnIds : Alive(id)' <=> Alive(id)
        /\ \A i \in Places(requests) : Asks(i)' <=> Asks(i)
        /\ Places(requests)' = Places(requests)
    BY <1>2 DEF Alive, Asks, Places
  <2>4. \A i \in Places(requests) : Asks(i) =>
          /\ byThread'[<<App, requests[i].thread>>] # None
          /\ turns'[byThread'[<<App, requests[i].thread>>]].turnId = None
    BY <1>6, <1>10, <2>1 DEF Starts, StartsHeld, Holder
  <2>5. \A id \in TurnIds : Alive(id) =>
          /\ byThread'[<<App, worker[id].thread>>] # None
          /\ turns'[byThread'[<<App, worker[id].thread>>]].turnId \in {None, id}
    BY <1>6, <1>10, <2>2 DEF Starts, StartsHeld, Holder
  <2> QED
    BY <1>2, <2>3, <2>4, <2>5 DEF StartsHeld, Holder
<1>12. OneStart'
  <2>1. /\ \A id \in TurnIds : Alive(id)' <=> Alive(id)
        /\ \A i \in Places(requests) : Asks(i)' <=> Asks(i)
        /\ Places(requests)' = Places(requests)
        /\ \A d \in Callers : Unsent(call[d])' <=> Unsent(call'[d])
    BY <1>2 DEF Alive, Asks, Places, Unsent
  <2>2. \A d \in Callers : call'[d] = call[d] \/ call'[d].thread = th
    BY <1>1
  <2>3. /\ \A d \in Callers, i \in Places(requests) :
             Unsent(call'[d]) /\ Asks(i) => call'[d].thread # requests[i].thread
        /\ \A d \in Callers, id \in TurnIds :
             Unsent(call'[d]) /\ Alive(id) => call'[d].thread # worker[id].thread
    BY <1>6, <2>2 DEF Starts, OneStart
  <2> QED
    BY <1>2, <2>1, <2>3 DEF Starts, OneStart
<1> QED
  BY <1>7, <1>9, <1>11, <1>12 DEF Starts

\* A request is written by the caller that holds the reservation.
LEMMA SendKeepsStarts ==
  ASSUME BridgeInv, Starts, NEW c \in Callers, Send(c), Connected
  PROVE  Starts'
<1> DEFINE k == call[c]
           n == call'[c]
           m == [kind |-> k.kind, rid |-> k.rid, thread |-> k.thread, id |-> k.id]
<1> USE DEF BridgeInv
<1>1. /\ k \in Calls /\ Equipped(k) /\ k.step = "send"
      /\ requests' = Append(requests, m)
      /\ n = [k EXCEPT !.step = "waiting"]
      /\ \A d \in Callers : d # c => call'[d] = call[d]
      /\ UNCHANGED <<turns, byThread, completed, worker>>
  BY DEF Send, CallsOK, admissionVars
<1>2. /\ n.step = "waiting" /\ n.kind = k.kind /\ n.thread = k.thread
      /\ n.token = k.token /\ k.thread \in Threads
  BY <1>1 DEF Calls, Equipped
<1>3. m \in Requests
  BY <1>1 DEF Calls, Equipped, Requests
<1>4. \A i \in Places(requests') :
        \/ i \in Places(requests) /\ requests'[i] = requests[i]
        \/ i = Len(requests) + 1 /\ requests'[i] = m
  <2>1. requests \in Seq(Requests)
    BY DEF WorkerOK
  <2>2. m \in Requests /\ requests' = Append(requests, m)
    BY <1>1, <1>3
  <2> HIDE DEF m
  <2> QED
    BY <2>1, <2>2, GrownQueue
<1>5. /\ \A d \in Callers : Owns(call'[d]) =>
             /\ Owns(call[d]) /\ call'[d].token = call[d].token
             /\ call'[d].thread = call[d].thread
      /\ \A d \in Callers : Unsent(call'[d]) => d # c
  BY <1>1, <1>2 DEF Owns, OwnSteps, Unsent
<1>6. ReservedInPlace'
  BY <1>1 DEF Starts, ReservedInPlace
<1>7. OwnersHold'
  <2>1. \A d \in Callers : Owns(call[d])' <=> Owns(call'[d])
    BY DEF Owns
  <2> QED
    BY <1>1, <1>5, <2>1 DEF Starts, OwnersHold
<1>8. /\ \A id \in TurnIds : Alive(id)' <=> Alive(id)
      /\ Places(requests)' = Places(requests')
      /\ \A d \in Callers : Unsent(call[d])' <=> Unsent(call'[d])
  BY <1>1 DEF Alive, Asks, Places, Unsent
<1>9. k.kind = "start" => Unsent(k) /\ Owns(k)
  BY <1>1 DEF Unsent, Owns, OwnSteps
<1>10. StartsHeld'
  <2>1. k.kind = "start" => Holder(k.thread) # None /\ turns[Holder(k.thread)].turnId = None
    <3> SUFFICES ASSUME k.kind = "start"
                 PROVE  Holder(k.thread) # None /\ turns[Holder(k.thread)].turnId = None
      OBVIOUS
    <3>1. /\ k.token \in TurnTokens /\ turns[k.token] # None
          /\ turns[k.token].thread = k.thread
          /\ turns[k.token].state = "starting"
      BY <1>1, <1>9 DEF Starts, OwnersHold, Equipped, HoldingSteps
    <3>2. Holder(k.thread) = k.token /\ k.token # None
      BY <3>1, HeldBy, AdmissionAssumption DEF Starts
    <3>3. turns[k.token].turnId = None
      BY <3>1 DEF Ledger, BoundAgrees, BoundOnce, ActiveTurns
    <3> QED
      BY <3>2, <3>3
  <2>2. ASSUME NEW i \in Places(requests'), Asks(i)'
        PROVE  /\ Holder(requests'[i].thread) # None
               /\ turns[Holder(requests'[i].thread)].turnId = None
    <3>1. CASE i \in Places(requests) /\ requests'[i] = requests[i]
      BY <2>2, <3>1 DEF Starts, StartsHeld, Asks
    <3>2. CASE requests'[i] = m
      BY <2>1, <2>2, <3>2 DEF Asks
    <3> QED
      BY <1>4, <3>1, <3>2
  <2>3. \A id \in TurnIds : Alive(id) =>
          /\ Holder(worker[id].thread) # None
          /\ turns[Holder(worker[id].thread)].turnId \in {None, id}
    BY DEF Starts, StartsHeld
  <2> QED
    BY <1>1, <1>8, <2>2, <2>3 DEF StartsHeld, Holder
<1>11. OneStart'
  <2>0. \A i \in Places(requests) : i # Len(requests) + 1
    BY DEF Places, WorkerOK
  <2>1. ASSUME NEW i \in Places(requests'), Asks(i)'
        PROVE  \/ i \in Places(requests) /\ Asks(i) /\ requests'[i] = requests[i]
               \/ /\ i = Len(requests) + 1
                  /\ Unsent(k) /\ requests'[i].thread = k.thread
    <3>1. CASE i \in Places(requests) /\ requests'[i] = requests[i]
      BY <2>1, <3>1 DEF Asks
    <3>2. CASE i = Len(requests) + 1 /\ requests'[i] = m
      BY <1>9, <2>1, <3>2 DEF Asks
    <3> QED
      BY <1>4, <3>1, <3>2
  <2>2. ASSUME NEW i \in Places(requests'), NEW j \in Places(requests'),
               Asks(i)', Asks(j)',
               requests'[i].thread = requests'[j].thread
        PROVE  i = j
    BY <2>1, <2>2 DEF Starts, OneStart
  <2>3. ASSUME NEW i \in Places(requests'), NEW id \in TurnIds,
               Asks(i)', Alive(id)
        PROVE  requests'[i].thread # worker[id].thread
    BY <2>1, <2>3 DEF Starts, OneStart
  <2>4. ASSUME NEW d \in Callers, NEW i \in Places(requests'),
               Unsent(call'[d]), Asks(i)'
        PROVE  call'[d].thread # requests'[i].thread
    <3>1. d # c /\ Unsent(call[d]) /\ call'[d] = call[d]
      BY <1>1, <1>5, <2>4
    <3>2. CASE i \in Places(requests) /\ Asks(i) /\ requests'[i] = requests[i]
      BY <3>1, <3>2 DEF Starts, OneStart
    <3>3. CASE Unsent(k) /\ requests'[i].thread = k.thread
      <4>1. /\ Owns(call[d]) /\ Owns(k)
        BY <3>1, <3>3, UnsentOwns
      <4>2. /\ k.token \in TurnTokens /\ call[d].token \in TurnTokens
        BY <4>1 DEF CallsOK, Equipped, Owns, OwnSteps, HoldingSteps
      <4>3. /\ turns[k.token] # None /\ turns[k.token].thread = k.thread
            /\ turns[call[d].token] # None
            /\ turns[call[d].token].thread = call[d].thread
            /\ k.token # call[d].token
        BY <3>1, <4>1 DEF Starts, OwnersHold
      <4>4. Holder(k.thread) = k.token /\ Holder(call[d].thread) = call[d].token
        BY <4>2, <4>3, HeldBy DEF Starts
      <4> QED
        BY <3>1, <3>3, <4>3, <4>4
    <3> QED
      BY <2>1, <2>4, <3>2, <3>3
  <2>5. ASSUME NEW d \in Callers, NEW id \in TurnIds, Unsent(call'[d]), Alive(id)
        PROVE  call'[d].thread # worker[id].thread
    BY <1>1, <1>5, <2>5 DEF Starts, OneStart
  <2>6. ASSUME NEW id \in TurnIds, NEW jd \in TurnIds, Alive(id), Alive(jd),
               worker[id].thread = worker[jd].thread
        PROVE  id = jd
    BY <2>6 DEF Starts, OneStart
  <2> QED
    BY <1>1, <1>8, <2>2, <2>3, <2>4, <2>5, <2>6 DEF OneStart
<1> QED
  BY <1>6, <1>7, <1>10, <1>11 DEF Starts

\* A request that is accepted becomes a turn of its thread.
LEMMA AcceptKeepsStarts ==
  ASSUME BridgeInv, Starts, WorkerAccepts, NextTurnId \in TurnIds,
         worker[NextTurnId] = None
  PROVE  Starts'
<1> DEFINE h == NextTurnId
           m == Head(requests)
           t == [thread |-> m.thread, rid |-> m.rid,
                 running |-> TRUE, replied |-> FALSE, announced |-> FALSE]
<1> USE DEF BridgeInv
<1>1. /\ requests # <<>> /\ m.kind = "start" /\ requests' = Tail(requests)
      /\ worker' = [worker EXCEPT ![h] = t]
      /\ UNCHANGED <<turns, byThread, completed, call>>
  BY DEF WorkerAccepts, WorkerStep, admissionVars, controllerVars
<1>2. /\ m = requests[1] /\ 1 \in Places(requests) /\ m \in Requests
      /\ m.thread \in Threads
  <2>1. 1 \in Places(requests) /\ m = requests[1]
    BY <1>1 DEF WorkerOK, Places
  <2> QED
    BY <2>1, RequestThread
<1>3. t \in WorkerTurns /\ t.thread = m.thread
  BY <1>2 DEF WorkerTurns, Requests
<1>4. /\ worker'[h] = t /\ \A id \in TurnIds : id # h => worker'[id] = worker[id]
      /\ t # None
  BY <1>1, <1>3, BridgeAssumption DEF WorkerOK
<1> HIDE DEF t, h
<1>5. Asks(1)
  BY <1>1, <1>2 DEF Asks
<1>6. \A i \in Places(requests') :
        i + 1 \in Places(requests) /\ requests'[i] = requests[i + 1] /\ i + 1 # 1
  BY <1>1 DEF Places, WorkerOK
<1>7. \A id \in TurnIds : Alive(id)' => id = h \/ (Alive(id) /\ worker'[id] = worker[id])
  BY <1>1, <1>4 DEF Alive
<1>8. h \in TurnIds
  BY DEF h
<1>9. ReservedInPlace' /\ OwnersHold'
  <2>1. \A d \in Callers : Owns(call[d])' <=> Owns(call[d])
    BY <1>1 DEF Owns
  <2> QED
    BY <1>1, <2>1 DEF Starts, ReservedInPlace, OwnersHold
<1>10. /\ Places(requests)' = Places(requests')
       /\ \A d \in Callers : Unsent(call[d])' <=> Unsent(call[d])
  BY <1>1 DEF Asks, Places, Unsent
<1>11. \A i \in Places(requests') : Asks(i)' =>
         /\ i + 1 \in Places(requests) /\ i + 1 # 1 /\ Asks(i + 1)
         /\ requests'[i] = requests[i + 1]
  BY <1>6 DEF Asks
<1>12. StartsHeld'
  <2>1. \A i \in Places(requests') : Asks(i)' =>
          /\ Holder(requests'[i].thread) # None
          /\ turns[Holder(requests'[i].thread)].turnId = None
    BY <1>11 DEF Starts, StartsHeld
  <2>2. ASSUME NEW id \in TurnIds, Alive(id)'
        PROVE  /\ Holder(worker'[id].thread) # None
               /\ turns[Holder(worker'[id].thread)].turnId \in {None, id}
    BY <1>2, <1>3, <1>4, <1>5, <1>7, <2>2 DEF Starts, StartsHeld
  <2> QED
    BY <1>1, <1>10, <2>1, <2>2 DEF StartsHeld, Holder
<1>13. OneStart'
  <2>1. ASSUME NEW i \in Places(requests'), NEW j \in Places(requests'),
               Asks(i)', Asks(j)',
               requests'[i].thread = requests'[j].thread
        PROVE  i = j
    <3>1. i + 1 = j + 1
      BY <1>11, <2>1 DEF Starts, OneStart
    <3> QED
      BY <3>1 DEF Places
  <2>2. ASSUME NEW id \in TurnIds, NEW jd \in TurnIds, Alive(id)', Alive(jd)',
               worker'[id].thread = worker'[jd].thread
        PROVE  id = jd
    BY <1>2, <1>3, <1>4, <1>5, <1>7, <2>2 DEF Starts, OneStart
  <2>3. ASSUME NEW i \in Places(requests'), NEW id \in TurnIds,
               Asks(i)', Alive(id)'
        PROVE  requests'[i].thread # worker'[id].thread
    BY <1>2, <1>3, <1>4, <1>5, <1>7, <1>11, <2>3 DEF Starts, OneStart
  <2>4. ASSUME NEW d \in Callers, NEW i \in Places(requests'),
               Unsent(call[d]), Asks(i)'
        PROVE  call[d].thread # requests'[i].thread
    BY <1>11, <2>4 DEF Starts, OneStart
  <2>5. ASSUME NEW d \in Callers, NEW id \in TurnIds, Unsent(call[d]), Alive(id)'
        PROVE  call[d].thread # worker'[id].thread
    BY <1>2, <1>3, <1>4, <1>5, <1>7, <2>5 DEF Starts, OneStart
  <2> QED
    BY <1>1, <1>10, <2>1, <2>2, <2>3, <2>4, <2>5 DEF OneStart
<1> QED
  BY <1>9, <1>12, <1>13 DEF Starts

-----------------------------------------------------------------------------
(* Numbers: a request, and the turn made of it, carry the number of one call. *)

IsStart(k) == k.step # "idle" /\ k.kind = "start"

\* The call has not written its request.
Unasked(k) == k.step \in {"session", "reserve", "revise", "choose", "stop", "send"}

Numbers ==
  /\ calls <= MaxCalls
  /\ \A c \in Callers : call[c].step # "idle" => call[c].rid \in 1 .. calls
  /\ \A c, d \in Callers :
       call[c].step # "idle" /\ call[d].step # "idle" /\ call[c].rid = call[d].rid
         => c = d
  /\ \A i \in Places(requests) : requests[i].rid \in 1 .. calls
  /\ \A i, j \in Places(requests) : requests[i].rid = requests[j].rid => i = j
  /\ \A id \in TurnIds : worker[id] # None => worker[id].rid \in 1 .. calls
  /\ \A id, jd \in TurnIds :
       worker[id] # None /\ worker[jd] # None /\ worker[id].rid = worker[jd].rid
         => id = jd
  /\ \A id \in TurnIds, i \in Places(requests) :
       worker[id] # None => worker[id].rid # requests[i].rid
  /\ \A c \in Callers, i \in Places(requests) :
       Unasked(call[c]) => requests[i].rid # call[c].rid
  /\ \A c \in Callers, id \in TurnIds :
       Unasked(call[c]) /\ worker[id] # None => worker[id].rid # call[c].rid

\* An answer that names a turn names a turn of the thread that is answered.
Fits(m) ==
  m.kind = "reply" =>
    /\ m.rid \in 1 .. calls
    /\ m.id # None =>
         \A c \in Callers : IsStart(call[c]) /\ call[c].rid = m.rid =>
           OfThread(m.id, call[c].thread)

Answers ==
  /\ \A i \in Places(requests) : Asks(i) => requests[i].id = None
  /\ \A i \in Places(channel) : Fits(channel[i])
  /\ \A c \in Callers : IsStart(call[c]) =>
       /\ Unasked(call[c]) \/ call[c].step = "waiting" => call[c].id = None
       /\ call[c].step \in {"replied", "record"} /\ call[c].id # None =>
            OfThread(call[c].id, call[c].thread)
  /\ \A c \in Callers, i \in Places(requests) :
       IsStart(call[c]) /\ requests[i].rid = call[c].rid =>
         requests[i].kind = "start" /\ requests[i].thread = call[c].thread
  /\ \A c \in Callers, id \in TurnIds :
       IsStart(call[c]) /\ worker[id] # None /\ worker[id].rid = call[c].rid =>
         worker[id].thread = call[c].thread

\* What moving on does to any call.
LEMMA CallsMove ==
  ASSUME CallsOK, Moved, NEW c \in Callers, call'[c].step # "idle"
  PROVE  /\ call[c].step # "idle" /\ call'[c].rid = call[c].rid
         /\ call'[c].kind = call[c].kind /\ call'[c].thread = call[c].thread
         /\ Unasked(call'[c]) => Unasked(call[c])
         /\ call'[c].step = "waiting" => call[c].step \in {"send", "waiting"}
         /\ \/ call'[c].id = call[c].id \/ call[c].step = "choose"
            \/ call[c].step = "waiting" /\ call'[c].step = "replied"
         /\ call'[c].step \in {"replied", "record"} =>
              \/ call[c].step \in {"replied", "record"} /\ call'[c].id = call[c].id
              \/ call[c].step = "waiting" /\ call'[c].step = "replied"
<1> DEFINE k == call[c]
           n == call'[c]
<1>1. CASE n = k
  BY <1>1
<1>2. CASE Advances(k, n)
  <2>1. n # IdleCall
    BY DEF IdleCall
  <2>2. /\ StepAfter(k.step, n.step)
        /\ n.kind = k.kind /\ n.thread = k.thread /\ n.rid = k.rid
        /\ n.id = k.id \/ k.step = "choose" \/ (k.step = "waiting" /\ n.step = "replied")
    BY <1>2, <2>1 DEF Advances
  <2>3. /\ k.step # "idle"
        /\ Unasked(n) => Unasked(k)
        /\ n.step = "waiting" => k.step = "send"
        /\ n.step = "record" => k.step = "replied"
        /\ n.step = "replied" => k.step = "waiting"
    BY <2>2 DEF StepAfter, Unasked
  <2> QED
    BY <2>2, <2>3
<1> QED
  BY <1>1, <1>2 DEF Moved

LEMMA NumbersStay ==
  ASSUME CallsOK, WorkerOK, Numbers, Moved, UNCHANGED calls,
         Shrinks(requests, requests'), WorkerKept
  PROVE  Numbers'
<1>1. PICK o \in {0, 1} : \A i \in Places(requests') :
        i + o \in Places(requests) /\ requests'[i] = requests[i + o]
  BY ShrunkQueue DEF WorkerOK
<1>2. \A c \in Callers : call'[c].step # "idle" =>
        /\ call[c].step # "idle" /\ call'[c].rid = call[c].rid
        /\ Unasked(call'[c]) => Unasked(call[c])
  BY CallsMove
<1>3. \A c \in Callers : Unasked(call'[c]) =>
        Unasked(call[c]) /\ call'[c].rid = call[c].rid
  BY <1>2 DEF Unasked
<1>4. \A id \in TurnIds : worker'[id] # None =>
        worker[id] # None /\ worker'[id].rid = worker[id].rid
  BY DEF WorkerKept
<1>5. /\ \A c \in Callers : call'[c].step # "idle" => call'[c].rid \in 1 .. calls
      /\ \A c, d \in Callers : call'[c].step # "idle" /\ call'[d].step # "idle"
                                 /\ call'[c].rid = call'[d].rid => c = d
  BY <1>2 DEF Numbers
<1>6. \A i \in Places(requests') : requests'[i].rid \in 1 .. calls
  BY <1>1 DEF Numbers
<1>7. ASSUME NEW i \in Places(requests'), NEW j \in Places(requests'),
             requests'[i].rid = requests'[j].rid
      PROVE  i = j
  <2>1. i + o = j + o
    BY <1>1, <1>7 DEF Numbers
  <2> QED
    BY <2>1 DEF Places
<1>8. /\ \A id \in TurnIds : worker'[id] # None => worker'[id].rid \in 1 .. calls
      /\ \A id, jd \in TurnIds : worker'[id] # None /\ worker'[jd] # None
           /\ worker'[id].rid = worker'[jd].rid => id = jd
  BY <1>4 DEF Numbers
<1>9. \A id \in TurnIds, i \in Places(requests') :
        worker'[id] # None => worker'[id].rid # requests'[i].rid
  BY <1>1, <1>4 DEF Numbers
<1>10. \A c \in Callers, i \in Places(requests') :
         Unasked(call'[c]) => requests'[i].rid # call'[c].rid
  BY <1>1, <1>3 DEF Numbers
<1>11. \A c \in Callers, id \in TurnIds :
         Unasked(call'[c]) /\ worker'[id] # None => worker'[id].rid # call'[c].rid
  BY <1>3, <1>4 DEF Numbers
<1>12. /\ Places(requests)' = Places(requests')
       /\ \A c \in Callers : Unasked(call[c])' <=> Unasked(call'[c])
       /\ calls <= MaxCalls
  BY DEF Places, Unasked, Numbers
<1> QED
  BY <1>5, <1>6, <1>7, <1>8, <1>9, <1>10, <1>11, <1>12 DEF Numbers

\* Answers that are delivered, and answers that are written, fit.
AnswersRight ==
  /\ \A c \in Callers :
       call'[c].step = "replied" /\ call[c].step = "waiting" /\ call'[c].id # None
         /\ IsStart(call[c]) => OfThread(call'[c].id, call[c].thread)
  /\ \A i \in Places(channel') :
       Fits(channel'[i]) \/ \E j \in Places(channel) : channel'[i] = channel[j]

LEMMA AnswersStay ==
  ASSUME CallsOK, WorkerOK, Answers, Moved, UNCHANGED calls,
         Shrinks(requests, requests'), WorkerKept, AnswersRight
  PROVE  Answers'
<1>1. PICK o \in {0, 1} : \A i \in Places(requests') :
        i + o \in Places(requests) /\ requests'[i] = requests[i + o]
  BY ShrunkQueue DEF WorkerOK
<1>2. \A c \in Callers : IsStart(call'[c]) =>
        /\ IsStart(call[c]) /\ call[c].step # "choose"
        /\ call'[c].rid = call[c].rid /\ call'[c].thread = call[c].thread
  <2>1. \A c \in Callers : call[c].step = "choose" => call[c].kind = "interrupt"
    BY DEF CallsOK, Equipped
  <2> QED
    BY <2>1, CallsMove DEF IsStart
<1>3. \A id, th : OfThread(id, th) =>
        id \in TurnIds /\ worker'[id] # None /\ worker'[id].thread = th
  BY DEF WorkerKept, OfThread
<1>4. ASSUME NEW c \in Callers, IsStart(call'[c])
      PROVE  /\ Unasked(call'[c]) \/ call'[c].step = "waiting" => call'[c].id = None
             /\ call'[c].step \in {"replied", "record"} /\ call'[c].id # None =>
                  OfThread(call'[c].id, call[c].thread)
  <2>1. /\ IsStart(call[c]) /\ call'[c].step # "idle" /\ call[c].step # "choose"
    BY <1>2, <1>4 DEF IsStart
  <2>2. /\ Unasked(call'[c]) => Unasked(call[c])
        /\ call'[c].step = "waiting" => call[c].step \in {"send", "waiting"}
        /\ \/ call'[c].id = call[c].id
           \/ call[c].step = "waiting" /\ call'[c].step = "replied"
        /\ call'[c].step \in {"replied", "record"} =>
             \/ call[c].step \in {"replied", "record"} /\ call'[c].id = call[c].id
             \/ call[c].step = "waiting" /\ call'[c].step = "replied"
    BY <2>1, CallsMove
  <2>3. Unasked(call'[c]) \/ call'[c].step = "waiting" => call'[c].id = None
    <3>1. call[c].step = "send" => Unasked(call[c])
      BY DEF Unasked
    <3>2. call'[c].step = "replied" => ~Unasked(call'[c])
      BY DEF Unasked
    <3> QED
      BY <2>1, <2>2, <3>1, <3>2 DEF Answers
  <2>4. ASSUME call'[c].step \in {"replied", "record"}, call'[c].id # None
        PROVE  OfThread(call'[c].id, call[c].thread)
    BY <2>1, <2>2, <2>4 DEF Answers, AnswersRight
  <2> QED
    BY <2>3, <2>4
<1>5. ASSUME NEW m, Fits(m)
      PROVE  m.kind = "reply" =>
               /\ m.rid \in 1 .. calls
               /\ m.id # None =>
                    \A c \in Callers : IsStart(call'[c]) /\ call'[c].rid = m.rid =>
                      /\ m.id \in TurnIds /\ worker'[m.id] # None
                      /\ worker'[m.id].thread = call'[c].thread
  BY <1>2, <1>3, <1>5 DEF Fits
<1>6. \A i \in Places(channel') : Fits(channel'[i])
  BY DEF Answers, AnswersRight
<1>7. \A i \in Places(channel') : Fits(channel[i])'
  BY <1>5, <1>6 DEF Fits, OfThread, IsStart
<1>8. \A i \in Places(requests') : requests'[i].kind = "start" => requests'[i].id = None
  BY <1>1 DEF Answers, Asks
<1>9. /\ \A c \in Callers, i \in Places(requests') :
           IsStart(call'[c]) /\ requests'[i].rid = call'[c].rid =>
             requests'[i].kind = "start" /\ requests'[i].thread = call'[c].thread
      /\ \A c \in Callers, id \in TurnIds :
           IsStart(call'[c]) /\ worker'[id] # None /\ worker'[id].rid = call'[c].rid =>
             worker'[id].thread = call'[c].thread
  BY <1>1, <1>2 DEF Answers, WorkerKept
<1>10. /\ Places(requests)' = Places(requests') /\ Places(channel)' = Places(channel')
       /\ \A c \in Callers : /\ Unasked(call[c])' <=> Unasked(call'[c])
                             /\ IsStart(call[c])' <=> IsStart(call'[c])
  BY DEF Places, Unasked, IsStart
<1>11. \A c \in Callers : IsStart(call'[c]) =>
         /\ Unasked(call'[c]) \/ call'[c].step = "waiting" => call'[c].id = None
         /\ call'[c].step \in {"replied", "record"} /\ call'[c].id # None =>
              /\ call'[c].id \in TurnIds /\ worker'[call'[c].id] # None
              /\ worker'[call'[c].id].thread = call'[c].thread
  BY <1>2, <1>3, <1>4
<1>12. \A c \in Callers : IsStart(call[c])' =>
         /\ Unasked(call[c])' \/ call'[c].step = "waiting" => call'[c].id = None
         /\ call'[c].step \in {"replied", "record"} /\ call'[c].id # None =>
              OfThread(call[c].id, call[c].thread)'
  BY <1>10, <1>11 DEF OfThread
<1>13. /\ \A i \in Places(requests)' : Asks(i)' => requests'[i].id = None
       /\ \A i \in Places(channel)' : Fits(channel[i])'
  BY <1>7, <1>8, <1>10 DEF Asks
<1> QED
  BY <1>9, <1>10, <1>12, <1>13 DEF Answers

\* A call that begins takes the next number.
Begins(c, th) ==
  \/ BeginStart(c, th)
  \/ \E kind \in {"start", "interrupt"} : BeginOther(c, th, kind)

LEMMA BeginShape ==
  ASSUME CallsOK, NEW c \in Callers, NEW th \in Threads, Begins(c, th)
  PROVE  /\ call[c].step = "idle" /\ calls < MaxCalls /\ calls' = calls + 1
         /\ call'[c] \in Calls
         /\ call'[c].step \in {"session", "reserve", "choose"}
         /\ call'[c].thread = th /\ call'[c].rid = calls + 1
         /\ call'[c].id = None /\ call'[c].revision = 0
         /\ call'[c].step = "session" => call'[c].kind = "start" /\ BeginStart(c, th)
         /\ \A d \in Callers : d # c => call'[d] = call[d]
         /\ UNCHANGED <<display, revisions, nextRevision, turnVars>>
         /\ UNCHANGED <<clientVars, workerVars>>
         /\ ReserveOperation(c, "operation")
<1>1. PICK kind \in {"start", "interrupt"}, s \in {"session", "reserve", "choose"} :
        /\ s = "session" => BeginStart(c, th) /\ kind = "start"
        /\ call' = [call EXCEPT ![c] = [IdleCall EXCEPT !.step = s, !.kind = kind,
                                         !.thread = th, !.rid = calls']]
  BY DEF Begins, BeginStart, BeginOther
<1> DEFINE n == [IdleCall EXCEPT !.step = s, !.kind = kind, !.thread = th,
                                 !.rid = calls']
<1>2. /\ calls' = calls + 1 /\ UNCHANGED <<display, revisions, nextRevision>>
      /\ UNCHANGED <<clientVars, workerVars>>
      /\ call[c].step = "idle" /\ calls < MaxCalls
      /\ ReserveOperation(c, "operation")
  BY DEF Begins, BeginStart, BeginOther
<1>3. calls' \in Nat
  BY <1>2 DEF CallsOK
<1>4. /\ n \in Calls /\ n.step = s /\ n.thread = th /\ n.kind = kind
      /\ n.rid = calls' /\ n.id = None /\ n.revision = 0
  BY <1>3 DEF IdleCall, Calls, CallSteps
<1>5. call'[c] = n /\ \A d \in Callers : d # c => call'[d] = call[d]
  BY <1>1 DEF CallsOK
<1>6. UNCHANGED turnVars
  BY <1>2 DEF ReserveOperation
<1> HIDE DEF n
<1> QED
  BY <1>1, <1>2, <1>4, <1>5, <1>6

LEMMA BeginKeepsNumbers ==
  ASSUME CallsOK, Numbers, NEW c \in Callers, NEW th \in Threads, Begins(c, th)
  PROVE  Numbers'
<1>1. /\ call[c].step = "idle" /\ calls < MaxCalls /\ calls' = calls + 1
      /\ call'[c].rid = calls + 1
      /\ \A d \in Callers : d # c => call'[d] = call[d]
      /\ UNCHANGED <<requests, worker>>
  BY BeginShape DEF workerVars
<1>2. calls \in Nat /\ MaxCalls \in Nat
  BY BridgeAssumption DEF CallsOK
<1>3. calls' <= MaxCalls
  BY <1>1, <1>2
<1>4. \A x : x \in 1 .. calls => x \in 1 .. calls' /\ x # calls + 1
  BY <1>1, <1>2
<1>5. /\ \A d \in Callers : call'[d].step # "idle" => call'[d].rid \in 1 .. calls'
      /\ \A d, e \in Callers : call'[d].step # "idle" /\ call'[e].step # "idle"
                                 /\ call'[d].rid = call'[e].rid => d = e
  BY <1>1, <1>2, <1>4 DEF Numbers
<1>6. /\ \A i \in Places(requests) : requests[i].rid \in 1 .. calls'
                                     /\ requests[i].rid # calls + 1
      /\ \A id \in TurnIds : worker[id] # None =>
           worker[id].rid \in 1 .. calls' /\ worker[id].rid # calls + 1
  BY <1>4 DEF Numbers
<1>7. \A d \in Callers, i \in Places(requests) :
        Unasked(call'[d]) => requests[i].rid # call'[d].rid
  BY <1>1, <1>6 DEF Numbers
<1>8. \A d \in Callers, id \in TurnIds :
        Unasked(call'[d]) /\ worker[id] # None => worker[id].rid # call'[d].rid
  BY <1>1, <1>6 DEF Numbers
<1>9. /\ Places(requests)' = Places(requests)
      /\ \A d \in Callers : Unasked(call[d])' <=> Unasked(call'[d])
  BY <1>1 DEF Places, Unasked
<1> QED
  BY <1>1, <1>3, <1>5, <1>6, <1>7, <1>8, <1>9 DEF Numbers

LEMMA BeginKeepsAnswers ==
  ASSUME CallsOK, Numbers, Answers, NEW c \in Callers, NEW th \in Threads,
         Begins(c, th)
  PROVE  Answers'
<1>1. /\ calls' = calls + 1 /\ call'[c].rid = calls + 1 /\ call'[c].id = None
      /\ call'[c].step \in {"session", "reserve", "choose"}
      /\ \A d \in Callers : d # c => call'[d] = call[d]
      /\ UNCHANGED <<requests, worker, channel>>
  BY BeginShape DEF workerVars
<1>2. calls \in Nat
  BY DEF CallsOK
<1>3. \A x : x \in 1 .. calls => x \in 1 .. calls' /\ x # calls + 1
  BY <1>1, <1>2
<1>4. ASSUME NEW m, Fits(m)
      PROVE  m.kind = "reply" =>
               /\ m.rid \in 1 .. calls'
               /\ m.id # None =>
                    \A d \in Callers : IsStart(call'[d]) /\ call'[d].rid = m.rid =>
                      OfThread(m.id, call'[d].thread)
  BY <1>1, <1>3, <1>4 DEF Fits
<1>5. \A id, t : OfThread(id, t)' <=> OfThread(id, t)
  BY <1>1 DEF OfThread
<1>6. \A i \in Places(channel) : Fits(channel[i])
  BY DEF Answers
<1>7. \A i \in Places(channel) : Fits(channel[i])'
  BY <1>1, <1>4, <1>6 DEF Fits, OfThread, IsStart
<1>8. \A d \in Callers : IsStart(call'[d]) =>
        /\ Unasked(call'[d]) \/ call'[d].step = "waiting" => call'[d].id = None
        /\ call'[d].step \in {"replied", "record"} /\ call'[d].id # None =>
             OfThread(call'[d].id, call'[d].thread)
  BY <1>1 DEF Answers
<1>9. \A d \in Callers, i \in Places(requests) :
        IsStart(call'[d]) /\ requests[i].rid = call'[d].rid =>
          requests[i].kind = "start" /\ requests[i].thread = call'[d].thread
  <2>1. \A i \in Places(requests) : requests[i].rid # calls + 1
    BY <1>3 DEF Numbers
  <2> QED
    BY <1>1, <2>1 DEF Answers
<1>10. \A d \in Callers, id \in TurnIds :
         IsStart(call'[d]) /\ worker[id] # None /\ worker[id].rid = call'[d].rid =>
           worker[id].thread = call'[d].thread
  <2>1. \A id \in TurnIds : worker[id] # None => worker[id].rid # calls + 1
    BY <1>3 DEF Numbers
  <2> QED
    BY <1>1, <2>1 DEF Answers
<1>11. /\ Places(requests)' = Places(requests) /\ Places(channel)' = Places(channel)
       /\ \A d \in Callers : /\ Unasked(call[d])' <=> Unasked(call'[d])
                             /\ IsStart(call[d])' <=> IsStart(call'[d])
  BY <1>1 DEF Places, Unasked, IsStart
<1>12. \A d \in Callers : IsStart(call[d])' =>
         /\ Unasked(call[d])' \/ call'[d].step = "waiting" => call'[d].id = None
         /\ call'[d].step \in {"replied", "record"} /\ call'[d].id # None =>
              OfThread(call[d].id, call[d].thread)'
  BY <1>1, <1>8, <1>11 DEF OfThread
<1>13. /\ \A i \in Places(requests)' : Asks(i)' => requests'[i].id = None
       /\ \A i \in Places(channel)' : Fits(channel[i])'
  BY <1>1, <1>7, <1>11 DEF Answers, Asks
<1> QED
  BY <1>1, <1>9, <1>10, <1>11, <1>12, <1>13 DEF Answers

\* What a request adds to the queue.
LEMMA SendShape ==
  ASSUME BridgeInv, NEW c \in Callers, Send(c), Connected
  PROVE  \E m \in Requests :
           /\ m.kind = call[c].kind /\ m.rid = call[c].rid
           /\ m.thread = call[c].thread /\ m.id = call[c].id
           /\ requests' = Append(requests, m)
           /\ \A i \in Places(requests') :
                \/ i \in Places(requests) /\ requests'[i] = requests[i]
                \/ i = Len(requests) + 1 /\ requests'[i] = m
<1> DEFINE k == call[c]
           m == [kind |-> k.kind, rid |-> k.rid, thread |-> k.thread, id |-> k.id]
<1>1. /\ k \in Calls /\ Equipped(k) /\ k.step = "send"
      /\ requests' = Append(requests, m)
  BY DEF Send, BridgeInv, CallsOK
<1>2. m \in Requests
  BY <1>1 DEF Calls, Equipped, Requests
<1>3. /\ m.kind = k.kind /\ m.rid = k.rid /\ m.thread = k.thread /\ m.id = k.id
  OBVIOUS
<1>4. requests \in Seq(Requests)
  BY DEF BridgeInv, WorkerOK
<1> HIDE DEF m
<1>5. \A i \in Places(requests') :
        \/ i \in Places(requests) /\ requests'[i] = requests[i]
        \/ i = Len(requests) + 1 /\ requests'[i] = m
  BY <1>1, <1>2, <1>4, GrownQueue
<1> QED
  BY <1>1, <1>2, <1>3, <1>5

LEMMA SendKeepsNumbers ==
  ASSUME BridgeInv, Numbers, Answers, NEW c \in Callers, Send(c), Connected
  PROVE  Numbers' /\ Answers'
<1> DEFINE k == call[c]
           n == call'[c]
<1> USE DEF BridgeInv
<1>1. /\ k \in Calls /\ k.step = "send" /\ n = [k EXCEPT !.step = "waiting"]
      /\ \A d \in Callers : d # c => call'[d] = call[d]
      /\ UNCHANGED <<calls, worker, channel>>
  BY DEF Send, CallsOK
<1>2. /\ n.step = "waiting" /\ n.kind = k.kind /\ n.thread = k.thread
      /\ n.rid = k.rid /\ n.id = k.id
  BY <1>1 DEF Calls
<1>3. PICK m \in Requests :
        /\ m.kind = k.kind /\ m.rid = k.rid
        /\ m.thread = k.thread /\ m.id = k.id
        /\ \A i \in Places(requests') :
             \/ i \in Places(requests) /\ requests'[i] = requests[i]
             \/ i = Len(requests) + 1 /\ requests'[i] = m
  BY SendShape
<1>4. /\ k.rid \in 1 .. calls
      /\ \A i \in Places(requests) : requests[i].rid # k.rid
      /\ \A id \in TurnIds : worker[id] # None => worker[id].rid # k.rid
  BY <1>1 DEF Numbers, Unasked
<1>5. \A d \in Callers : /\ call'[d].step # "idle" => call[d].step # "idle"
                         /\ call'[d].rid = call[d].rid
                         /\ Unasked(call'[d]) => Unasked(call[d]) /\ d # c
  BY <1>1, <1>2 DEF Unasked
<1>6. /\ Places(requests)' = Places(requests') /\ Places(channel)' = Places(channel)
      /\ \A d \in Callers : /\ Unasked(call[d])' <=> Unasked(call'[d])
                            /\ IsStart(call[d])' <=> IsStart(call'[d])
  BY <1>1 DEF Places, Unasked, IsStart
<1>7. Numbers'
  <2>1. /\ \A d \in Callers : call'[d].step # "idle" => call'[d].rid \in 1 .. calls
        /\ \A d, e \in Callers : call'[d].step # "idle" /\ call'[e].step # "idle"
                                   /\ call'[d].rid = call'[e].rid => d = e
    BY <1>5 DEF Numbers
  <2>2. \A i \in Places(requests') : requests'[i].rid \in 1 .. calls
    BY <1>3, <1>4 DEF Numbers
  <2>3. \A i, j \in Places(requests') : requests'[i].rid = requests'[j].rid => i = j
    BY <1>3, <1>4 DEF Numbers
  <2>4. \A id \in TurnIds, i \in Places(requests') :
          worker[id] # None => worker[id].rid # requests'[i].rid
    BY <1>3, <1>4 DEF Numbers
  <2>5. \A d \in Callers, i \in Places(requests') :
          Unasked(call'[d]) => requests'[i].rid # call'[d].rid
    <3> SUFFICES ASSUME NEW d \in Callers, NEW i \in Places(requests'),
                        Unasked(call'[d])
                 PROVE  requests'[i].rid # call'[d].rid
      OBVIOUS
    <3>1. Unasked(call[d]) /\ d # c /\ call'[d].rid = call[d].rid
      BY <1>5
    <3>2. call[d].rid # k.rid
      BY <1>1, <3>1 DEF Numbers, Unasked
    <3> QED
      BY <1>3, <3>1, <3>2 DEF Numbers
  <2>6. \A d \in Callers, id \in TurnIds :
          Unasked(call'[d]) /\ worker[id] # None => worker[id].rid # call'[d].rid
    BY <1>5 DEF Numbers
  <2>7. /\ calls <= MaxCalls
        /\ \A id \in TurnIds : worker[id] # None => worker[id].rid \in 1 .. calls
        /\ \A id, jd \in TurnIds : worker[id] # None /\ worker[jd] # None
             /\ worker[id].rid = worker[jd].rid => id = jd
    BY DEF Numbers
  <2> QED
    BY <1>1, <1>6, <2>1, <2>2, <2>3, <2>4, <2>5, <2>6, <2>7 DEF Numbers
<1>8. Answers'
  <2>1. \A d \in Callers : IsStart(call'[d]) =>
          /\ IsStart(call[d]) /\ call'[d].rid = call[d].rid
          /\ call'[d].thread = call[d].thread /\ call'[d].id = call[d].id
          /\ Unasked(call'[d]) => Unasked(call[d])
          /\ call'[d].step = "waiting" => Unasked(call[d]) \/ call[d].step = "waiting"
          /\ call'[d].step \in {"replied", "record"} =>
               call[d].step \in {"replied", "record"}
    BY <1>1, <1>2 DEF IsStart, Unasked
  <2>2. \A i \in Places(channel) : Fits(channel[i])'
    <3>1. \A i \in Places(channel) : Fits(channel[i])
      BY DEF Answers
    <3> QED
      BY <1>1, <2>1, <3>1 DEF Fits, OfThread, IsStart
  <2>3. \A i \in Places(requests') : requests'[i].kind = "start" => requests'[i].id = None
    <3>1. k.kind = "start" => k.id = None
      BY <1>1 DEF Answers, IsStart, Unasked
    <3> QED
      BY <1>3, <3>1 DEF Answers, Asks
  <2>4. \A d \in Callers : IsStart(call'[d]) =>
          /\ Unasked(call'[d]) \/ call'[d].step = "waiting" => call'[d].id = None
          /\ call'[d].step \in {"replied", "record"} /\ call'[d].id # None =>
               OfThread(call'[d].id, call'[d].thread)
    BY <2>1 DEF Answers
  <2>5. \A d \in Callers : IsStart(call[d])' =>
          /\ Unasked(call[d])' \/ call'[d].step = "waiting" => call'[d].id = None
          /\ call'[d].step \in {"replied", "record"} /\ call'[d].id # None =>
               OfThread(call[d].id, call[d].thread)'
    BY <1>1, <1>6, <2>4 DEF OfThread
  <2>6. \A d \in Callers, i \in Places(requests') :
          IsStart(call'[d]) /\ requests'[i].rid = call'[d].rid =>
            requests'[i].kind = "start" /\ requests'[i].thread = call'[d].thread
    <3> SUFFICES ASSUME NEW d \in Callers, NEW i \in Places(requests'),
                        IsStart(call'[d]), requests'[i].rid = call'[d].rid
                 PROVE  /\ requests'[i].kind = "start"
                        /\ requests'[i].thread = call'[d].thread
      OBVIOUS
    <3>1. CASE i \in Places(requests) /\ requests'[i] = requests[i]
      BY <2>1, <3>1 DEF Answers
    <3>2. CASE requests'[i] = m
      <4>1. call[d].rid = k.rid /\ call[d].step # "idle"
        BY <1>3, <2>1, <3>2 DEF IsStart
      <4>2. d = c
        BY <1>1, <4>1 DEF Numbers
      <4> QED
        BY <1>2, <1>3, <3>2, <4>2 DEF IsStart
    <3> QED
      BY <1>3, <3>1, <3>2
  <2>7. \A d \in Callers, id \in TurnIds :
          IsStart(call'[d]) /\ worker[id] # None /\ worker[id].rid = call'[d].rid =>
            worker[id].thread = call'[d].thread
    BY <2>1 DEF Answers
  <2>8. /\ \A i \in Places(requests)' : Asks(i)' => requests'[i].id = None
        /\ \A i \in Places(channel)' : Fits(channel[i])'
    BY <1>6, <2>2, <2>3 DEF Asks
  <2> QED
    BY <1>1, <1>6, <2>5, <2>6, <2>7, <2>8 DEF Answers
<1> QED
  BY <1>7, <1>8

-----------------------------------------------------------------------------
(* The worker numbers its turns in the order in which it accepts them. *)

InOrder == \E n \in 0 .. MaxCalls : \A id \in TurnIds : worker[id] # None <=> id <= n

\* There are as many turn ids as calls, and the request at hand needs one.
LEMMA RoomForTurn ==
  ASSUME BridgeInv, Numbers, requests # <<>>, NEW n \in 0 .. MaxCalls,
         \A id \in TurnIds : worker[id] # None <=> id <= n
  PROVE  n < MaxCalls
<1> SUFFICES ASSUME n = MaxCalls PROVE FALSE
  BY BridgeAssumption
<1> DEFINE S == 1 .. MaxCalls
           x == requests[1].rid
           T == S \ {x}
           f == [id \in S |-> worker[id].rid]
<1>1. MaxCalls \in Nat /\ TurnIds = S
  BY BridgeAssumption
<1>2. IsFiniteSet(S) /\ Cardinality(S) = MaxCalls
  BY <1>1, FS_Interval
<1>3. 1 \in Places(requests)
  BY DEF BridgeInv, WorkerOK, Places
<1>4. calls \in Nat /\ calls <= MaxCalls
  BY DEF BridgeInv, CallsOK, Numbers
<1>5. x \in S
  BY <1>1, <1>3, <1>4 DEF Numbers
<1>6. IsFiniteSet(T) /\ Cardinality(T) = MaxCalls - 1
  BY <1>2, <1>5, FS_RemoveElement
<1>7. \A id \in S : worker[id] # None
  BY <1>1
<1>8. f \in [S -> T]
  BY <1>1, <1>3, <1>4, <1>7 DEF Numbers
<1>9. \A i, j \in S : f[i] = f[j] => i = j
  BY <1>1, <1>7 DEF Numbers
<1>10. Cardinality(T) < Cardinality(S)
  BY <1>1, <1>2, <1>6
<1> HIDE DEF S, T, f
<1> QED
  BY <1>2, <1>6, <1>8, <1>9, <1>10, FS_PigeonHole

LEMMA NextTurn ==
  ASSUME BridgeInv, Numbers, InOrder, requests # <<>>
  PROVE  /\ NextTurnId \in TurnIds /\ worker[NextTurnId] = None
         /\ \A id \in TurnIds : worker[id] # None <=> id < NextTurnId
<1>1. PICK n \in 0 .. MaxCalls : \A id \in TurnIds : worker[id] # None <=> id <= n
  BY DEF InOrder
<1>2. n < MaxCalls
  BY <1>1, RoomForTurn
<1>3. MaxCalls \in Nat /\ TurnIds = 1 .. MaxCalls
  BY BridgeAssumption
<1>4. n + 1 \in TurnIds /\ \A id \in TurnIds : id <= n <=> id < n + 1
  BY <1>1, <1>2, <1>3
<1> DEFINE P(id) == worker[id] = None /\ \A other \in 1 .. (id - 1) : worker[other] # None
<1>5. P(n + 1)
  BY <1>1, <1>2, <1>3
<1>6. ASSUME NEW id \in TurnIds, P(id) PROVE id = n + 1
  <2>1. ~(id <= n)
    BY <1>1, <1>6
  <2>2. ~(n + 1 < id)
    <3>1. n + 1 < id => n + 1 \in 1 .. (id - 1)
      BY <1>2, <1>3
    <3> QED
      BY <1>1, <1>4, <1>6, <3>1
  <2> QED
    BY <1>3, <2>1, <2>2
<1>7. NextTurnId = CHOOSE id \in TurnIds : P(id)
  BY DEF NextTurnId
<1>8. NextTurnId = n + 1
  <2> HIDE DEF P
  <2> QED
    BY <1>4, <1>5, <1>6, <1>7
<1> HIDE DEF P
<1>9. worker[n + 1] = None
  BY <1>5 DEF P
<1> QED
  BY <1>1, <1>4, <1>8, <1>9

LEMMA AcceptShape ==
  ASSUME BridgeInv, Numbers, InOrder, WorkerAccepts
  PROVE  /\ requests # <<>> /\ 1 \in Places(requests)
         /\ Asks(1) /\ requests[1].thread \in Threads
         /\ NextTurnId \in TurnIds /\ worker[NextTurnId] = None
         /\ worker'[NextTurnId] \in WorkerTurns
         /\ worker'[NextTurnId].thread = requests[1].thread
         /\ worker'[NextTurnId].rid = requests[1].rid
         /\ ~worker'[NextTurnId].announced
         /\ \A id \in TurnIds : id # NextTurnId => worker'[id] = worker[id]
         /\ \A i \in Places(requests') :
              i + 1 \in Places(requests) /\ requests'[i] = requests[i + 1]
<1> DEFINE m == Head(requests)
           t == [thread |-> m.thread, rid |-> m.rid,
                 running |-> TRUE, replied |-> FALSE, announced |-> FALSE]
<1>1. /\ requests # <<>> /\ m.kind = "start" /\ requests' = Tail(requests)
      /\ worker' = [worker EXCEPT ![NextTurnId] = t]
  BY DEF WorkerAccepts
<1>2. m = requests[1] /\ 1 \in Places(requests)
  BY <1>1 DEF BridgeInv, WorkerOK, Places
<1>3. m \in Requests /\ m.thread \in Threads
  BY <1>2, RequestThread DEF BridgeInv
<1>4. /\ t \in WorkerTurns /\ t.thread = m.thread /\ t.rid = m.rid /\ ~t.announced
  BY <1>3 DEF WorkerTurns, Requests
<1>5. NextTurnId \in TurnIds /\ worker[NextTurnId] = None
  BY <1>1, NextTurn
<1> HIDE DEF t, m
<1>6. /\ worker'[NextTurnId] = t
      /\ \A id \in TurnIds : id # NextTurnId => worker'[id] = worker[id]
  BY <1>1, <1>5 DEF BridgeInv, WorkerOK
<1>7. \A i \in Places(requests') :
        i + 1 \in Places(requests) /\ requests'[i] = requests[i + 1]
  BY <1>1 DEF BridgeInv, WorkerOK, Places
<1>8. Asks(1)
  BY <1>1, <1>2 DEF Asks
<1> QED
  BY <1>1, <1>2, <1>3, <1>4, <1>5, <1>6, <1>7, <1>8

LEMMA AcceptKeepsNumbers ==
  ASSUME BridgeInv, Numbers, Answers, InOrder, WorkerAccepts
  PROVE  Numbers' /\ Answers' /\ InOrder'
<1> DEFINE h == NextTurnId
<1> USE DEF BridgeInv
<1>1. /\ 1 \in Places(requests) /\ Asks(1)
      /\ h \in TurnIds /\ worker[h] = None /\ worker'[h] # None
      /\ worker'[h].thread = requests[1].thread
      /\ worker'[h].rid = requests[1].rid
      /\ \A id \in TurnIds : id # h => worker'[id] = worker[id]
      /\ \A i \in Places(requests') :
           i + 1 \in Places(requests) /\ requests'[i] = requests[i + 1]
  BY AcceptShape, BridgeAssumption
<1>2. UNCHANGED <<calls, call, channel>>
  BY DEF WorkerAccepts, WorkerStep, controllerVars
<1>3. \A i \in Places(requests') : i + 1 # 1 /\ i \in Nat
  BY DEF Places
<1>4. \A i \in Places(requests') : requests'[i].rid # requests[1].rid
  BY <1>1, <1>3 DEF Numbers
<1>5. \A id \in TurnIds : worker'[id] # None => id = h \/ worker[id] # None
  BY <1>1
<1>6. InOrder'
  <2>1. requests # <<>>
    BY DEF WorkerAccepts
  <2>2. \A id \in TurnIds : worker[id] # None <=> id < h
    BY <2>1, NextTurn
  <2>3. TurnIds = 1 .. MaxCalls /\ MaxCalls \in Nat
    BY BridgeAssumption
  <2>4. \A id \in TurnIds : worker'[id] # None <=> id <= h
    BY <1>1, <2>2, <2>3
  <2>5. h \in 0 .. MaxCalls
    BY <1>1, <2>3
  <2> HIDE DEF h
  <2> QED
    BY <2>4, <2>5 DEF InOrder
<1> HIDE DEF h
<1>7. Numbers'
  <2>1. \A i \in Places(requests') : requests'[i].rid \in 1 .. calls
    BY <1>1 DEF Numbers
  <2>2. ASSUME NEW i \in Places(requests'), NEW j \in Places(requests'),
               requests'[i].rid = requests'[j].rid
        PROVE  i = j
    <3>1. i + 1 = j + 1
      BY <1>1, <2>2 DEF Numbers
    <3> QED
      BY <1>3, <3>1
  <2>3. /\ \A id \in TurnIds : worker'[id] # None => worker'[id].rid \in 1 .. calls
        /\ \A id, jd \in TurnIds : worker'[id] # None /\ worker'[jd] # None
             /\ worker'[id].rid = worker'[jd].rid => id = jd
    BY <1>1, <1>5 DEF Numbers
  <2>4. \A id \in TurnIds, i \in Places(requests') :
          worker'[id] # None => worker'[id].rid # requests'[i].rid
    BY <1>1, <1>4, <1>5 DEF Numbers
  <2>5. \A c \in Callers, i \in Places(requests') :
          Unasked(call[c]) => requests'[i].rid # call[c].rid
    BY <1>1 DEF Numbers
  <2>6. \A c \in Callers, id \in TurnIds :
          Unasked(call[c]) /\ worker'[id] # None => worker'[id].rid # call[c].rid
    BY <1>1, <1>5 DEF Numbers
  <2>7. /\ calls <= MaxCalls
        /\ \A c \in Callers : call[c].step # "idle" => call[c].rid \in 1 .. calls
        /\ \A c, d \in Callers : call[c].step # "idle" /\ call[d].step # "idle"
             /\ call[c].rid = call[d].rid => c = d
    BY DEF Numbers
  <2>8. /\ Places(requests)' = Places(requests')
        /\ \A c \in Callers : Unasked(call[c])' <=> Unasked(call[c])
    BY <1>2 DEF Places, Unasked
  <2> QED
    BY <1>2, <2>1, <2>2, <2>3, <2>4, <2>5, <2>6, <2>7, <2>8 DEF Numbers
<1>8. Answers'
  <2>1. \A id, th : OfThread(id, th) =>
          id \in TurnIds /\ worker'[id] # None /\ worker'[id].thread = th
    BY <1>1 DEF OfThread
  <2>2. \A i \in Places(channel) : Fits(channel[i])'
    <3>1. \A i \in Places(channel) : Fits(channel[i])
      BY DEF Answers
    <3>2. ASSUME NEW m, Fits(m)
          PROVE  m.kind = "reply" =>
                   /\ m.rid \in 1 .. calls
                   /\ m.id # None =>
                        \A c \in Callers : IsStart(call[c]) /\ call[c].rid = m.rid =>
                          /\ m.id \in TurnIds /\ worker'[m.id] # None
                          /\ worker'[m.id].thread = call[c].thread
      BY <2>1, <3>2 DEF Fits
    <3> QED
      BY <1>2, <3>1, <3>2 DEF Fits, OfThread, IsStart
  <2>3. \A i \in Places(requests') : requests'[i].kind = "start" => requests'[i].id = None
    BY <1>1 DEF Answers, Asks
  <2>4. \A c \in Callers : IsStart(call[c]) =>
          /\ Unasked(call[c]) \/ call[c].step = "waiting" => call[c].id = None
          /\ call[c].step \in {"replied", "record"} /\ call[c].id # None =>
               /\ call[c].id \in TurnIds /\ worker'[call[c].id] # None
               /\ worker'[call[c].id].thread = call[c].thread
    BY <2>1 DEF Answers
  <2>5. /\ Places(requests)' = Places(requests') /\ Places(channel)' = Places(channel)
        /\ \A c \in Callers : /\ Unasked(call[c])' <=> Unasked(call[c])
                              /\ IsStart(call[c])' <=> IsStart(call[c])
    BY <1>2 DEF Places, Unasked, IsStart
  <2>6. \A c \in Callers : IsStart(call[c])' =>
          /\ Unasked(call[c])' \/ call[c].step = "waiting" => call[c].id = None
          /\ call[c].step \in {"replied", "record"} /\ call[c].id # None =>
               OfThread(call[c].id, call[c].thread)'
    BY <1>2, <2>4, <2>5 DEF OfThread
  <2>7. \A c \in Callers, i \in Places(requests') :
          IsStart(call[c]) /\ requests'[i].rid = call[c].rid =>
            requests'[i].kind = "start" /\ requests'[i].thread = call[c].thread
    BY <1>1 DEF Answers
  <2>8. \A c \in Callers, id \in TurnIds :
          IsStart(call[c]) /\ worker'[id] # None /\ worker'[id].rid = call[c].rid =>
            worker'[id].thread = call[c].thread
    BY <1>1, <1>5 DEF Answers
  <2>9. /\ \A i \in Places(requests)' : Asks(i)' => requests'[i].id = None
        /\ \A i \in Places(channel)' : Fits(channel[i])'
    BY <2>2, <2>3, <2>5 DEF Asks
  <2> QED
    BY <1>2, <2>5, <2>6, <2>7, <2>8, <2>9 DEF Answers
<1> QED
  BY <1>6, <1>7, <1>8

-----------------------------------------------------------------------------
(* The events of a turn. *)

TurnNews(m) == m.kind \in {"started", "completed"}

\* An event of a turn is of a turn the worker has announced, and has ended if so
\* the event says.
Genuine(m) ==
  TurnNews(m) => /\ OfThread(m.id, m.thread) /\ worker[m.id].announced
                 /\ m.kind = "completed" => ~worker[m.id].running

Silent(id) ==
  /\ \A i \in Places(channel) : TurnNews(channel[i]) => channel[i].id # id
  /\ reader.step = "reserved" /\ TurnNews(reader.event) => reader.event.id # id

\* The worker has ended the turn, and nothing of it is left to read.
Over(id, th) == OfThread(id, th) /\ ~worker[id].running /\ Silent(id)

\* The end of a turn is the last that is heard of it.
Events ==
  /\ \A i \in Places(channel) : Genuine(channel[i])
  /\ reader.step \in {"reserved", "accepted"} => Genuine(reader.event)
  /\ \A i, j \in Places(channel) :
       i < j /\ channel[i].kind = "completed" /\ TurnNews(channel[j])
         => channel[j].id # channel[i].id
  /\ reader.step = "reserved" /\ reader.event.kind = "completed" =>
       \A i \in Places(channel) :
         TurnNews(channel[i]) => channel[i].id # reader.event.id

\* What the ledger takes for ended has ended.
Ends ==
  /\ \A r \in TurnTokens : turns[r] # None /\ turns[r].earlyCompleted =>
       Over(turns[r].earlyId, turns[r].thread)
  /\ \A th \in Threads, id \in TurnIds :
       <<App, th, id>> \in completed => Over(id, th)

-----------------------------------------------------------------------------
(* How events flow, and how the ledger takes them. *)

\* A new event of a turn is written while the turn runs; the reader reads what was
\* written.
Flow ==
  /\ \A id \in TurnIds : worker[id] # None =>
       /\ worker'[id] # None /\ worker'[id].thread = worker[id].thread
       /\ worker'[id].running => worker[id].running
       /\ worker[id].announced => worker'[id].announced
  /\ \A i \in Places(channel') : TurnNews(channel'[i]) =>
       \/ \E j \in Places(channel) : channel'[i] = channel[j]
       \/ worker[channel'[i].id].running
  /\ reader'.step = "reserved" =>
       \/ reader.step = "reserved" /\ reader'.event = reader.event
       \/ \E j \in Places(channel) : reader'.event = channel[j]

\* The same, of the state after a step.
OverThen(id, th) ==
  /\ id \in TurnIds /\ worker'[id] # None /\ worker'[id].thread = th
  /\ ~worker'[id].running
  /\ \A i \in Places(channel') : TurnNews(channel'[i]) => channel'[i].id # id
  /\ reader'.step = "reserved" /\ TurnNews(reader'.event) => reader'.event.id # id

\* What the ledger newly takes for ended is over.
LedgerFollows ==
  /\ \A r \in TurnTokens : turns'[r] # None /\ turns'[r].earlyCompleted =>
       \/ /\ turns[r] # None /\ turns[r].earlyCompleted
          /\ turns'[r].earlyId = turns[r].earlyId
          /\ turns'[r].thread = turns[r].thread
       \/ OverThen(turns'[r].earlyId, turns'[r].thread)
  /\ \A th \in Threads, id \in TurnIds :
       <<App, th, id>> \in completed' =>
         <<App, th, id>> \in completed \/ OverThen(id, th)

LEMMA OverStays ==
  ASSUME Flow, NEW id, NEW th, Over(id, th)
  PROVE  OverThen(id, th)
<1>1. /\ id \in TurnIds /\ worker[id] # None /\ worker[id].thread = th
      /\ ~worker[id].running
  BY DEF Over, OfThread
<1>2. /\ worker'[id] # None /\ worker'[id].thread = th /\ ~worker'[id].running
  BY <1>1 DEF Flow
<1>3. \A j \in Places(channel) : TurnNews(channel[j]) => channel[j].id # id
  BY DEF Over, Silent
<1>4. ASSUME NEW i \in Places(channel'), TurnNews(channel'[i])
      PROVE  channel'[i].id # id
  BY <1>1, <1>3, <1>4 DEF Flow
<1>5. reader'.step = "reserved" /\ TurnNews(reader'.event) => reader'.event.id # id
  BY <1>3 DEF Flow, Over, Silent
<1> QED
  BY <1>1, <1>2, <1>4, <1>5 DEF OverThen

LEMMA EndsStay ==
  ASSUME Ends, Flow, LedgerFollows
  PROVE  Ends'
<1>1. ASSUME NEW r \in TurnTokens, turns'[r] # None, turns'[r].earlyCompleted
      PROVE  OverThen(turns'[r].earlyId, turns'[r].thread)
  <2>1. CASE /\ turns[r] # None /\ turns[r].earlyCompleted
             /\ turns'[r].earlyId = turns[r].earlyId
             /\ turns'[r].thread = turns[r].thread
    <3>1. Over(turns[r].earlyId, turns[r].thread)
      BY <2>1 DEF Ends
    <3>2. OverThen(turns[r].earlyId, turns[r].thread)
      BY <3>1, OverStays
    <3> QED
      BY <2>1, <3>2
  <2> QED
    BY <1>1, <2>1 DEF LedgerFollows
<1>2. ASSUME NEW th \in Threads, NEW id \in TurnIds, <<App, th, id>> \in completed'
      PROVE  OverThen(id, th)
  <2>1. <<App, th, id>> \in completed => Over(id, th)
    BY DEF Ends
  <2> QED
    BY <1>2, <2>1, OverStays DEF LedgerFollows
<1> QED
  BY <1>1, <1>2 DEF Ends, OverThen, Over, OfThread, Silent, Places, TurnNews

\* The turns of the worker only go on, and news is written while its turn runs; the
\* reader takes the oldest message or handles the one it has.
TurnsGoOn ==
  \A id \in TurnIds : worker[id] # None =>
    /\ worker'[id] # None /\ worker'[id].thread = worker[id].thread
    /\ worker'[id].running => worker[id].running
    /\ worker[id].announced => worker'[id].announced

GenuineThen(m) ==
  TurnNews(m) =>
    /\ m.id \in TurnIds /\ worker'[m.id] # None /\ worker'[m.id].thread = m.thread
    /\ worker'[m.id].announced
    /\ m.kind = "completed" => ~worker'[m.id].running

ReaderGoesOn ==
  /\ reader'.step = "reserved" => reader.step = "reserved" /\ reader'.event = reader.event
  /\ reader'.step = "accepted" =>
       reader.step \in {"reserved", "accepted"} /\ reader'.event = reader.event

Read ==
  /\ channel # <<>> /\ channel' = Tail(channel)
  /\ reader'.step = "reserved" => reader'.event = channel[1]
  /\ reader'.step # "accepted"

Told ==
  \/ UNCHANGED channel /\ ReaderGoesOn
  \/ Read
  \/ /\ UNCHANGED reader
     /\ \E m \in Messages :
          /\ channel' = Append(channel, m)
          /\ GenuineThen(m)
          /\ TurnNews(m) => worker[m.id].running

LEMMA GenuineStays ==
  ASSUME TurnsGoOn, NEW m, Genuine(m)
  PROVE  GenuineThen(m)
  BY DEF TurnsGoOn, Genuine, GenuineThen, OfThread

\* Messages after the step, and where they come from.
LEMMA ToldShape ==
  ASSUME WorkerOK, Told
  PROVE  \/ /\ UNCHANGED channel /\ ReaderGoesOn
         \/ /\ 1 \in Places(channel)
            /\ \A i \in Places(channel') :
                 i + 1 \in Places(channel) /\ channel'[i] = channel[i + 1]
            /\ reader'.step = "reserved" => reader'.event = channel[1]
            /\ reader'.step # "accepted"
         \/ /\ UNCHANGED reader
            /\ \E m \in Messages :
                 /\ GenuineThen(m)
                 /\ TurnNews(m) => worker[m.id].running
                 /\ \A i \in Places(channel') :
                      \/ i \in Places(channel) /\ channel'[i] = channel[i]
                      \/ i = Len(channel) + 1 /\ channel'[i] = m
<1>1. channel \in Seq(Messages)
  BY DEF WorkerOK
<1>2. CASE UNCHANGED channel /\ ReaderGoesOn
  BY <1>2
<1>3. CASE Read
  BY <1>1, <1>3 DEF Read, Places
<1>4. ASSUME UNCHANGED reader, NEW m \in Messages, channel' = Append(channel, m)
      PROVE  \A i \in Places(channel') :
               \/ i \in Places(channel) /\ channel'[i] = channel[i]
               \/ i = Len(channel) + 1 /\ channel'[i] = m
  BY <1>1, <1>4, GrownQueue
<1> QED
  BY <1>2, <1>3, <1>4 DEF Told

LEMMA ToldFlows ==
  ASSUME WorkerOK, TurnsGoOn, Told
  PROVE  Flow
<1>1. \A i \in Places(channel') : TurnNews(channel'[i]) =>
        \/ \E j \in Places(channel) : channel'[i] = channel[j]
        \/ worker[channel'[i].id].running
  BY ToldShape
<1>2. reader'.step = "reserved" =>
        \/ reader.step = "reserved" /\ reader'.event = reader.event
        \/ \E j \in Places(channel) : reader'.event = channel[j]
  BY ToldShape DEF ReaderGoesOn
<1> QED
  BY <1>1, <1>2 DEF Flow, TurnsGoOn

LEMMA EventsStay ==
  ASSUME WorkerOK, Events, TurnsGoOn, Told
  PROVE  Events'
<1>1. \A i \in Places(channel) : GenuineThen(channel[i])
  BY GenuineStays DEF Events
<1>2. \A i \in Places(channel') : GenuineThen(channel'[i])
  BY <1>1, ToldShape
<1>3. reader'.step \in {"reserved", "accepted"} => GenuineThen(reader'.event)
  <2>1. reader.step \in {"reserved", "accepted"} => GenuineThen(reader.event)
    BY GenuineStays DEF Events
  <2> QED
    BY <1>1, <2>1, ToldShape DEF ReaderGoesOn
<1>4. \A i \in Places(channel) :
        channel[i].kind = "completed" => ~worker[channel[i].id].running
  BY DEF Events, Genuine, TurnNews
<1>5. ASSUME NEW i \in Places(channel'), NEW j \in Places(channel'), i < j,
             channel'[i].kind = "completed", TurnNews(channel'[j])
      PROVE  channel'[j].id # channel'[i].id
  <2>1. CASE UNCHANGED channel
    BY <1>5, <2>1 DEF Events
  <2>2. CASE \A n \in Places(channel') :
               n + 1 \in Places(channel) /\ channel'[n] = channel[n + 1]
    <3>1. i + 1 < j + 1
      BY <1>5 DEF Places
    <3> QED
      BY <1>5, <2>2, <3>1 DEF Events
  <2>3. ASSUME NEW m \in Messages, TurnNews(m) => worker[m.id].running,
               \A n \in Places(channel') :
                 \/ n \in Places(channel) /\ channel'[n] = channel[n]
                 \/ n = Len(channel) + 1 /\ channel'[n] = m
        PROVE  channel'[j].id # channel'[i].id
    <3>1. i \in Places(channel) /\ channel'[i] = channel[i]
      <4>1. Len(channel) \in Nat
        BY DEF WorkerOK
      <4>2. i # Len(channel) + 1
        BY <1>5, <2>3, <4>1 DEF Places
      <4> QED
        BY <2>3, <4>2
    <3>2. ~worker[channel'[i].id].running
      BY <1>4, <1>5, <3>1
    <3>3. CASE j \in Places(channel) /\ channel'[j] = channel[j]
      BY <1>5, <3>1, <3>3 DEF Events
    <3>4. CASE channel'[j] = m
      BY <1>5, <2>3, <3>2, <3>4
    <3> QED
      BY <2>3, <3>3, <3>4
  <2> QED
    BY <2>1, <2>2, <2>3, ToldShape
<1>6. ASSUME reader'.step = "reserved", reader'.event.kind = "completed",
             NEW i \in Places(channel'), TurnNews(channel'[i])
      PROVE  channel'[i].id # reader'.event.id
  <2>1. CASE UNCHANGED channel /\ ReaderGoesOn
    BY <1>6, <2>1 DEF ReaderGoesOn, Events
  <2>2. CASE /\ 1 \in Places(channel)
             /\ \A n \in Places(channel') :
                  n + 1 \in Places(channel) /\ channel'[n] = channel[n + 1]
             /\ reader'.step = "reserved" => reader'.event = channel[1]
    <3>1. 1 < i + 1
      BY DEF Places
    <3> QED
      BY <1>6, <2>2, <3>1 DEF Events
  <2>3. ASSUME UNCHANGED reader, NEW m \in Messages,
               TurnNews(m) => worker[m.id].running,
               \A n \in Places(channel') :
                 \/ n \in Places(channel) /\ channel'[n] = channel[n]
                 \/ n = Len(channel) + 1 /\ channel'[n] = m
        PROVE  channel'[i].id # reader'.event.id
    <3>1. ~worker[reader'.event.id].running
      BY <1>6, <2>3 DEF Events, Genuine, TurnNews
    <3> QED
      BY <1>6, <2>3, <3>1 DEF Events
  <2> QED
    BY <2>1, <2>2, <2>3, ToldShape
<1>7. /\ Places(channel)' = Places(channel')
      /\ \A i : TurnNews(channel[i])' <=> TurnNews(channel'[i])
      /\ TurnNews(reader.event)' <=> TurnNews(reader'.event)
  BY DEF Places, TurnNews
<1>8. /\ \A i \in Places(channel') : Genuine(channel[i])'
      /\ reader'.step \in {"reserved", "accepted"} => Genuine(reader.event)'
  BY <1>2, <1>3, <1>7 DEF Genuine, GenuineThen, OfThread
<1> QED
  BY <1>5, <1>6, <1>7, <1>8 DEF Events

-----------------------------------------------------------------------------
(* Every step that starts nothing is calm, and the ledger follows the worker. *)

Quietly ==
  /\ Moved /\ UNCHANGED calls /\ Calm /\ TableMoves
  /\ TurnsGoOn /\ Told /\ LedgerFollows /\ AnswersRight

Still == UNCHANGED <<requests, channel, worker>> /\ ReaderGoesOn

NoneReserves ==
  \A c \in Callers : call[c].step = "reserve" => call'[c].step # "revise"

NoneReplied ==
  \A c \in Callers : call[c].step = "waiting" => call'[c].step # "replied"

LEMMA StillFlows ==
  ASSUME Still
  PROVE  Shrinks(requests, requests') /\ WorkerKept /\ TurnsGoOn /\ Told
  BY DEF Still, Shrinks, WorkerKept, TurnsGoOn, Told

LEMMA StillLedger ==
  ASSUME UNCHANGED turnVars
  PROVE  TableMoves /\ LedgerFollows /\ completed \subseteq completed'
  BY DEF turnVars, TableMoves, LedgerFollows

LEMMA MovedCalmly ==
  ASSUME CallsOK, Moved, NoneReserves, NoneReplied, TableMoves, LedgerFollows,
         completed \subseteq completed', UNCHANGED calls, Still
  PROVE  Quietly
<1>1. \A c \in Callers : Owns(call'[c]) =>
        /\ Owns(call[c])
        /\ call'[c].token = call[c].token /\ call'[c].thread = call[c].thread
        /\ Unsent(call'[c]) => Unsent(call[c])
  BY OwnersMove DEF NoneReserves
<1>2. AnswersRight
  BY DEF AnswersRight, NoneReplied, Still
<1> QED
  BY <1>1, <1>2, StillFlows DEF Quietly, Calm

LEMMA NothingMoved ==
  ASSUME UNCHANGED call
  PROVE  Moved /\ NoneReserves /\ NoneReplied
  BY DEF Moved, NoneReserves, NoneReplied

LEMMA WokenCalmly ==
  ASSUME CallsOK, WakeWaiters
  PROVE  Moved /\ NoneReserves /\ NoneReplied
<1>1. \A c \in Callers : call'[c] # call[c] =>
        call[c].step = "waiting" /\ call'[c].step = "failing"
  <2> SUFFICES ASSUME NEW c \in Callers, call'[c] # call[c]
               PROVE  call[c].step = "waiting" /\ call'[c].step = "failing"
    OBVIOUS
  <2>1. /\ call[c].step = "waiting"
        /\ call'[c] = [call[c] EXCEPT !.step = "failing", !.uncertain = TRUE]
    BY DEF WakeWaiters
  <2>2. call[c] \in Calls
    BY DEF CallsOK
  <2> QED
    BY <2>1, <2>2 DEF Calls
<1> QED
  BY <1>1, WokenMoved DEF NoneReserves, NoneReplied

\* A reservation rewritten in place.
LEMMA RewriteFollows ==
  ASSUME Ledger, NEW r \in TurnTokens, NEW u \in Turn,
         turns[r] # None, u.thread = turns[r].thread,
         turns' = [turns EXCEPT ![r] = u], UNCHANGED completed,
         u.earlyCompleted =>
           \/ turns[r].earlyCompleted /\ u.earlyId = turns[r].earlyId
           \/ OverThen(u.earlyId, turns[r].thread)
  PROVE  LedgerFollows
<1>1. turns'[r] = u /\ \A s \in TurnTokens : s # r => turns'[s] = turns[s]
  BY DEF Ledger, TypeOK
<1> QED
  BY <1>1 DEF LedgerFollows

LEMMA FreeFollows ==
  ASSUME Ledger, ReservedInPlace, NEW r \in TurnTokens, NEW id \in TurnIds,
         Frees(r, id), OverThen(id, turns[r].thread)
  PROVE  LedgerFollows
<1>1. turns'[r] = None /\ \A s \in TurnTokens : s # r => turns'[s] = turns[s]
  BY DEF Ledger, TypeOK, Frees
<1>2. completed' = completed \cup {<<App, turns[r].thread, id>>}
  BY DEF Frees, ReservedInPlace
<1>3. ASSUME NEW th \in Threads, NEW jd \in TurnIds, <<App, th, jd>> \in completed'
      PROVE  <<App, th, jd>> \in completed \/ OverThen(jd, th)
  BY <1>2, <1>3
<1> QED
  BY <1>1, <1>3 DEF LedgerFollows

\* The early id of a turn whose end was seen early.
LEMMA EarlyIdOver ==
  ASSUME Ends, NEW r \in TurnTokens, turns[r] # None, turns[r].earlyCompleted
  PROVE  /\ turns[r].earlyId \in TurnIds /\ turns[r].earlyId # None
         /\ Over(turns[r].earlyId, turns[r].thread)
  BY AdmissionAssumption DEF Ends, Over, OfThread

\* The token of a caller that holds one is no other caller's.
LEMMA LeavesAlone ==
  ASSUME OwnersHold, CallsOK, Moved, NoneReserves, NEW c \in Callers, Owns(call[c]),
         ~Owns(call'[c])
  PROVE  LeftAlone(call[c].token)
<1> SUFFICES ASSUME NEW d \in Callers, Owns(call'[d]) PROVE call'[d].token # call[c].token
  BY DEF LeftAlone
<1>1. Owns(call[d]) /\ call'[d].token = call[d].token /\ d # c
  BY OwnersMove DEF NoneReserves
<1> QED
  BY <1>1 DEF OwnersHold

-----------------------------------------------------------------------------
(* The steps of a caller. *)

LEMMA CallerMovesOnly ==
  ASSUME CallsOK, NEW c \in Callers, CallerStep(c), NEW s, NEW t,
         call[c].step = s, call'[c].step = t, s # "reserve" \/ t # "revise",
         s # "waiting" \/ t # "replied"
  PROVE  Moved /\ NoneReserves /\ NoneReplied
  BY CallerMoved DEF NoneReserves, NoneReplied

LEMMA PlainQuietly ==
  ASSUME BridgeInv, NEW c \in Callers,
         \/ CreateSession(c) \/ ReservationRefused(c) \/ Revise(c) \/ ChooseTurn(c)
         \/ Record(c) \/ EndInterrupt(c) \/ Return(c) \/ TimeOut(c)
         \/ Send(c) /\ ~Connected
  PROVE  Quietly
<1> USE DEF BridgeInv
<1>1. CallerStep(c)
  BY DEF CallerStep
<1>2. UNCHANGED turnVars
  BY DEF CreateSession, ReservationRefused, Revise, ChooseTurn, Record, EndInterrupt,
         Return, TimeOut, Send, admissionVars, turnVars, NotifyLost, MarkUnknown,
         FinishOperation
<1>3. UNCHANGED calls /\ UNCHANGED <<requests, channel, worker, reader>>
  BY DEF CreateSession, ReservationRefused, Revise, ChooseTurn, Record, EndInterrupt,
         Return, TimeOut, Send, clientVars, workerVars
<1>4. call[c].step # "reserve" \/ call'[c].step # "revise"
  <2>1. CASE ReservationRefused(c)
    <3>1. call[c] \in Calls /\ call'[c] = [call[c] EXCEPT !.step = "finish"]
      BY <2>1 DEF ReservationRefused, Step, CallsOK
    <3> QED
      BY <3>1 DEF Calls
  <2>2. CASE ~ReservationRefused(c)
    BY <2>2 DEF CreateSession, Revise, ChooseTurn, Record, EndInterrupt, Return,
                TimeOut, Send
  <2> QED
    BY <2>1, <2>2
<1>5. call[c].step # "waiting" \/ call'[c].step # "replied"
  <2>1. CASE TimeOut(c)
    <3>1. /\ call[c] \in Calls
          /\ call'[c] = [call[c] EXCEPT !.step = "failing", !.uncertain = TRUE]
      BY <2>1 DEF TimeOut, Raise, CallsOK
    <3> QED
      BY <3>1 DEF Calls
  <2>2. CASE ~TimeOut(c)
    BY <2>2 DEF CreateSession, ReservationRefused, Revise, ChooseTurn, Record,
                EndInterrupt, Return, Send
  <2> QED
    BY <2>1, <2>2
<1>6. Still
  BY <1>3 DEF Still, ReaderGoesOn
<1> QED
  BY <1>1, <1>2, <1>3, <1>4, <1>5, <1>6, CallerMovesOnly, StillLedger, MovedCalmly

LEMMA StoppingQuietly ==
  ASSUME BridgeInv, History, Starts, Ends, NEW c \in Callers, MarkStopping(c)
  PROVE  Quietly
<1> DEFINE id == call[c].id
           th == call[c].thread
<1> USE DEF BridgeInv
<1>1. CallerStep(c) /\ call[c].step = "stop"
  BY DEF CallerStep, MarkStopping
<1>2. UNCHANGED calls /\ UNCHANGED <<requests, channel, worker, reader>>
  BY DEF MarkStopping, clientVars, workerVars
<1>3. Moved /\ NoneReserves /\ NoneReplied
  BY <1>1, CallerMovesOnly
<1>4. Still
  BY <1>2 DEF Still, ReaderGoesOn
<1>5. CASE UNCHANGED turnVars
  BY <1>2, <1>3, <1>4, <1>5, StillLedger, MovedCalmly
<1>6. ASSUME NEW r \in TurnTokens, NEW u \in Turn, NEW jd \in TurnIds,
             Renews(r, u), Follows("stopping", turns[r], u, jd)
      PROVE  Quietly
  <2>1. TableMoves
    BY <1>6 DEF Follows, TableMoves
  <2>2. u.earlyCompleted => turns[r].earlyCompleted /\ u.earlyId = turns[r].earlyId
    <3>1. u.earlyCompleted => turns[r].earlyCompleted
      BY <1>6 DEF Follows
    <3>2. turns[r].earlyCompleted => turns[r].earlyId # None
      BY <1>6, EarlyIdOver DEF Renews
    <3> QED
      BY <1>6, <3>1, <3>2 DEF Follows
  <2>3. LedgerFollows
    BY <1>6, <2>2, RewriteFollows DEF Renews
  <2>4. completed \subseteq completed'
    BY <1>6 DEF Renews
  <2> QED
    BY <1>2, <1>3, <1>4, <2>1, <2>3, <2>4, MovedCalmly
<1>7. CASE id = None
  <2>1. UNCHANGED turnVars
    BY <1>7 DEF MarkStopping, InvalidEvent
  <2> QED
    BY <1>5, <2>1
<1>8. CASE id # None
  <2>1. id \in TurnIds /\ th \in Threads /\ "stopping" \in EventKinds
    BY <1>1, <1>8 DEF CallsOK, Calls, Equipped, EventKinds
  <2>2. TurnEvent("stopping", App, th, id)
    BY <1>8 DEF MarkStopping
  <2> HIDE DEF id, th
  <2> QED
    BY <1>5, <1>6, <2>1, <2>2, EventEffect
<1> QED
  BY <1>7, <1>8

LEMMA BindQuietly ==
  ASSUME BridgeInv, History, Starts, Answers, Ends, NEW c \in Callers, Bind(c)
  PROVE  Quietly
<1> DEFINE r == call[c].token
           id == call[c].id
<1> USE DEF BridgeInv
<1>1. CallerStep(c) /\ call[c].step = "replied" /\ call[c].kind = "start"
  BY DEF CallerStep, Bind
<1>2. UNCHANGED calls /\ UNCHANGED <<requests, channel, worker, reader>>
  BY DEF Bind, clientVars, workerVars
<1>3. Moved /\ NoneReserves /\ NoneReplied
  BY <1>1, CallerMovesOnly
<1>4. Still
  BY <1>2 DEF Still, ReaderGoesOn
<1>5. CASE UNCHANGED turnVars
  BY <1>2, <1>3, <1>4, <1>5, StillLedger, MovedCalmly
<1>6. ASSUME id # None, BindTurn(r, id), call'[c].step = "record"
      PROVE  Quietly
  <2>1. Owns(call[c]) /\ r \in TurnTokens /\ id \in TurnIds
    BY <1>1, <1>6 DEF Owns, OwnSteps, CallsOK, Calls, Equipped, HoldingSteps
  <2>2. turns[r].thread = call[c].thread
    BY <2>1 DEF Starts, OwnersHold
  <2>3. OfThread(id, turns[r].thread)
    BY <1>1, <1>6, <2>2 DEF Answers, IsStart
  <2>4. LeftAlone(r)
    BY <1>3, <1>6, <2>1, LeavesAlone DEF Starts, Owns, OwnSteps
  <2>5. /\ turns[r] # None /\ turns[r].earlyId \in {None, id}
        /\ \/ \E u \in Turn : Names(r, u, id)
           \/ Frees(r, id) /\ turns[r].earlyCompleted
    BY <1>6, <2>1, BindEffect
  <2>6. TableMoves /\ completed \subseteq completed'
    BY <2>1, <2>3, <2>4, <2>5 DEF TableMoves, Names, Frees
  <2>7. LedgerFollows
    <3>1. ASSUME NEW u \in Turn, Names(r, u, id) PROVE LedgerFollows
      BY <2>1, <3>1, RewriteFollows DEF Names
    <3>2. CASE Frees(r, id) /\ turns[r].earlyCompleted
      <4>1. Over(id, turns[r].thread)
        BY <2>1, <2>5, <3>2, EarlyIdOver
      <4>2. OverThen(id, turns[r].thread)
        BY <1>4, <4>1, StillFlows, ToldFlows, OverStays
      <4> QED
        BY <2>1, <3>2, <4>2, FreeFollows DEF Starts
    <3> QED
      BY <2>5, <3>1, <3>2
  <2> QED
    BY <1>2, <1>3, <1>4, <2>6, <2>7, MovedCalmly
<1>7. CASE id # None /\ RefuseBind(r, id)
  BY <1>5, <1>7 DEF RefuseBind
<1>8. CASE id = None /\ UNCHANGED admissionVars
  BY <1>5, <1>8 DEF admissionVars, turnVars
<1>9. ASSUME id # None, BindTurn(r, id),
             call' = [call EXCEPT ![c].step = "record", ![c].active = BindShown(r)]
      PROVE  Quietly
  <2>1. BindShown(r) \in BOOLEAN
    BY DEF BindShown
  <2>2. call'[c] = [call[c] EXCEPT !.step = "record", !.active = BindShown(r)]
    BY <1>9 DEF CallsOK
  <2>3. call[c] \in Calls
    BY DEF CallsOK
  <2>4. call'[c].step = "record"
    BY <2>2, <2>3 DEF Calls
  <2> HIDE DEF r, id
  <2> QED
    BY <1>6, <1>9, <2>4
<1> QED
  BY <1>7, <1>8, <1>9 DEF Bind

LEMMA FailQuietly ==
  ASSUME BridgeInv, Starts, Ends, NEW c \in Callers, Fail(c)
  PROVE  Quietly
<1> DEFINE r == call[c].token
<1> USE DEF BridgeInv
<1>1. CallerStep(c) /\ call[c].step = "failing" /\ call[c].kind = "start"
  BY DEF CallerStep, Fail
<1>2. UNCHANGED calls /\ UNCHANGED <<requests, channel, worker, reader>>
  BY DEF Fail, clientVars, workerVars
<1>3. Moved /\ NoneReserves /\ NoneReplied
  BY <1>1, CallerMovesOnly
<1>4. Still
  BY <1>2 DEF Still, ReaderGoesOn
<1>5. Owns(call[c]) /\ r \in TurnTokens
  BY <1>1 DEF Owns, OwnSteps, CallsOK, Equipped, HoldingSteps
<1>6. call'[c].step = "finish"
  <2>1. call[c] \in Calls /\ call'[c] = [call[c] EXCEPT !.step = "finish"]
    BY DEF Fail, Step, CallsOK
  <2> QED
    BY <2>1 DEF Calls
<1>7. LeftAlone(r)
  BY <1>3, <1>5, <1>6, LeavesAlone DEF Starts, Owns, OwnSteps
<1>8. PICK u \in Turn : /\ Renews(r, u)
                        /\ u.earlyId = turns[r].earlyId
                        /\ u.earlyCompleted = turns[r].earlyCompleted
  BY <1>5, FailEffect DEF Fail
<1>9. TableMoves /\ completed \subseteq completed'
  BY <1>5, <1>7, <1>8 DEF TableMoves, Renews
<1>10. LedgerFollows
  BY <1>5, <1>8, RewriteFollows DEF Renews
<1> QED
  BY <1>2, <1>3, <1>4, <1>9, <1>10, MovedCalmly

\* A caller takes its start on, or moves calmly.
LEMMA CallerQuietly ==
  ASSUME BridgeInv, History, Starts, Answers, Ends, NEW c \in Callers, CallerStep(c)
  PROVE  \/ \E r \in TurnTokens : Reserve(c, r)
         \/ Send(c) /\ Connected
         \/ Quietly
  BY PlainQuietly, StoppingQuietly, BindQuietly, FailQuietly DEF CallerStep

-----------------------------------------------------------------------------
(* The steps of the reader. *)

LEMMA ReadQueue ==
  ASSUME WorkerOK, channel # <<>>, channel' = Tail(channel)
  PROVE  /\ NextMessage = channel[1] /\ 1 \in Places(channel)
         /\ \A i \in Places(channel') : \E j \in Places(channel) : channel'[i] = channel[j]
<1>1. channel \in Seq(Messages)
  BY DEF WorkerOK
<1>2. NextMessage = channel[1] /\ 1 \in Places(channel)
  BY <1>1 DEF NextMessage, Places
<1>3. \A i \in Places(channel') : i + 1 \in Places(channel) /\ channel'[i] = channel[i + 1]
  BY <1>1 DEF Places
<1> QED
  BY <1>2, <1>3

LEMMA DeliverQuietly ==
  ASSUME BridgeInv, Answers, DeliverReply
  PROVE  Quietly
<1> USE DEF BridgeInv
<1>1. /\ UNCHANGED <<calls, requests, worker, reader>> /\ UNCHANGED turnVars
      /\ reader.step = "idle" /\ channel # <<>> /\ channel' = Tail(channel)
      /\ NextMessage = channel[1] /\ NextMessage.kind = "reply"
      /\ 1 \in Places(channel)
  <2>1. channel # <<>> /\ channel' = Tail(channel)
    BY DEF DeliverReply
  <2>2. NextMessage = channel[1] /\ 1 \in Places(channel)
    BY <2>1, ReadQueue
  <2> QED
    BY <2>1, <2>2 DEF DeliverReply, clientVars, admissionVars, turnVars
<1>2. /\ Moved
      /\ \A c \in Callers : call'[c] # call[c] =>
           call[c].rid = NextMessage.rid /\ call'[c].id = NextMessage.id
  BY RepliedMoved
<1>3. \A c \in Callers : call[c].step = "reserve" => call'[c] = call[c]
  BY DEF DeliverReply, CallsOK
<1>4. Calm
  <2>1. \A c \in Callers : Owns(call'[c]) =>
          /\ Owns(call[c])
          /\ call'[c].token = call[c].token /\ call'[c].thread = call[c].thread
          /\ Unsent(call'[c]) => Unsent(call[c])
    BY <1>2, <1>3, OwnersMove
  <2> QED
    BY <1>1, <2>1 DEF Calm, Shrinks, WorkerKept, turnVars
<1>5. TurnsGoOn /\ Told
  BY <1>1 DEF TurnsGoOn, Told, Read
<1>6. AnswersRight
  <2>1. \A i \in Places(channel') : \E j \in Places(channel) : channel'[i] = channel[j]
    BY <1>1, ReadQueue
  <2>2. Fits(channel[1])
    BY <1>1 DEF Answers
  <2>3. ASSUME NEW c \in Callers, call'[c].step = "replied", call[c].step = "waiting",
               call'[c].id # None, IsStart(call[c])
        PROVE  OfThread(call'[c].id, call[c].thread)
    BY <1>1, <1>2, <2>2, <2>3 DEF Fits
  <2> QED
    BY <2>1, <2>3 DEF AnswersRight
<1> QED
  BY <1>1, <1>2, <1>4, <1>5, <1>6, StillLedger DEF Quietly

LEMMA TakeQuietly ==
  ASSUME BridgeInv, TakeEvent
  PROVE  Quietly
<1> USE DEF BridgeInv
<1>1. /\ UNCHANGED <<calls, call, requests, worker>> /\ UNCHANGED turnVars
      /\ reader.step = "idle" /\ channel # <<>> /\ channel' = Tail(channel)
      /\ NextMessage = channel[1]
  BY DEF TakeEvent, controllerVars, turnVars, ReserveOperation, MarkUnknown,
         NextMessage, WorkerOK
<1>2. Moved /\ NoneReserves /\ NoneReplied
  BY <1>1, NothingMoved
<1>3. \/ reader' = [step |-> "reserved", event |-> NextMessage, uncertain |-> FALSE]
      \/ reader' = reader
  BY DEF TakeEvent
<1>4. Told
  BY <1>1, <1>3 DEF Told, Read
<1>5. TurnsGoOn /\ WorkerKept /\ Shrinks(requests, requests')
  BY <1>1 DEF TurnsGoOn, WorkerKept, Shrinks
<1>6. Calm
  <2>1. \A c \in Callers : Owns(call'[c]) =>
          /\ Owns(call[c])
          /\ call'[c].token = call[c].token /\ call'[c].thread = call[c].thread
          /\ Unsent(call'[c]) => Unsent(call[c])
    BY <1>1
  <2> QED
    BY <1>1, <1>5, <2>1 DEF Calm, turnVars
<1>7. AnswersRight
  BY <1>1, ReadQueue DEF AnswersRight
<1> QED
  BY <1>1, <1>2, <1>4, <1>5, <1>6, <1>7, StillLedger DEF Quietly

\* The event the reader has reserved a callback for is over once the ledger has it.
LEMMA AcceptQuietly ==
  ASSUME BridgeInv, History, Starts, Events, Ends, AcceptEvent
  PROVE  Quietly
<1> DEFINE e  == reader.event
           id == e.id
           th == e.thread
<1> USE DEF BridgeInv
<1>1. /\ UNCHANGED <<calls, call, requests, channel, worker>> /\ reader.step = "reserved"
      /\ e \in Messages /\ e.kind # "reply" /\ id \in TurnIds /\ th \in Threads
  BY EventOfThread DEF AcceptEvent, controllerVars, workerVars, ReaderOK
<1>2. Moved /\ NoneReserves /\ NoneReplied
  BY <1>1, NothingMoved
<1>3. /\ reader'.step \in {"accepted", "finish"}
      /\ reader'.step = "accepted" => reader'.event = reader.event
  BY DEF AcceptEvent, ReaderOK
<1>4. Still
  BY <1>1, <1>3 DEF Still, ReaderGoesOn
<1>5. CASE UNCHANGED turnVars
  BY <1>1, <1>2, <1>4, <1>5, StillLedger, MovedCalmly
<1>6. CASE e.kind \in {"item", "garbled"}
  <2>1. UNCHANGED turnVars
    BY <1>6 DEF AcceptEvent, MarkUnknown, admissionVars, turnVars
  <2> QED
    BY <1>5, <2>1
<1>7. CASE e.kind \in {"started", "completed"}
  <2>1. TurnEvent(e.kind, App, th, id) /\ e.kind \in EventKinds
    BY <1>7 DEF AcceptEvent, EventKinds
  <2>2. OfThread(id, th)
    BY <1>1, <1>7 DEF Events, Genuine, TurnNews
  <2>3. e.kind = "completed" => OverThen(id, th)
    BY <1>1, <1>3, <2>2 DEF Events, Genuine, TurnNews, OverThen, OfThread
  <2>4. ASSUME NEW r \in TurnTokens, NEW u \in Turn, turns[r].thread = th,
               Renews(r, u), Follows(e.kind, turns[r], u, id)
        PROVE  Quietly
    <3>1. TableMoves
      BY <2>4 DEF Follows, TableMoves
    <3>2. u.earlyCompleted =>
            \/ turns[r].earlyCompleted /\ u.earlyId = turns[r].earlyId
            \/ OverThen(u.earlyId, turns[r].thread)
      <4>1. turns[r].earlyCompleted => turns[r].earlyId # None
        BY <2>4, EarlyIdOver DEF Renews
      <4> QED
        BY <2>3, <2>4, <4>1 DEF Follows
    <3>3. LedgerFollows
      BY <2>4, <3>2, RewriteFollows DEF Renews
    <3>4. completed \subseteq completed'
      BY <2>4 DEF Renews
    <3> QED
      BY <1>1, <1>2, <1>4, <3>1, <3>3, <3>4, MovedCalmly
  <2>5. ASSUME NEW r \in TurnTokens, turns[r].thread = th,
               turns[r].state # "starting", e.kind = "completed", Frees(r, id)
        PROVE  Quietly
    <3>1. LeftAlone(r)
      BY <1>1, <2>5 DEF LeftAlone, Starts, OwnersHold
    <3>2. TableMoves /\ completed \subseteq completed'
      BY <1>1, <2>2, <2>5, <3>1 DEF TableMoves, Frees
    <3>3. LedgerFollows
      BY <1>1, <2>3, <2>5, FreeFollows DEF Starts
    <3> QED
      BY <1>1, <1>2, <1>4, <3>2, <3>3, MovedCalmly
  <2> DEFINE kind == e.kind
  <2> HIDE DEF id, th, e, kind
  <2>6. kind \in EventKinds /\ TurnEvent(kind, App, th, id)
    BY <2>1 DEF kind
  <2>7. \/ UNCHANGED turnVars
        \/ \E r \in TurnTokens, u \in Turn :
             /\ turns[r].thread = th /\ <<App, th, id>> \notin completed
             /\ Renews(r, u) /\ Follows(kind, turns[r], u, id)
        \/ \E r \in TurnTokens :
             /\ turns[r].app = App /\ turns[r].thread = th
             /\ turns[r].state # "starting" /\ turns[r].turnId = id
             /\ kind = "completed" /\ Frees(r, id)
    <3>1. id \in TurnIds /\ th \in Threads
      BY <1>1
    <3> QED
      BY <2>6, <3>1, EventEffect
  <2> QED
    BY <1>5, <2>4, <2>5, <2>7 DEF kind
<1> QED
  BY <1>1, <1>6, <1>7 DEF Messages

LEMMA ReaderQuietly ==
  ASSUME BridgeInv, History, Starts, Answers, Events, Ends, ReaderStep
  PROVE  Quietly
<1> USE DEF BridgeInv
<1>1. CASE DeliverReply
  BY <1>1, DeliverQuietly
<1>2. CASE TakeEvent
  BY <1>2, TakeQuietly
<1>3. CASE AcceptEvent
  BY <1>3, AcceptQuietly
<1>4. CASE RecordEvent \/ FinishEvent \/ StreamEnds
  <2>1. UNCHANGED <<calls, call, requests, channel, worker>> /\ UNCHANGED turnVars
    BY <1>4 DEF RecordEvent, FinishEvent, StreamEnds, controllerVars, workerVars,
                admissionVars, turnVars, FinishOperation, NotifyLost, MarkUnknown
  <2>2. reader'.step \in {"finish", "idle", "eof"}
    BY <1>4 DEF RecordEvent, FinishEvent, StreamEnds, ReaderOK
  <2>3. Still
    BY <2>1, <2>2 DEF Still, ReaderGoesOn
  <2> QED
    BY <2>1, <2>3, NothingMoved, StillLedger, MovedCalmly
<1>5. CASE StreamEnded
  <2>1. UNCHANGED <<calls, requests, channel, worker>> /\ UNCHANGED turnVars
    BY <1>5 DEF StreamEnded, workerVars, admissionVars, turnVars
  <2>2. reader'.step = "done"
    BY <1>5 DEF StreamEnded, ReaderOK
  <2>3. Still
    BY <2>1, <2>2 DEF Still, ReaderGoesOn
  <2> QED
    BY <1>5, <2>1, <2>3, WokenCalmly, StillLedger, MovedCalmly DEF StreamEnded
<1> QED
  BY <1>1, <1>2, <1>3, <1>4, <1>5 DEF ReaderStep

-----------------------------------------------------------------------------
(* The steps of the worker. *)

LEMMA LostTurns ==
  ASSUME WorkerOK, StreamLost
  PROVE  WorkerKept /\ TurnsGoOn
<1>1. CASE UNCHANGED worker
  BY <1>1 DEF WorkerKept, TurnsGoOn
<1>2. CASE worker' = [id \in TurnIds |-> IF worker[id] = None THEN None
                        ELSE [worker[id] EXCEPT !.running = FALSE]]
  <2>1. ASSUME NEW id \in TurnIds, worker[id] # None
        PROVE  /\ worker'[id] # None /\ worker'[id].thread = worker[id].thread
               /\ worker'[id].rid = worker[id].rid
               /\ ~worker'[id].running
               /\ worker'[id].announced = worker[id].announced
    <3>1. worker[id] \in WorkerTurns
      BY <2>1, WorkerThread
    <3>2. worker'[id] = [worker[id] EXCEPT !.running = FALSE]
      BY <1>2, <2>1
    <3>3. worker'[id] \in WorkerTurns
      BY <3>1, <3>2 DEF WorkerTurns
    <3> QED
      BY <3>1, <3>2, <3>3, BridgeAssumption DEF WorkerTurns
  <2>2. \A id \in TurnIds : worker[id] = None => worker'[id] = None
    BY <1>2
  <2> QED
    BY <2>1, <2>2 DEF WorkerKept, TurnsGoOn
<1> QED
  BY <1>1, <1>2 DEF StreamLost

\* The worker says something, perhaps having read a request, and notes it of a turn.
LEMMA SaysQuietly ==
  ASSUME BridgeInv, NEW m \in Messages, channel' = Append(channel, m), Fits(m),
         GenuineThen(m), TurnNews(m) => worker[m.id].running,
         WorkerKept, TurnsGoOn, Shrinks(requests, requests'),
         UNCHANGED <<admissionVars, controllerVars, clientVars>>
  PROVE  Quietly
<1> USE DEF BridgeInv
<1>1. UNCHANGED <<calls, call, reader>> /\ UNCHANGED turnVars
  BY DEF controllerVars, clientVars, admissionVars, turnVars
<1>2. Moved
  BY <1>1, NothingMoved
<1>3. TableMoves /\ LedgerFollows /\ completed \subseteq completed'
  BY <1>1, StillLedger
<1>4. \A c \in Callers : Owns(call'[c]) =>
        /\ Owns(call[c])
        /\ call'[c].token = call[c].token /\ call'[c].thread = call[c].thread
        /\ Unsent(call'[c]) => Unsent(call[c])
  BY <1>1
<1>5. Calm
  BY <1>3, <1>4 DEF Calm
<1>6. Told
  BY <1>1 DEF Told
<1>7. AnswersRight
  <2>1. \A i \in Places(channel') :
          \/ i \in Places(channel) /\ channel'[i] = channel[i]
          \/ i = Len(channel) + 1 /\ channel'[i] = m
    BY GrownQueue DEF WorkerOK
  <2> QED
    BY <1>1, <2>1 DEF AnswersRight
<1> QED
  BY <1>1, <1>2, <1>3, <1>5, <1>6, <1>7 DEF Quietly

LEMMA AnswerQuietly ==
  ASSUME BridgeInv, Numbers, Answers, WorkerAnswers
  PROVE  Quietly
<1> USE DEF BridgeInv
<1>1. /\ requests # <<>> /\ requests' = Tail(requests) /\ UNCHANGED worker
      /\ UNCHANGED <<admissionVars, controllerVars, clientVars>>
  BY DEF WorkerAnswers, WorkerStep
<1>2. Head(requests) = requests[1] /\ 1 \in Places(requests) /\ requests[1] \in Requests
  <2>1. Head(requests) = requests[1] /\ 1 \in Places(requests)
    BY <1>1 DEF WorkerOK, Places
  <2> QED
    BY <2>1, RequestThread
<1>3. PICK id \in {None, requests[1].id} :
        channel' = Append(channel, [kind |-> "reply", rid |-> requests[1].rid,
                                    id |-> id])
  BY <1>2 DEF WorkerAnswers, Tell
<1> DEFINE m == [kind |-> "reply", rid |-> requests[1].rid, id |-> id]
<1>4. m \in Messages
  BY <1>2 DEF Requests, Messages
<1>5. m.kind = "reply" /\ m.rid = requests[1].rid /\ m.id \in {None, requests[1].id}
  BY <1>3
<1> HIDE DEF m
<1>6. Fits(m)
  <2>1. m.rid \in 1 .. calls
    BY <1>2, <1>5 DEF Numbers
  <2>2. ASSUME m.id # None, NEW c \in Callers, IsStart(call[c]), call[c].rid = m.rid
        PROVE  FALSE
    <3>1. Asks(1)
      BY <1>2, <1>5, <2>2 DEF Answers, Asks
    <3> QED
      BY <1>2, <1>5, <2>2, <3>1 DEF Answers
  <2> QED
    BY <2>1, <2>2 DEF Fits
<1>7. ~TurnNews(m)
  BY <1>5 DEF TurnNews
<1>8. WorkerKept /\ TurnsGoOn /\ Shrinks(requests, requests')
  BY <1>1 DEF WorkerKept, TurnsGoOn, Shrinks
<1>9. channel' = Append(channel, m)
  BY <1>3 DEF m
<1> QED
  BY <1>1, <1>4, <1>6, <1>7, <1>8, <1>9, SaysQuietly DEF GenuineThen

\* A turn that is noted as answered, announced or ended.
LEMMA NotedTurn ==
  ASSUME WorkerOK, NEW id \in TurnIds, worker[id] # None, NEW t \in WorkerTurns,
         worker' = [worker EXCEPT ![id] = t],
         t.thread = worker[id].thread, t.rid = worker[id].rid,
         t.running => worker[id].running, worker[id].announced => t.announced
  PROVE  WorkerKept /\ TurnsGoOn /\ worker'[id] = t /\ t # None
<1>1. t # None
  BY BridgeAssumption
<1>2. worker'[id] = t /\ \A jd \in TurnIds : jd # id => worker'[jd] = worker[jd]
  BY DEF WorkerOK
<1> QED
  BY <1>1, <1>2 DEF WorkerKept, TurnsGoOn

LEMMA RepliesQuietly ==
  ASSUME BridgeInv, Numbers, Answers, NEW id \in TurnIds, WorkerReplies(id)
  PROVE  Quietly
<1> DEFINE m == [kind |-> "reply", rid |-> worker[id].rid, id |-> id]
           t == [worker[id] EXCEPT !.replied = TRUE]
<1> USE DEF BridgeInv
<1>1. /\ worker[id] # None /\ UNCHANGED requests
      /\ channel' = Append(channel, m) /\ worker' = [worker EXCEPT ![id] = t]
      /\ UNCHANGED <<admissionVars, controllerVars, clientVars>>
  BY DEF WorkerReplies, WorkerStep, Tell, WorkerOK
<1>2. worker[id] \in WorkerTurns
  BY <1>1, WorkerThread
<1>3. /\ t \in WorkerTurns /\ t.thread = worker[id].thread /\ t.rid = worker[id].rid
      /\ t.running = worker[id].running /\ t.announced = worker[id].announced
  BY <1>2 DEF WorkerTurns
<1>4. m \in Messages /\ m.kind = "reply" /\ m.rid = worker[id].rid /\ m.id = id
  BY <1>2 DEF WorkerTurns, Messages
<1> HIDE DEF m, t
<1>5. WorkerKept /\ TurnsGoOn
  BY <1>1, <1>3, NotedTurn
<1>6. Fits(m)
  BY <1>1, <1>4 DEF Fits, Numbers, Answers, OfThread
<1>7. ~TurnNews(m)
  BY <1>4 DEF TurnNews
<1>8. Shrinks(requests, requests')
  BY <1>1 DEF Shrinks
<1> QED
  BY <1>1, <1>4, <1>5, <1>6, <1>7, <1>8, SaysQuietly DEF GenuineThen

LEMMA NewsQuietly ==
  ASSUME BridgeInv, NEW id \in TurnIds, WorkerAnnounces(id) \/ WorkerCompletes(id)
  PROVE  Quietly
<1> USE DEF BridgeInv
<1>1. /\ worker[id] # None /\ worker[id].running /\ UNCHANGED requests
      /\ UNCHANGED <<admissionVars, controllerVars, clientVars>>
  BY DEF WorkerAnnounces, WorkerCompletes, WorkerStep
<1>2. worker[id] \in WorkerTurns
  BY <1>1, WorkerThread
<1>3. PICK kind \in {"started", "completed"}, t \in WorkerTurns :
        /\ channel' = Append(channel, [kind |-> kind, thread |-> worker[id].thread,
                                       id |-> id])
        /\ worker' = [worker EXCEPT ![id] = t]
        /\ t.thread = worker[id].thread /\ t.rid = worker[id].rid
        /\ t.announced
        /\ kind = "completed" => ~t.running
  <2>1. CASE WorkerAnnounces(id)
    <3> DEFINE t == [worker[id] EXCEPT !.announced = TRUE]
    <3>1. /\ t \in WorkerTurns /\ t.thread = worker[id].thread /\ t.rid = worker[id].rid
          /\ t.announced
      BY <1>2 DEF WorkerTurns
    <3>2. worker' = [worker EXCEPT ![id] = t]
      BY <2>1 DEF WorkerAnnounces, WorkerOK
    <3>3. channel' = Append(channel, [kind |-> "started",
                                      thread |-> worker[id].thread, id |-> id])
      BY <2>1 DEF WorkerAnnounces, Tell
    <3> HIDE DEF t
    <3> QED
      BY <3>1, <3>2, <3>3
  <2>2. CASE WorkerCompletes(id)
    <3> DEFINE t == [worker[id] EXCEPT !.running = FALSE]
    <3>1. /\ t \in WorkerTurns /\ t.thread = worker[id].thread /\ t.rid = worker[id].rid
          /\ t.announced = worker[id].announced /\ ~t.running
      BY <1>2 DEF WorkerTurns
    <3>2. worker' = [worker EXCEPT ![id] = t]
      BY <2>2 DEF WorkerCompletes, WorkerOK
    <3>3. /\ channel' = Append(channel, [kind |-> "completed",
                                         thread |-> worker[id].thread, id |-> id])
          /\ worker[id].announced
      BY <2>2 DEF WorkerCompletes, Tell
    <3> HIDE DEF t
    <3> QED
      BY <3>1, <3>2, <3>3
  <2> QED
    BY <2>1, <2>2
<1> DEFINE m == [kind |-> kind, thread |-> worker[id].thread, id |-> id]
<1>4. /\ m \in Messages /\ m.kind = kind /\ m.thread = worker[id].thread /\ m.id = id
  BY <1>2 DEF WorkerTurns, Messages
<1>5. WorkerKept /\ TurnsGoOn /\ worker'[id] = t /\ t # None
  BY <1>1, <1>3, NotedTurn
<1>6. channel' = Append(channel, m)
  BY <1>3
<1> HIDE DEF m
<1>7. Fits(m)
  BY <1>4 DEF Fits
<1>8. GenuineThen(m)
  BY <1>3, <1>4, <1>5 DEF GenuineThen
<1>9. Shrinks(requests, requests')
  BY <1>1 DEF Shrinks
<1> QED
  BY <1>1, <1>4, <1>5, <1>6, <1>7, <1>8, <1>9, SaysQuietly

LEMMA TalkQuietly ==
  ASSUME BridgeInv, NEW id \in TurnIds, WorkerTalks(id)
  PROVE  Quietly
<1> USE DEF BridgeInv
<1>1. /\ worker[id] # None /\ UNCHANGED <<requests, worker>>
      /\ UNCHANGED <<admissionVars, controllerVars, clientVars>>
  BY DEF WorkerTalks, WorkerStep
<1>2. worker[id] \in WorkerTurns
  BY <1>1, WorkerThread
<1>3. PICK kind \in {"item", "garbled"} :
        channel' = Append(channel, [kind |-> kind, thread |-> worker[id].thread,
                                    id |-> id])
  BY DEF WorkerTalks, Tell
<1> DEFINE m == [kind |-> kind, thread |-> worker[id].thread, id |-> id]
<1>4. m \in Messages /\ m.kind = kind /\ channel' = Append(channel, m)
  BY <1>2, <1>3 DEF WorkerTurns, Messages
<1> HIDE DEF m
<1>5. Fits(m) /\ ~TurnNews(m)
  BY <1>4 DEF Fits, TurnNews
<1>6. WorkerKept /\ TurnsGoOn /\ Shrinks(requests, requests')
  BY <1>1 DEF WorkerKept, TurnsGoOn, Shrinks
<1> QED
  BY <1>1, <1>4, <1>5, <1>6, SaysQuietly DEF GenuineThen

\* The end of the stream, by the worker or by the close of the controller.
LEMMA LossQuietly ==
  ASSUME BridgeInv, WorkerDies \/ TerminateApp
  PROVE  Quietly
<1> USE DEF BridgeInv
<1>1. WorkerKept /\ TurnsGoOn
  BY LostTurns DEF WorkerDies, TerminateApp
<1>2. UNCHANGED <<calls, requests, channel, reader>> /\ UNCHANGED turnVars
  BY DEF WorkerDies, TerminateApp, controllerVars, clientVars, admissionVars, turnVars
<1>3. Moved /\ NoneReserves /\ NoneReplied
  BY WokenCalmly, NothingMoved DEF WorkerDies, TerminateApp, controllerVars
<1>4. TableMoves /\ LedgerFollows /\ completed \subseteq completed'
  BY <1>2, StillLedger
<1>5. Told /\ Shrinks(requests, requests')
  BY <1>2 DEF Told, ReaderGoesOn, Shrinks
<1>6. \A c \in Callers : Owns(call'[c]) =>
        /\ Owns(call[c])
        /\ call'[c].token = call[c].token /\ call'[c].thread = call[c].thread
        /\ Unsent(call'[c]) => Unsent(call[c])
  BY <1>3, OwnersMove DEF NoneReserves
<1>7. AnswersRight
  BY <1>2, <1>3 DEF AnswersRight, NoneReplied
<1>8. Calm
  BY <1>1, <1>4, <1>5, <1>6 DEF Calm
<1> QED
  BY <1>1, <1>2, <1>3, <1>4, <1>5, <1>7, <1>8 DEF Quietly

-----------------------------------------------------------------------------
(* The invariant: a call is in the ledger, and all of the above. *)

\* Whatever is in a call, or handles an event, is an operation of the ledger.
Admitted ==
  /\ \A c \in Callers : call[c].step # "idle" => operations[c] # None
  /\ reader.step \in {"reserved", "accepted", "finish"} => operations[Reader] # None

Turning == /\ Starts /\ Numbers /\ Answers /\ InOrder /\ Events /\ Ends /\ Admitted

LEMMA NextKinds ==
  ASSUME BridgeInv, History, Starts, Numbers, Answers, Events, Ends,
         [BridgeNext]_bridgeVars
  PROVE  \/ \E c \in Callers, th \in Threads : Begins(c, th)
         \/ \E c \in Callers, r \in TurnTokens : Reserve(c, r)
         \/ \E c \in Callers : Send(c) /\ Connected
         \/ WorkerAccepts
         \/ Quietly
<1> USE DEF BridgeInv
<1>1. ASSUME UNCHANGED <<controllerVars, clientVars, workerVars>>, UNCHANGED turnVars
      PROVE  Quietly
  <2>1. Still /\ UNCHANGED <<calls, call>>
    BY <1>1 DEF Still, ReaderGoesOn, controllerVars, clientVars, workerVars
  <2> QED
    BY <1>1, <2>1, NothingMoved, StillLedger, MovedCalmly
<1>2. CASE UNCHANGED bridgeVars
  BY <1>1, <1>2 DEF bridgeVars, admissionVars, turnVars
<1>3. CASE ClaimController /\ UNCHANGED <<controllerVars, clientVars, workerVars>>
  BY <1>1, <1>3 DEF ClaimController, turnVars
<1>4. CASE \E c \in Callers : CallerStep(c)
  BY <1>4, CallerQuietly
<1>5. CASE \E c \in Callers, th \in Threads : Begins(c, th)
  BY <1>5
<1>6. CASE ReaderStep
  BY <1>6, ReaderQuietly
<1>7. CASE CloseAdmission \/ CloseApp
  <2>1. UNCHANGED <<calls, call, requests, channel, worker, reader>>
        /\ UNCHANGED turnVars
    BY <1>7 DEF CloseAdmission, CloseApp, controllerVars, workerVars, turnVars, Close,
                NotifyLost, MarkUnknown, admissionVars
  <2>2. Still
    BY <2>1 DEF Still, ReaderGoesOn
  <2> QED
    BY <2>1, <2>2, NothingMoved, StillLedger, MovedCalmly
<1>8. CASE EnterMaintenance \/ EndMaintenance
  BY <1>1, <1>8 DEF EnterMaintenance, EndMaintenance, TryEnterMaintenance,
                    LeaveMaintenance, turnVars
<1>9. CASE TerminateApp \/ WorkerDies
  BY <1>9, LossQuietly
<1>10. CASE WorkerActs /\ ~WorkerDies
  BY <1>10, AnswerQuietly, RepliesQuietly, NewsQuietly, TalkQuietly DEF WorkerActs
<1> QED
  BY <1>2, <1>3, <1>4, <1>5, <1>6, <1>7, <1>8, <1>9, <1>10 DEF BridgeNext, Begins

LEMMA OrderStays ==
  ASSUME InOrder, WorkerKept
  PROVE  InOrder'
<1>1. PICK n \in 0 .. MaxCalls : \A id \in TurnIds : worker[id] # None <=> id <= n
  BY DEF InOrder
<1>2. \A id \in TurnIds : worker'[id] # None <=> id <= n
  BY <1>1 DEF WorkerKept
<1> QED
  BY <1>2 DEF InOrder

LEMMA QuietlyKeeps ==
  ASSUME BridgeInv, Turning, Quietly
  PROVE  Starts' /\ Numbers' /\ Answers' /\ InOrder' /\ Events' /\ Ends'
<1> USE DEF BridgeInv, Turning, Quietly
<1>1. Shrinks(requests, requests') /\ WorkerKept
  BY DEF Calm
<1>2. Starts'
  BY CalmKeepsStarts
<1>3. Numbers' /\ Answers'
  BY <1>1, NumbersStay, AnswersStay
<1>4. InOrder'
  BY <1>1, OrderStays
<1>5. Events'
  BY EventsStay
<1>6. Ends'
  BY ToldFlows, EndsStay
<1> QED
  BY <1>2, <1>3, <1>4, <1>5, <1>6

LEMMA BeginKeeps ==
  ASSUME BridgeInv, Turning, NEW c \in Callers, NEW th \in Threads, Begins(c, th)
  PROVE  Starts' /\ Numbers' /\ Answers' /\ InOrder' /\ Events' /\ Ends'
<1> USE DEF BridgeInv, Turning
<1>1. /\ call'[c].step \in {"session", "reserve", "choose"}
      /\ \A d \in Callers : d # c => call'[d] = call[d]
      /\ UNCHANGED turnVars /\ UNCHANGED <<clientVars, workerVars>>
  BY BeginShape
<1>2. Still
  BY <1>1 DEF Still, ReaderGoesOn, clientVars, workerVars
<1>3. Shrinks(requests, requests') /\ WorkerKept /\ TurnsGoOn /\ Told
  BY <1>2, StillFlows
<1>4. TableMoves /\ LedgerFollows /\ completed \subseteq completed'
  BY <1>1, StillLedger
<1>5. \A d \in Callers : Owns(call'[d]) =>
        /\ Owns(call[d])
        /\ call'[d].token = call[d].token /\ call'[d].thread = call[d].thread
        /\ Unsent(call'[d]) => Unsent(call[d])
  BY <1>1 DEF Owns, OwnSteps
<1>6. Starts'
  BY <1>3, <1>4, <1>5, CalmKeepsStarts DEF Calm
<1>7. Numbers' /\ Answers'
  BY BeginKeepsNumbers, BeginKeepsAnswers
<1>8. Events' /\ Ends' /\ InOrder'
  BY <1>3, <1>4, EventsStay, ToldFlows, EndsStay, OrderStays
<1> QED
  BY <1>6, <1>7, <1>8

LEMMA ReserveKeeps ==
  ASSUME BridgeInv, Turning, NEW c \in Callers, NEW r \in TurnTokens, Reserve(c, r)
  PROVE  Starts' /\ Numbers' /\ Answers' /\ InOrder' /\ Events' /\ Ends'
<1> USE DEF BridgeInv, Turning
<1> DEFINE th == call[c].thread
           u  == NewTurn(App, th, WorkspaceOf[th])
<1>1. /\ call[c].step = "reserve" /\ UNCHANGED <<calls, reader, requests, channel, worker>>
      /\ turns' = [turns EXCEPT ![r] = u] /\ UNCHANGED completed
  BY DEF Reserve, ReserveTurn, clientVars, workerVars
<1>2. Moved
  <2>1. CallerStep(c)
    BY DEF CallerStep
  <2> QED
    BY <2>1, CallerMoved
<1>3. Still
  BY <1>1 DEF Still, ReaderGoesOn
<1>4. Shrinks(requests, requests') /\ WorkerKept /\ TurnsGoOn /\ Told
  BY <1>3, StillFlows
<1>5. LedgerFollows
  <2>1. ~u.earlyCompleted
    BY DEF NewTurn
  <2> HIDE DEF u
  <2>2. \A s \in TurnTokens : turns'[s] = IF s = r THEN u ELSE turns[s]
    BY <1>1 DEF Ledger, TypeOK
  <2> QED
    BY <1>1, <2>1, <2>2 DEF LedgerFollows
<1>6. AnswersRight
  <2>1. \A d \in Callers : call[d].step = "waiting" => call'[d] = call[d]
    BY <1>1 DEF Reserve, CallsOK
  <2> QED
    BY <1>1, <2>1 DEF AnswersRight
<1>7. Starts'
  BY ReserveKeepsStarts
<1>8. Numbers' /\ Answers'
  BY <1>1, <1>2, <1>4, <1>6, NumbersStay, AnswersStay
<1>9. Events' /\ Ends' /\ InOrder'
  BY <1>4, <1>5, EventsStay, ToldFlows, EndsStay, OrderStays
<1> QED
  BY <1>7, <1>8, <1>9

LEMMA SendKeeps ==
  ASSUME BridgeInv, Turning, NEW c \in Callers, Send(c), Connected
  PROVE  Starts' /\ Numbers' /\ Answers' /\ InOrder' /\ Events' /\ Ends'
<1> USE DEF BridgeInv, Turning
<1>1. UNCHANGED <<reader, channel, worker>> /\ UNCHANGED turnVars
  BY DEF Send, admissionVars, turnVars
<1>2. WorkerKept /\ TurnsGoOn /\ Told
  BY <1>1 DEF WorkerKept, TurnsGoOn, Told, ReaderGoesOn
<1>3. LedgerFollows
  BY <1>1, StillLedger
<1>4. Starts' /\ Numbers' /\ Answers'
  BY SendKeepsStarts, SendKeepsNumbers
<1>5. Events' /\ Ends' /\ InOrder'
  BY <1>2, <1>3, EventsStay, ToldFlows, EndsStay, OrderStays
<1> QED
  BY <1>4, <1>5

LEMMA AcceptKeeps ==
  ASSUME BridgeInv, Turning, WorkerAccepts
  PROVE  Starts' /\ Numbers' /\ Answers' /\ InOrder' /\ Events' /\ Ends'
<1> USE DEF BridgeInv, Turning
<1>1. UNCHANGED <<reader, channel>> /\ UNCHANGED turnVars
  BY DEF WorkerAccepts, WorkerStep, admissionVars, turnVars, clientVars
<1>2. /\ NextTurnId \in TurnIds /\ worker[NextTurnId] = None
      /\ \A id \in TurnIds : id # NextTurnId => worker'[id] = worker[id]
  BY AcceptShape
<1>3. TurnsGoOn /\ Told
  BY <1>1, <1>2 DEF TurnsGoOn, Told, ReaderGoesOn
<1>4. LedgerFollows
  BY <1>1, StillLedger
<1>5. Starts' /\ Numbers' /\ Answers' /\ InOrder'
  BY <1>2, AcceptKeepsStarts, AcceptKeepsNumbers
<1>6. Events' /\ Ends'
  BY <1>3, <1>4, EventsStay, ToldFlows, EndsStay
<1> QED
  BY <1>5, <1>6

\* An operation enters the ledger with its call or event, and leaves with it.
LEMMA OperationMoves ==
  ASSUME Ledger, NEW o \in OperationTokens
  PROVE  /\ \A kind \in ActivityKinds : ReserveOperation(o, kind) =>
              /\ operations'[o] # None
              /\ \A p \in OperationTokens : p # o => operations'[p] = operations[p]
         /\ \A uncertain : FinishOperation(o, uncertain) =>
              \A p \in OperationTokens : p # o => operations'[p] = operations[p]
<1>1. operations \in [OperationTokens -> ActivityKinds \cup {None}]
  BY DEF Ledger, TypeOK
<1>2. \A kind \in ActivityKinds : kind # None
  BY AdmissionAssumption
<1> QED
  BY <1>1, <1>2 DEF ReserveOperation, FinishOperation

LEMMA AdmittedPreserved ==
  ASSUME BridgeInv, Admitted, [BridgeNext]_bridgeVars
  PROVE  Admitted'
<1> USE DEF BridgeInv
<1> DEFINE Handling == {"reserved", "accepted", "finish"}
<1>0. /\ Reader \in OperationTokens /\ Reader \notin Callers
      /\ \A c \in Callers : c \in OperationTokens
  BY BridgeAssumption
<1>1. ASSUME Moved, UNCHANGED operations,
             reader'.step \in Handling => reader.step \in Handling
      PROVE  Admitted'
  BY <1>1, CallsMove DEF Admitted
<1>2. ASSUME NEW c \in Callers, CallerStep(c)
      PROVE  Admitted'
  <2>1. Moved /\ \A d \in Callers : d # c => call'[d] = call[d]
    BY <1>2, CallerMoved
  <2>2. UNCHANGED reader
    BY <1>2 DEF CallerStep, CreateSession, ReservationRefused, Revise, ChooseTurn,
                MarkStopping, Reserve, Send, TimeOut, Bind, Fail, Record,
                EndInterrupt, Return, clientVars
  <2>3. CASE UNCHANGED operations
    BY <1>1, <2>1, <2>2, <2>3
  <2>4. CASE Return(c)
    <3>1. \A p \in OperationTokens : p # c => operations'[p] = operations[p]
      BY <1>0, <2>4, OperationMoves DEF Return
    <3>2. call'[c].step = "idle"
      BY <2>4 DEF Return, CallsOK, IdleCall
    <3> QED
      BY <1>0, <2>1, <2>2, <3>1, <3>2 DEF Admitted
  <2> QED
    BY <1>2, <2>3, <2>4 DEF CallerStep, CreateSession, ReservationRefused, Revise,
       ChooseTurn, MarkStopping, Reserve, Send, TimeOut, Bind, Fail, Record,
       EndInterrupt, admissionVars, InvalidEvent, TurnEvent, ReserveTurn, NotifyLost,
       MarkUnknown, BindTurn, RefuseBind, FailTurn
<1>3. ASSUME NEW c \in Callers, NEW th \in Threads, Begins(c, th)
      PROVE  Admitted'
  <2>1. /\ \A d \in Callers : d # c => call'[d] = call[d]
        /\ UNCHANGED reader /\ ReserveOperation(c, "operation")
    BY <1>3, BeginShape DEF clientVars
  <2>2. /\ operations'[c] # None
        /\ \A p \in OperationTokens : p # c => operations'[p] = operations[p]
    BY <1>0, <2>1, OperationMoves DEF ActivityKinds
  <2> QED
    BY <1>0, <2>1, <2>2 DEF Admitted
<1>4. CASE TakeEvent
  <2>1. UNCHANGED call
    BY <1>4 DEF TakeEvent, controllerVars
  <2>2. CASE ReserveOperation(Reader, "callback")
    <3>1. /\ operations'[Reader] # None
          /\ \A p \in OperationTokens : p # Reader => operations'[p] = operations[p]
      BY <1>0, <2>2, OperationMoves DEF ActivityKinds
    <3> QED
      BY <1>0, <2>1, <3>1 DEF Admitted
  <2>3. CASE MarkUnknown("unexpected_event") /\ UNCHANGED reader
    BY <1>1, <2>1, <2>3, NothingMoved DEF MarkUnknown
  <2> QED
    BY <1>4, <2>2, <2>3 DEF TakeEvent
<1>5. CASE FinishEvent
  <2>1. UNCHANGED call /\ reader'.step = "idle"
    BY <1>5 DEF FinishEvent, controllerVars
  <2>2. \A p \in OperationTokens : p # Reader => operations'[p] = operations[p]
    BY <1>0, <1>5, OperationMoves DEF FinishEvent
  <2> QED
    BY <1>0, <2>1, <2>2 DEF Admitted
<1>6. CASE DeliverReply
  <2>1. UNCHANGED <<operations, reader>>
    BY <1>6 DEF DeliverReply, admissionVars, clientVars
  <2> QED
    BY <1>1, <1>6, <2>1, RepliedMoved
<1>7. CASE AcceptEvent \/ RecordEvent \/ StreamEnds
  <2>1. UNCHANGED <<operations, call>>
    BY <1>7 DEF AcceptEvent, RecordEvent, StreamEnds, controllerVars, admissionVars,
                TurnEvent, MarkUnknown, NotifyLost
  <2>2. reader'.step \in Handling => reader.step \in Handling
    BY <1>7 DEF AcceptEvent, RecordEvent, StreamEnds, ReaderOK
  <2> QED
    BY <1>1, <2>1, <2>2, NothingMoved
<1>8. CASE StreamEnded \/ TerminateApp
  <2>1. UNCHANGED operations /\ Moved
    BY <1>8, WokenMoved DEF StreamEnded, TerminateApp, admissionVars
  <2>2. reader'.step \in Handling => reader.step \in Handling
    BY <1>8 DEF StreamEnded, TerminateApp, ReaderOK
  <2> QED
    BY <1>1, <2>1, <2>2
<1>9. CASE \/ UNCHANGED bridgeVars \/ CloseAdmission \/ CloseApp
           \/ EnterMaintenance \/ EndMaintenance \/ WorkerActs
           \/ ClaimController /\ UNCHANGED <<controllerVars, clientVars, workerVars>>
  <2>1. UNCHANGED <<operations, call, reader>>
    BY <1>9 DEF bridgeVars, admissionVars, controllerVars, clientVars, CloseAdmission,
       CloseApp, Close, NotifyLost, MarkUnknown, EnterMaintenance, EndMaintenance,
       TryEnterMaintenance, LeaveMaintenance, ClaimController, WorkerActs, WorkerStep,
       WorkerAccepts, WorkerAnswers, WorkerReplies, WorkerAnnounces, WorkerCompletes,
       WorkerTalks, WorkerDies
  <2> QED
    BY <1>1, <2>1, NothingMoved
<1> QED
  BY <1>2, <1>3, <1>4, <1>5, <1>6, <1>7, <1>8, <1>9 DEF BridgeNext, ReaderStep, Begins

LEMMA TurningPreserved ==
  ASSUME BridgeInv, History, Turning, [BridgeNext]_bridgeVars
  PROVE  Turning'
<1>1. Starts' /\ Numbers' /\ Answers' /\ InOrder' /\ Events' /\ Ends'
  BY NextKinds, QuietlyKeeps, BeginKeeps, ReserveKeeps, SendKeeps, AcceptKeeps
  DEF Turning
<1>2. Admitted'
  BY AdmittedPreserved DEF Turning
<1> QED
  BY <1>1, <1>2 DEF Turning

LEMMA TurningInitially == BridgeInit => Turning
<1> SUFFICES ASSUME BridgeInit PROVE Turning
  OBVIOUS
<1>1. /\ calls = 0 /\ \A c \in Callers : call[c] = IdleCall
      /\ requests = <<>> /\ channel = <<>> /\ \A id \in TurnIds : worker[id] = None
      /\ \A r \in TurnTokens : turns[r] = None
      /\ completed = {} /\ reader.step = "idle"
  BY DEF BridgeInit, Init
<1>2. IdleCall.step = "idle" /\ IdleCall.kind = None
  BY DEF IdleCall
<1>3. \A i \in Places(requests) \cup Places(channel) : FALSE
  BY <1>1 DEF Places
<1>4. \A c \in Callers : /\ ~Owns(call[c]) /\ ~Unsent(call[c]) /\ ~IsStart(call[c])
                         /\ ~Unasked(call[c])
  BY <1>1, <1>2 DEF Owns, OwnSteps, Unsent, IsStart, Unasked
<1>5. \A id \in TurnIds : ~Alive(id)
  BY <1>1 DEF Alive
<1>6. Starts
  BY <1>1, <1>3, <1>4, <1>5 DEF Starts, ReservedInPlace, OwnersHold, StartsHeld, OneStart
<1>7. Numbers /\ Answers
  BY <1>1, <1>2, <1>3, <1>4, BridgeAssumption DEF Numbers, Answers
<1>8. InOrder
  <2>1. 0 \in 0 .. MaxCalls /\ \A id \in TurnIds : ~(id <= 0)
    BY BridgeAssumption
  <2> QED
    BY <1>1, <2>1 DEF InOrder
<1>9. Events /\ Ends /\ Admitted
  BY <1>1, <1>2, <1>3 DEF Events, Ends, Admitted
<1> QED
  BY <1>6, <1>7, <1>8, <1>9 DEF Turning

LEMMA TurningAlways == BridgeSpec => [](History /\ Turning)
<1>1. BridgeSpec => []History
  BY UsesLedger, HistoryAlways, PTL
<1>2. BridgeInv /\ History /\ Turning /\ [BridgeNext]_bridgeVars => Turning'
  BY TurningPreserved
<1> QED
  BY <1>1, <1>2, TurningInitially, BridgeAlways, PTL DEF BridgeSpec

-----------------------------------------------------------------------------
(* The theorems that follow. *)

LEMMA RunningAlive ==
  ASSUME BridgeInv, Ends, NEW id \in TurnIds, Running(id)
  PROVE  Alive(id)
<1>1. worker[id] # None /\ worker[id].running /\ worker[id].thread \in Threads
  BY WorkerThread DEF Running, BridgeInv
<1> QED
  BY <1>1 DEF Ends, Over, Alive

LEMMA HeldWhileRunning ==
  ASSUME BridgeInv, Turning, OneTurnPerWorkspace
  PROVE  TurnsHeld
<1> USE DEF BridgeInv, Turning
<1>1. ASSUME NEW th \in Threads, Holder(th) # None
      PROVE  Holder(th) \in ActiveTurns /\ turns[Holder(th)].thread = th
             /\ turns[Holder(th)].workspace = WorkspaceOf[th]
  BY <1>1, HolderHolds DEF ActiveTurns, Starts, ReservedInPlace
<1>2. \A id \in TurnIds : Running(id) =>
        /\ worker[id].thread \in Threads /\ Holder(worker[id].thread) # None
        /\ turns[Holder(worker[id].thread)].turnId \in {None, id}
  BY RunningAlive, WorkerThread DEF Starts, StartsHeld, Running
<1>3. \A i \in Places(requests) : Asks(i) =>
        requests[i].thread \in Threads /\ Holder(requests[i].thread) # None
  BY RequestThread DEF Starts, StartsHeld
<1>4. RunningTurnIsReserved
  BY <1>1, <1>2, <1>3 DEF RunningTurnIsReserved, Places, Asks
<1>5. ASSUME NEW i \in TurnIds, NEW j \in TurnIds, Running(i), Running(j),
             WorkspaceOf[worker[i].thread] = WorkspaceOf[worker[j].thread],
             WorkspaceOf[worker[i].thread] # NoWorkspace
      PROVE  i = j
  <2>1. Holder(worker[i].thread) = Holder(worker[j].thread)
    BY <1>1, <1>2, <1>5 DEF OneTurnPerWorkspace
  <2>2. worker[i].thread = worker[j].thread
    BY <1>1, <1>2, <1>5, <2>1
  <2>3. Alive(i) /\ Alive(j)
    BY <1>5, RunningAlive
  <2> QED
    BY <2>2, <2>3 DEF Starts, OneStart
<1> QED
  BY <1>4, <1>5 DEF TurnsHeld, OneWriterPerWorkspace

\* A turn the worker runs, or is asked to run, keeps its thread and its workspace
\* reserved, whatever becomes of the call that started it.
THEOREM TurnsStayHeld == BridgeSpec => []TurnsHeld
<1>1. BridgeInv /\ Turning /\ OneTurnPerWorkspace => TurnsHeld
  BY HeldWhileRunning
<1> QED
  BY <1>1, BridgeAlways, TurningAlways, BridgeExclusive, PTL

LEMMA IdleWhileLeased ==
  ASSUME BridgeInv, Turning, LeaseExcludesWork
  PROVE  IdleIsReal
<1> USE DEF BridgeInv, Turning
<1> SUFFICES ASSUME lease # NoLease
             PROVE  /\ \A id \in TurnIds : ~Running(id)
                    /\ \A i \in Places(requests) : ~Asks(i)
                    /\ \A i \in Places(channel) : ~TurnNews(channel[i])
                    /\ \A c \in Callers : call[c].step = "idle"
                    /\ reader.step \notin {"reserved", "accepted", "finish"}
  BY DEF IdleIsReal, Places, Asks, TurnNews
<1>1. /\ \A o \in OperationTokens : operations[o] = None
      /\ \A r \in TurnTokens : turns[r] = None
  BY DEF LeaseExcludesWork, ActiveOperations, ActiveTurns
<1>2. \A th \in Threads : Holder(th) = None
  BY <1>1, HolderHolds
<1>3. \A id \in TurnIds : ~Alive(id)
  BY <1>2, WorkerThread DEF Starts, StartsHeld, Alive
<1>4. \A id \in TurnIds : ~Running(id)
  BY <1>3, RunningAlive
<1>5. \A i \in Places(requests) : ~Asks(i)
  BY <1>2, RequestThread DEF Starts, StartsHeld
<1>6. ASSUME NEW i \in Places(channel), TurnNews(channel[i])
      PROVE  FALSE
  <2>1. OfThread(channel[i].id, channel[i].thread)
    BY <1>6 DEF Events, Genuine
  <2>2. /\ channel[i].id \in TurnIds /\ worker[channel[i].id] # None
        /\ worker[channel[i].id].thread \in Threads
    BY <2>1, WorkerThread DEF OfThread
  <2>3. Over(channel[i].id, worker[channel[i].id].thread)
    BY <1>3, <2>2 DEF Ends, Alive
  <2> QED
    BY <1>6, <2>3 DEF Over, Silent
<1>7. /\ \A c \in Callers : call[c].step = "idle"
      /\ reader.step \notin {"reserved", "accepted", "finish"}
  BY <1>1, BridgeAssumption DEF Admitted
<1> QED
  BY <1>4, <1>5, <1>6, <1>7

\* A maintenance lease is held only over a bridge that is idle in fact: no turn
\* runs or is asked for, none is heard of, and no call or event is being handled.
THEOREM MaintenanceIsIdle == BridgeSpec => []IdleIsReal
<1>1. BridgeInv /\ Turning /\ LeaseExcludesWork => IdleIsReal
  BY IdleWhileLeased
<1> QED
  BY <1>1, BridgeAlways, TurningAlways, BridgeExclusive, PTL

-----------------------------------------------------------------------------
(* What a session displays.  The start that may write it last is the latest of *)
(* its thread, and so is the turn an accepted event is of.                     *)

Latest(id, th) == \A jd \in TurnIds : OfThread(jd, th) => jd <= id

Displayed(th) == display[th] # None /\ display[th].id # None
AtSend(k)     == k.kind = "start" /\ k.step = "send"

ShownTurns    == \A th \in Threads : Displayed(th) => OfThread(display[th].id, th)
AliveIsLatest == \A id \in TurnIds : Alive(id) => Latest(id, worker[id].thread)

Revisions ==
  /\ \A th \in Threads : revisions[th] <= nextRevision
  /\ \A c \in Callers : call[c].revision <= nextRevision

\* No turn of the thread is later, and none is about to be.
RecordsLatest ==
  \A c \in Callers : call[c].step = "record" =>
    /\ call[c].kind = "start" /\ call[c].id # None
    /\ call[c].revision = revisions[call[c].thread] =>
         /\ Latest(call[c].id, call[c].thread)
         /\ \A i \in Places(requests) : Asks(i) => requests[i].thread # call[c].thread
         /\ \A d \in Callers : AtSend(call[d]) => call[d].thread # call[c].thread

AcceptedLatest ==
  reader.step = "accepted" /\ TurnNews(reader.event) /\ Displayed(reader.event.thread)
    => display[reader.event.thread].id <= reader.event.id

\* The thread of a session that is being made is no one else's.
SessionsNew ==
  \A c \in Callers : call[c].step = "session" =>
    /\ display[call[c].thread] = None
    /\ \A d \in Callers : d # c => call[d].thread # call[c].thread

Showing == /\ ShownTurns /\ AliveIsLatest /\ Revisions /\ RecordsLatest
           /\ AcceptedLatest /\ SessionsNew

-----------------------------------------------------------------------------
(* What a step does to the display, to the revisions and to what may change    *)
(* them next.                                                                  *)

DisplayMoves ==
  UNCHANGED display \/ RecordEvent \/ \E c \in Callers : CreateSession(c) \/ Record(c)

RevisionsMove ==
  \/ /\ UNCHANGED <<revisions, nextRevision>>
     /\ \A c \in Callers : AtSend(call'[c]) =>
          AtSend(call[c]) /\ call'[c].thread = call[c].thread
  \/ \E c \in Callers : Revise(c)

CallShows(c) ==
  /\ call'[c].step = "record" => call'[c] = call[c] \/ Bind(c)
  /\ call'[c].step = "session" =>
       call'[c] = call[c] \/ \E th \in Threads : Begins(c, th)
  /\ \/ call'[c].thread \in {call[c].thread, None}
     \/ Begins(c, call'[c].thread) /\ call'[c].thread \in Threads
  /\ call'[c].revision \in {call[c].revision, 0} \/ Revise(c)

ReaderShows ==
  reader'.step = "accepted" => (UNCHANGED reader /\ reader.step = "accepted") \/ AcceptEvent

Shows == /\ DisplayMoves /\ RevisionsMove /\ ReaderShows
         /\ \A c \in Callers : CallShows(c)

LEMMA AsBefore ==
  ASSUME NEW c \in Callers, call'[c] = call[c]
  PROVE  CallShows(c)
  BY DEF CallShows

\* A call that is answered, or told that it will not be.
LEMMA AnsweredShows ==
  ASSUME CallsOK, DeliverReply \/ WakeWaiters,
         UNCHANGED <<display, revisions, nextRevision>>, ReaderShows
  PROVE  Shows
<1>1. ASSUME NEW c \in Callers, call'[c] # call[c]
      PROVE  /\ call'[c].step \in {"replied", "failing"}
             /\ call'[c].thread = call[c].thread /\ call'[c].revision = call[c].revision
  <2>1. call[c] \in Calls
    BY DEF CallsOK
  <2>2. \/ \E id : call'[c] = [call[c] EXCEPT !.step = "replied", !.id = id]
        \/ call'[c] = [call[c] EXCEPT !.step = "failing", !.uncertain = TRUE]
    <3>1. CASE DeliverReply
      BY <1>1, <3>1 DEF DeliverReply
    <3>2. CASE WakeWaiters
      BY <1>1, <3>2 DEF WakeWaiters
    <3> QED
      BY <3>1, <3>2
  <2> QED
    BY <2>1, <2>2 DEF Calls
<1>2. \A c \in Callers : CallShows(c)
  BY <1>1 DEF CallShows
<1>3. \A c \in Callers : AtSend(call'[c]) => AtSend(call[c]) /\ call'[c].thread = call[c].thread
  BY <1>1 DEF AtSend
<1> QED
  BY <1>2, <1>3 DEF Shows, DisplayMoves, RevisionsMove

LEMMA CallerShows ==
  ASSUME BridgeInv, NEW c \in Callers, CallerStep(c)
  PROVE  Shows
<1> USE DEF BridgeInv
<1> DEFINE k == call[c]
<1>1. PICK n \in Calls : call' = [call EXCEPT ![c] = n] /\ Advances(k, n)
  BY CallerAdvances
<1>2. call'[c] = n /\ \A d \in Callers : d # c => call'[d] = call[d]
  BY <1>1 DEF CallsOK
<1>3. k.step \in {"choose", "stop"} => k.kind = "interrupt"
  BY DEF CallsOK, Equipped
<1>4. CASE n = IdleCall
  <2>1. n.step = "idle" /\ n.thread = None /\ n.revision = 0 /\ k.step = "finish"
    BY <1>1, <1>4 DEF IdleCall, Advances, StepAfter
  <2>2. CallShows(c)
    BY <1>2, <2>1 DEF CallShows
  <2>3. UNCHANGED <<display, revisions, nextRevision, reader>>
    BY <2>1 DEF CallerStep, CreateSession, ReservationRefused, Revise, ChooseTurn,
                MarkStopping, Reserve, Send, TimeOut, Bind, Fail, Record,
                EndInterrupt, Return, clientVars
  <2> QED
    BY <1>2, <2>1, <2>2, <2>3, AsBefore
    DEF Shows, DisplayMoves, RevisionsMove, ReaderShows, AtSend
<1>5. CASE n # IdleCall
  <2>1. /\ StepAfter(k.step, n.step) /\ n.kind = k.kind /\ n.thread = k.thread
        /\ n.revision = k.revision \/ k.step = "revise"
        /\ n.step = "record" => k.kind = "start"
    BY <1>1, <1>5 DEF Advances
  <2>2. /\ n.step # "session"
        /\ n.step = "record" => k.step = "replied" /\ k.kind = "start"
        /\ n.step = "send" => k.step \in {"revise", "stop"}
    BY <2>1 DEF StepAfter
  <2>3. k.step = "replied" /\ k.kind = "start" => Bind(c)
    BY DEF CallerStep, CreateSession, ReservationRefused, Revise, ChooseTurn,
           MarkStopping, Reserve, Send, TimeOut, Fail, Record, EndInterrupt, Return
  <2>4. k.step = "revise" => Revise(c)
    BY DEF CallerStep, CreateSession, ReservationRefused, ChooseTurn,
           MarkStopping, Reserve, Send, TimeOut, Bind, Fail, Record, EndInterrupt, Return
  <2>5. CallShows(c)
    BY <1>2, <2>1, <2>2, <2>3, <2>4 DEF CallShows
  <2>6. RevisionsMove
    <3>1. CASE Revise(c)
      BY <3>1 DEF RevisionsMove
    <3>2. CASE ~Revise(c)
      <4>1. UNCHANGED <<revisions, nextRevision>>
        BY <3>2 DEF CallerStep, CreateSession, ReservationRefused, ChooseTurn,
                    MarkStopping, Reserve, Send, TimeOut, Bind, Fail, Record,
                    EndInterrupt, Return
      <4>2. ~AtSend(n)
        BY <1>3, <2>1, <2>2, <2>4, <3>2 DEF AtSend
      <4> QED
        BY <1>2, <4>1, <4>2 DEF RevisionsMove
    <3> QED
      BY <3>1, <3>2
  <2>7. DisplayMoves /\ UNCHANGED reader
    BY DEF CallerStep, CreateSession, ReservationRefused, Revise, ChooseTurn,
           MarkStopping, Reserve, Send, TimeOut, Bind, Fail, Record, EndInterrupt,
           Return, clientVars, DisplayMoves
  <2> QED
    BY <1>2, <2>5, <2>6, <2>7, AsBefore DEF Shows, ReaderShows
<1> QED
  BY <1>4, <1>5

LEMMA BeginShows ==
  ASSUME CallsOK, NEW c \in Callers, NEW th \in Threads, Begins(c, th)
  PROVE  Shows
<1>1. /\ call'[c].step \in {"session", "reserve", "choose"}
      /\ call'[c].thread = th /\ call'[c].revision = 0
      /\ \A d \in Callers : d # c => call'[d] = call[d]
      /\ UNCHANGED <<display, revisions, nextRevision, reader>>
  BY BeginShape DEF clientVars
<1>2. CallShows(c)
  BY <1>1 DEF CallShows
<1> QED
  BY <1>1, <1>2, AsBefore DEF Shows, DisplayMoves, RevisionsMove, ReaderShows, AtSend

LEMMA EveryStepShows ==
  ASSUME BridgeInv, [BridgeNext]_bridgeVars
  PROVE  Shows
<1> USE DEF BridgeInv
<1>1. ASSUME UNCHANGED <<call, display, revisions, nextRevision>>, ReaderShows
      PROVE  Shows
  BY <1>1, AsBefore DEF Shows, DisplayMoves, RevisionsMove
<1>2. CASE \E c \in Callers : CallerStep(c)
  BY <1>2, CallerShows
<1>3. CASE \E c \in Callers, th \in Threads : Begins(c, th)
  BY <1>3, BeginShows
<1>4. CASE DeliverReply \/ StreamEnded \/ TerminateApp
  <2>1. UNCHANGED <<display, revisions, nextRevision>>
    BY <1>4 DEF DeliverReply, StreamEnded, TerminateApp
  <2>2. ReaderShows
    BY <1>4 DEF DeliverReply, StreamEnded, TerminateApp, ReaderShows, clientVars, ReaderOK
  <2> QED
    BY <1>4, <2>1, <2>2, AnsweredShows DEF StreamEnded, TerminateApp
<1>5. CASE RecordEvent
  <2>1. /\ UNCHANGED <<call, revisions, nextRevision>> /\ reader'.step = "finish"
    BY <1>5 DEF RecordEvent, ReaderOK
  <2> QED
    BY <1>5, <2>1, AsBefore DEF Shows, DisplayMoves, RevisionsMove, ReaderShows
<1>6. CASE TakeEvent \/ AcceptEvent \/ FinishEvent \/ StreamEnds
  <2>1. UNCHANGED <<call, display, revisions, nextRevision>>
    BY <1>6 DEF TakeEvent, AcceptEvent, FinishEvent, StreamEnds, controllerVars
  <2>2. ReaderShows
    BY <1>6 DEF TakeEvent, FinishEvent, StreamEnds, ReaderShows, ReaderOK
  <2> QED
    BY <1>1, <2>1, <2>2
<1>7. CASE \/ UNCHANGED bridgeVars \/ CloseAdmission \/ CloseApp
           \/ EnterMaintenance \/ EndMaintenance \/ WorkerActs
           \/ ClaimController /\ UNCHANGED <<controllerVars, clientVars, workerVars>>
  <2>1. UNCHANGED <<call, display, revisions, nextRevision, reader>>
    BY <1>7 DEF bridgeVars, controllerVars, clientVars, CloseAdmission,
       CloseApp, EnterMaintenance, EndMaintenance, WorkerActs, WorkerStep,
       WorkerAccepts, WorkerAnswers, WorkerReplies, WorkerAnnounces, WorkerCompletes,
       WorkerTalks, WorkerDies
  <2> QED
    BY <1>1, <2>1 DEF ReaderShows
<1> QED
  BY <1>2, <1>3, <1>4, <1>5, <1>6, <1>7 DEF BridgeNext, ReaderStep, Begins

-----------------------------------------------------------------------------
(* The turns and the requests, whatever the step. *)

\* A new turn is of the request the worker has read; a new request is of a start
\* that a caller was about to send.
TurnsAdded ==
  \A jd \in TurnIds : \A th : worker'[jd] # None /\ worker'[jd].thread = th =>
    OfThread(jd, th) \/ (\E i \in Places(requests) : Asks(i) /\ requests[i].thread = th)

RequestsAdded ==
  \A i \in Places(requests') : Asks(i)' =>
    \/ \E j \in Places(requests) : Asks(j) /\ requests[j].thread = requests'[i].thread
    \/ \E d \in Callers : AtSend(call[d]) /\ call[d].thread = requests'[i].thread

LEMMA StreamsMove ==
  ASSUME BridgeInv, History, Turning, [BridgeNext]_bridgeVars
  PROVE  TurnsGoOn /\ TurnsAdded /\ RequestsAdded /\ completed \subseteq completed'
<1> USE DEF BridgeInv, Turning
<1>1. ASSUME WorkerKept
      PROVE  TurnsAdded
  BY <1>1 DEF TurnsAdded, WorkerKept, OfThread
<1>2. ASSUME Shrinks(requests, requests')
      PROVE  RequestsAdded
  <2>1. PICK o \in {0, 1} : \A i \in Places(requests') :
          i + o \in Places(requests) /\ requests'[i] = requests[i + o]
    BY <1>2, ShrunkQueue DEF WorkerOK
  <2> QED
    BY <2>1 DEF RequestsAdded, Asks
<1>3. CASE Quietly
  BY <1>1, <1>2, <1>3 DEF Quietly, Calm
<1>4. CASE UNCHANGED <<requests, worker, completed>>
  BY <1>1, <1>2, <1>4 DEF WorkerKept, Shrinks, TurnsGoOn
<1>5. CASE \E c \in Callers, th \in Threads : Begins(c, th)
  <2>1. UNCHANGED <<requests, worker, completed>>
    BY <1>5, BeginShape DEF workerVars, turnVars
  <2> QED
    BY <1>4, <2>1
<1>6. CASE \E c \in Callers, r \in TurnTokens : Reserve(c, r)
  <2>1. UNCHANGED <<requests, worker, completed>>
    BY <1>6 DEF Reserve, ReserveTurn, workerVars
  <2> QED
    BY <1>4, <2>1
<1>7. ASSUME NEW c \in Callers, Send(c), Connected
      PROVE  TurnsGoOn /\ TurnsAdded /\ RequestsAdded /\ completed \subseteq completed'
  <2>1. UNCHANGED <<worker, completed>> /\ call[c].step = "send"
    BY <1>7 DEF Send, admissionVars
  <2>2. PICK m \in Requests :
          /\ m.kind = call[c].kind /\ m.thread = call[c].thread
          /\ \A i \in Places(requests') :
               \/ i \in Places(requests) /\ requests'[i] = requests[i]
               \/ i = Len(requests) + 1 /\ requests'[i] = m
    BY <1>7, SendShape
  <2>3. RequestsAdded
    BY <2>1, <2>2 DEF RequestsAdded, Asks, AtSend
  <2> QED
    BY <1>1, <2>1, <2>3 DEF WorkerKept, TurnsGoOn
<1>8. CASE WorkerAccepts
  <2>1. /\ 1 \in Places(requests) /\ Asks(1) /\ worker[NextTurnId] = None
        /\ worker'[NextTurnId].thread = requests[1].thread
        /\ \A id \in TurnIds : id # NextTurnId => worker'[id] = worker[id]
        /\ \A i \in Places(requests') :
             i + 1 \in Places(requests) /\ requests'[i] = requests[i + 1]
    BY <1>8, AcceptShape
  <2>2. TurnsGoOn /\ TurnsAdded
    BY <2>1 DEF TurnsGoOn, TurnsAdded, OfThread
  <2>3. RequestsAdded
    BY <2>1 DEF RequestsAdded, Asks
  <2>4. UNCHANGED completed
    BY <1>8 DEF WorkerAccepts, WorkerStep, admissionVars
  <2> QED
    BY <2>2, <2>3, <2>4
<1> QED
  BY <1>3, <1>5, <1>6, <1>7, <1>8, NextKinds

-----------------------------------------------------------------------------
(* The parts of the invariant, one by one. *)

LEMMA CallThread ==
  ASSUME CallsOK, NEW c \in Callers, call[c].step # "idle"
  PROVE  call[c].thread \in Threads
  BY DEF CallsOK, Equipped

LEMMA ShownStay ==
  ASSUME BridgeInv, Turning, Showing, TurnsGoOn, DisplayMoves
  PROVE  ShownTurns'
<1> USE DEF BridgeInv, Turning, Showing
<1>1. \A id, th : OfThread(id, th) =>
        id \in TurnIds /\ worker'[id] # None /\ worker'[id].thread = th
  BY DEF OfThread, TurnsGoOn
<1>2. ASSUME NEW th \in Threads, display'[th] # None, display'[th].id # None
      PROVE  OfThread(display'[th].id, th)
  <2>1. CASE UNCHANGED display
    BY <1>2, <2>1 DEF ShownTurns, Displayed
  <2>2. ASSUME NEW c \in Callers, CreateSession(c)
        PROVE  OfThread(display'[th].id, th)
    <3>1. th # call[c].thread
      BY <1>2, <2>2 DEF CreateSession, CallsOK
    <3> QED
      BY <1>2, <2>2, <3>1 DEF CreateSession, CallsOK, ShownTurns, Displayed
  <2>3. ASSUME NEW c \in Callers, Record(c)
        PROVE  OfThread(display'[th].id, th)
    <3>1. OfThread(call[c].id, call[c].thread)
      BY <2>3 DEF Record, RecordsLatest, Answers, IsStart
    <3>2. \/ display'[th] = display[th]
          \/ th = call[c].thread /\ display'[th].id = call[c].id
      BY <2>3 DEF Record, CallsOK
    <3> QED
      BY <1>2, <3>1, <3>2 DEF ShownTurns, Displayed
  <2>4. CASE RecordEvent
    <3> DEFINE e == reader.event
    <3>1. \/ display'[th] = display[th]
          \/ th = e.thread /\ TurnNews(e) /\ display'[th].id = e.id
      BY <2>4 DEF RecordEvent, Recorded, TurnNews, CallsOK
    <3>2. TurnNews(e) => OfThread(e.id, e.thread)
      BY <2>4 DEF RecordEvent, Events, Genuine
    <3> QED
      BY <1>2, <3>1, <3>2 DEF ShownTurns, Displayed
  <2> QED
    BY <2>1, <2>2, <2>3, <2>4 DEF DisplayMoves
<1> QED
  BY <1>1, <1>2 DEF ShownTurns, Displayed, OfThread

LEMMA LatestStays ==
  ASSUME TurnsAdded, NEW id, NEW th, Latest(id, th),
         \A i \in Places(requests) : Asks(i) => requests[i].thread # th
  PROVE  \A jd \in TurnIds : worker'[jd] # None /\ worker'[jd].thread = th => jd <= id
  BY DEF TurnsAdded, Latest

\* A turn that is accepted is later than all others.
LEMMA AliveLatestStays ==
  ASSUME BridgeInv, History, Turning, Showing, [BridgeNext]_bridgeVars
  PROVE  AliveIsLatest'
<1> USE DEF BridgeInv, Turning, Showing
<1>1. TurnsGoOn /\ TurnsAdded /\ completed \subseteq completed'
  BY StreamsMove
<1>2. ASSUME NEW id \in TurnIds, Alive(id)', Alive(id)
      PROVE  \A jd \in TurnIds :
               worker'[jd] # None /\ worker'[jd].thread = worker'[id].thread => jd <= id
  <2>1. worker'[id].thread = worker[id].thread
    BY <1>1, <1>2 DEF TurnsGoOn, Alive
  <2>2. \A i \in Places(requests) : Asks(i) => requests[i].thread # worker[id].thread
    BY <1>2 DEF Starts, OneStart
  <2>3. Latest(id, worker[id].thread)
    BY <1>2 DEF AliveIsLatest
  <2> QED
    BY <1>1, <2>1, <2>2, <2>3, LatestStays
<1>3. ASSUME NEW id \in TurnIds, Alive(id)', ~Alive(id)
      PROVE  \A jd \in TurnIds :
               worker'[jd] # None /\ worker'[jd].thread = worker'[id].thread => jd <= id
  <2>1. worker[id] = None /\ worker'[id] # None
    BY <1>1, <1>3 DEF TurnsGoOn, Alive
  <2>2. WorkerAccepts
    <3>1. ~WorkerKept
      BY <2>1 DEF WorkerKept
    <3>2. CASE Quietly
      BY <3>1, <3>2 DEF Quietly, Calm
    <3>3. CASE UNCHANGED worker
      BY <2>1, <3>3
    <3> QED
      BY <3>2, <3>3, NextKinds, BeginShape DEF workerVars, Reserve, Send
  <2>3. /\ NextTurnId \in TurnIds
        /\ \A jd \in TurnIds : jd # NextTurnId => worker'[jd] = worker[jd]
        /\ \A jd \in TurnIds : worker[jd] # None <=> jd < NextTurnId
    BY <2>2, AcceptShape, NextTurn
  <2>4. id = NextTurnId
    BY <2>1, <2>3
  <2>5. \A jd \in TurnIds : worker'[jd] # None => jd < id \/ jd = id
    BY <2>3, <2>4
  <2> QED
    BY <2>5, BridgeAssumption
<1> QED
  BY <1>2, <1>3 DEF AliveIsLatest, Latest, OfThread

LEMMA RevisionsStay ==
  ASSUME CallsOK, Revisions, Shows
  PROVE  Revisions'
<1>1. CASE \E c \in Callers : Revise(c)
  <2>1. PICK c \in Callers : Revise(c)
    BY <1>1
  <2>2. /\ nextRevision \in Nat /\ nextRevision' = nextRevision + 1
        /\ revisions' = [revisions EXCEPT ![call[c].thread] = nextRevision']
        /\ revisions \in [Threads -> Nat]
    BY <2>1 DEF Revise, CallsOK
  <2>3. \A th \in Threads : revisions'[th] <= nextRevision'
    BY <2>2 DEF Revisions
  <2>4. ASSUME NEW d \in Callers
        PROVE  call'[d].revision <= nextRevision'
    <3>1. call[d].revision \in Nat /\ call[d].revision <= nextRevision
      BY DEF CallsOK, Calls, Revisions
    <3>2. CASE d # c
      BY <2>1, <2>2, <3>1, <3>2 DEF Revise, CallsOK
    <3>3. CASE d = c
      <4>1. call'[c] = [call[c] EXCEPT !.step = "send", !.revision = nextRevision']
        BY <2>1 DEF Revise, CallsOK
      <4>2. call'[c].revision = nextRevision'
        BY <4>1 DEF CallsOK, Calls
      <4> QED
        BY <2>2, <3>3, <4>2
    <3> QED
      BY <3>2, <3>3
  <2> QED
    BY <2>3, <2>4 DEF Revisions
<1>2. CASE ~\E c \in Callers : Revise(c)
  <2>1. /\ UNCHANGED <<revisions, nextRevision>>
        /\ \A c \in Callers : call'[c].revision \in {call[c].revision, 0}
    BY <1>2 DEF Shows, RevisionsMove, CallShows
  <2>2. 0 <= nextRevision
    BY DEF CallsOK
  <2> QED
    BY <2>1, <2>2 DEF Revisions
<1> QED
  BY <1>1, <1>2

\* The answer that is bound names the turn of the thread that is alive.
LEMMA BoundIsLatest ==
  ASSUME BridgeInv, Turning, Showing, NEW c \in Callers, Bind(c),
         call'[c].step = "record"
  PROVE  /\ call[c].kind = "start" /\ call[c].id # None
         /\ call'[c].kind = "start" /\ call'[c].id = call[c].id
         /\ call'[c].thread = call[c].thread /\ ~AtSend(call'[c])
         /\ Latest(call[c].id, call[c].thread)
         /\ \A i \in Places(requests) : Asks(i) => requests[i].thread # call[c].thread
         /\ \A d \in Callers : AtSend(call[d]) => call[d].thread # call[c].thread
<1> USE DEF BridgeInv, Turning, Showing
<1> DEFINE k == call[c]
<1>1. k \in Calls /\ k.kind = "start" /\ k.step = "replied" /\ call'[c].step # "failing"
  BY DEF Bind, CallsOK
<1>2. k.id # None /\ BindTurn(k.token, k.id)
  <2>1. \A u \in BOOLEAN : call'[c] # [k EXCEPT !.step = "failing", !.uncertain = u]
    BY <1>1 DEF Calls
  <2>2. \A u : Raise(c, "failing", u) => call'[c] = [k EXCEPT !.step = "failing", !.uncertain = u]
    BY DEF Raise, CallsOK
  <2> QED
    BY <2>1, <2>2 DEF Bind
<1>3. call'[c] = [k EXCEPT !.step = "record", !.active = BindShown(k.token)]
  <2>1. ~RefuseBind(k.token, k.id)
    BY <1>2 DEF RefuseBind, BindTurn
  <2> QED
    BY <1>2, <2>1 DEF Bind, CallsOK
<1>4. /\ call'[c].kind = k.kind /\ call'[c].id = k.id /\ call'[c].thread = k.thread
  BY <1>1, <1>3 DEF Calls
<1>5. OfThread(k.id, k.thread)
  BY <1>1, <1>2 DEF Answers, IsStart
<1>6. Alive(k.id)
  <2>1. Owns(k)
    BY <1>1 DEF Owns, OwnSteps
  <2>2. k.token \in TurnTokens /\ turns[k.token].thread = k.thread
        /\ turns[k.token].app = App
    BY <1>1, <2>1 DEF CallsOK, Equipped, HoldingSteps, Starts, OwnersHold, ReservedInPlace
  <2> QED
    BY <1>2, <1>5, <2>2 DEF BindTurn, BindMismatch, Alive, OfThread
<1>7. k.id \in TurnIds /\ worker[k.id].thread = k.thread
  BY <1>5 DEF OfThread
<1>8. \A d \in Callers : AtSend(call[d]) => Unsent(call[d])
  BY DEF AtSend, Unsent
<1>9. /\ Latest(k.id, k.thread)
      /\ \A i \in Places(requests) : Asks(i) => requests[i].thread # k.thread
      /\ \A d \in Callers : AtSend(call[d]) => call[d].thread # k.thread
  BY <1>6, <1>7, <1>8 DEF AliveIsLatest, Starts, OneStart
<1> QED
  BY <1>1, <1>2, <1>4, <1>9 DEF AtSend

LEMMA RecordsStay ==
  ASSUME BridgeInv, History, Turning, Showing, [BridgeNext]_bridgeVars
  PROVE  RecordsLatest'
<1> USE DEF BridgeInv, Turning, Showing
<1> DEFINE Settled(id, th) ==
             /\ Latest(id, th)
             /\ \A i \in Places(requests) : Asks(i) => requests[i].thread # th
             /\ \A d \in Callers : AtSend(call[d]) => call[d].thread # th
           SettledThen(id, th) ==
             /\ \A jd \in TurnIds : worker'[jd] # None /\ worker'[jd].thread = th => jd <= id
             /\ \A i \in Places(requests') :
                  requests'[i].kind = "start" => requests'[i].thread # th
             /\ \A d \in Callers : AtSend(call'[d]) => call'[d].thread # th
<1>1. Shows /\ TurnsAdded /\ RequestsAdded
  BY EveryStepShows, StreamsMove
<1>2. ASSUME NEW id, NEW th, Settled(id, th),
             \A d \in Callers : AtSend(call'[d]) => call'[d].thread # th
      PROVE  SettledThen(id, th)
  <2>1. \A jd \in TurnIds : worker'[jd] # None /\ worker'[jd].thread = th => jd <= id
    BY <1>1, <1>2, LatestStays
  <2>2. \A i \in Places(requests') : requests'[i].kind = "start" => requests'[i].thread # th
    BY <1>1, <1>2 DEF RequestsAdded, Asks
  <2> QED
    BY <1>2, <2>1, <2>2
<1>3. ASSUME NEW c \in Callers, call'[c].step = "record", Bind(c)
      PROVE  /\ call'[c].kind = "start" /\ call'[c].id # None
             /\ SettledThen(call'[c].id, call'[c].thread)
  <2>1. /\ call'[c].kind = "start" /\ call[c].id # None
        /\ call'[c].id = call[c].id /\ call'[c].thread = call[c].thread
        /\ ~AtSend(call'[c]) /\ Settled(call[c].id, call[c].thread)
    BY <1>3, BoundIsLatest
  <2>2. \A d \in Callers : d # c => call'[d] = call[d]
    BY <1>3, CallerMoved DEF CallerStep
  <2>3. \A d \in Callers : AtSend(call'[d]) => call'[d].thread # call[c].thread
    BY <2>1, <2>2
  <2> HIDE DEF Settled, SettledThen
  <2>4. SettledThen(call[c].id, call[c].thread)
    BY <1>2, <2>1, <2>3
  <2> QED
    BY <2>1, <2>4
<1>4. ASSUME NEW c \in Callers, call'[c].step = "record", call'[c] = call[c]
      PROVE  /\ call'[c].kind = "start" /\ call'[c].id # None
             /\ call'[c].revision = revisions'[call'[c].thread] =>
                  SettledThen(call'[c].id, call'[c].thread)
  <2> DEFINE th == call[c].thread
  <2>1. /\ call[c].kind = "start" /\ call[c].id # None
        /\ call[c].revision = revisions[th] => Settled(call[c].id, th)
    BY <1>4 DEF RecordsLatest
  <2>2. th \in Threads
    BY <1>4, CallThread
  <2>3. ASSUME call[c].revision = revisions'[th]
        PROVE  /\ call[c].revision = revisions[th]
               /\ \A d \in Callers : AtSend(call'[d]) => call'[d].thread # th
    <3>1. CASE \E e \in Callers : Revise(e)
      <4>1. PICK e \in Callers : Revise(e)
        BY <3>1
      <4>2. /\ nextRevision' = nextRevision + 1 /\ nextRevision \in Nat
            /\ revisions' = [revisions EXCEPT ![call[e].thread] = nextRevision']
            /\ revisions \in [Threads -> Nat]
            /\ call[c].revision \in Nat /\ call[c].revision <= nextRevision
        BY <4>1 DEF Revise, CallsOK, Calls, Revisions
      <4>3. call[e].thread # th /\ call[c].revision = revisions[th]
        BY <2>2, <2>3, <4>2
      <4>4. \A d \in Callers : d # e => call'[d] = call[d]
        BY <4>1, CallerMoved DEF CallerStep
      <4>5. call'[e].thread = call[e].thread
        <5>1. call'[e] = [call[e] EXCEPT !.step = "send", !.revision = nextRevision']
              /\ call[e] \in Calls
          BY <4>1 DEF Revise, CallsOK
        <5> QED
          BY <5>1 DEF Calls
      <4>6. \A d \in Callers : AtSend(call[d]) => call[d].thread # th
        BY <2>1, <4>3
      <4> QED
        BY <4>3, <4>4, <4>5, <4>6
    <3>2. CASE ~\E e \in Callers : Revise(e)
      <4>1. /\ UNCHANGED revisions
            /\ \A d \in Callers : AtSend(call'[d]) =>
                 AtSend(call[d]) /\ call'[d].thread = call[d].thread
        BY <1>1, <3>2 DEF Shows, RevisionsMove
      <4> QED
        BY <2>1, <2>3, <4>1
    <3> QED
      BY <3>1, <3>2
  <2> HIDE DEF Settled, SettledThen
  <2> QED
    BY <1>2, <1>4, <2>1, <2>3
<1>5. ASSUME NEW c \in Callers, call'[c].step = "record"
      PROVE  /\ call'[c].kind = "start" /\ call'[c].id # None
             /\ call'[c].revision = revisions'[call'[c].thread] =>
                  SettledThen(call'[c].id, call'[c].thread)
  <2>1. call'[c] = call[c] \/ Bind(c)
    BY <1>1, <1>5 DEF Shows, CallShows
  <2> HIDE DEF SettledThen
  <2> QED
    BY <1>3, <1>4, <1>5, <2>1
<1> QED
  BY <1>5 DEF RecordsLatest, Latest, OfThread, Asks, AtSend, Places

LEMMA AcceptedStays ==
  ASSUME BridgeInv, Turning, Showing, Shows
  PROVE  AcceptedLatest'
<1> USE DEF BridgeInv, Turning, Showing
<1> DEFINE e  == reader.event
           th == e.thread
<1>1. ASSUME reader'.step = "accepted", TurnNews(reader'.event),
             display'[reader'.event.thread] # None,
             display'[reader'.event.thread].id # None
      PROVE  display'[reader'.event.thread].id <= reader'.event.id
  <2>1. CASE UNCHANGED reader /\ reader.step = "accepted"
    <3>1. UNCHANGED display
      <4>1. ~LockFree /\ ~RecordEvent
        BY <2>1 DEF LockFree, RecordEvent, ReaderOK
      <4> QED
        BY <4>1 DEF Shows, DisplayMoves, CreateSession, Record
    <3> QED
      BY <1>1, <2>1, <3>1 DEF AcceptedLatest, Displayed
  <2>2. CASE AcceptEvent
    <3>1. /\ UNCHANGED display /\ reader.step = "reserved" /\ reader'.event = e
      BY <2>2 DEF AcceptEvent, controllerVars, ReaderOK
    <3>2. e \in Messages /\ e.kind # "reply" /\ TurnNews(e)
      BY <1>1, <3>1 DEF ReaderOK
    <3>3. EventAccepted(e.kind, App, th, e.id)
      BY <1>1, <2>2, <3>2 DEF AcceptEvent, TurnNews, ReaderOK
    <3>4. OfThread(e.id, th)
      BY <3>1, <3>2 DEF Events, Genuine
    <3>5. Alive(e.id)
      BY <3>3, <3>4 DEF EventAccepted, Duplicate, Alive, OfThread
    <3>6. Latest(e.id, th)
      BY <3>4, <3>5 DEF AliveIsLatest, OfThread
    <3>7. th \in Threads
      BY <3>2, EventOfThread
    <3>8. OfThread(display[th].id, th)
      BY <1>1, <3>1, <3>7 DEF ShownTurns, Displayed
    <3> QED
      BY <3>1, <3>6, <3>8 DEF Latest, OfThread
  <2> QED
    BY <1>1, <2>1, <2>2 DEF Shows, ReaderShows
<1> QED
  BY <1>1 DEF AcceptedLatest, Displayed, TurnNews

LEMMA SessionsStay ==
  ASSUME BridgeInv, Showing, [BridgeNext]_bridgeVars
  PROVE  SessionsNew'
<1> USE DEF BridgeInv, Showing
<1>1. Shows
  BY EveryStepShows
<1>2. ASSUME NEW c \in Callers, call'[c].step = "session", call'[c] = call[c]
      PROVE  /\ display'[call'[c].thread] = None
             /\ \A d \in Callers : d # c => call'[d].thread # call'[c].thread
  <2> DEFINE th == call[c].thread
  <2>1. /\ th \in Threads /\ display[th] = None
        /\ \A d \in Callers : d # c => call[d].thread # th
    BY <1>2, CallThread DEF SessionsNew
  <2>2. ASSUME NEW d \in Callers, CreateSession(d) \/ Record(d)
        PROVE  display'[th] = display[th]
    <3>1. d # c
      <4>1. PICK s \in {"reserve", "finish"} : call' = [call EXCEPT ![d].step = s]
        BY <2>2 DEF CreateSession, Record, Step
      <4>2. call'[d].step = s
        BY <4>1 DEF CallsOK, Calls
      <4> QED
        BY <1>2, <4>2
    <3> QED
      BY <2>1, <2>2, <3>1 DEF CreateSession, Record, CallsOK
  <2>3. RecordEvent => display'[th] = display[th]
    BY <2>1 DEF RecordEvent, CallsOK
  <2>4. display'[th] = None
    BY <1>1, <2>1, <2>2, <2>3 DEF Shows, DisplayMoves
  <2>5. ASSUME NEW d \in Callers, d # c, call'[d].thread = th
        PROVE  FALSE
    <3>1. None \notin Threads
      BY BridgeAssumption
    <3>2. Begins(d, th)
      BY <1>1, <2>1, <2>5, <3>1 DEF Shows, CallShows
    <3> QED
      BY <2>1, <3>2 DEF Begins, BeginStart, BeginOther
  <2> QED
    BY <1>2, <2>4, <2>5
<1>3. ASSUME NEW c \in Callers, NEW th \in Threads, call'[c].step = "session",
             Begins(c, th)
      PROVE  /\ display'[call'[c].thread] = None
             /\ \A d \in Callers : d # c => call'[d].thread # call'[c].thread
  <2>1. /\ BeginStart(c, th) /\ call'[c].thread = th /\ UNCHANGED display
        /\ \A d \in Callers : d # c => call'[d] = call[d]
    BY <1>3, BeginShape
  <2> QED
    BY <2>1 DEF BeginStart
<1> QED
  BY <1>1, <1>2, <1>3 DEF Shows, CallShows, SessionsNew

LEMMA ShowingPreserved ==
  ASSUME BridgeInv, History, Turning, Showing, [BridgeNext]_bridgeVars
  PROVE  Showing'
<1>1. Shows /\ TurnsGoOn
  BY EveryStepShows, StreamsMove
<1>2. ShownTurns'
  BY <1>1, ShownStay DEF Shows
<1>3. AliveIsLatest' /\ RecordsLatest' /\ SessionsNew'
  BY AliveLatestStays, RecordsStay, SessionsStay
<1>4. Revisions' /\ AcceptedLatest'
  BY <1>1, RevisionsStay, AcceptedStays DEF BridgeInv, Showing
<1> QED
  BY <1>2, <1>3, <1>4 DEF Showing

LEMMA ShowingAlways == BridgeSpec => []Showing
<1>1. BridgeInit => Showing
  <2> SUFFICES ASSUME BridgeInit PROVE Showing
    OBVIOUS
  <2>1. /\ \A c \in Callers : call[c] = IdleCall
        /\ \A th \in Threads : display[th] = None /\ revisions[th] = 0
        /\ nextRevision = 0 /\ reader.step = "idle"
        /\ \A id \in TurnIds : worker[id] = None
    BY DEF BridgeInit
  <2>2. IdleCall.step = "idle" /\ IdleCall.revision = 0
    BY DEF IdleCall
  <2>3. Revisions
    BY <2>1, <2>2 DEF Revisions
  <2> QED
    BY <2>1, <2>2, <2>3 DEF Showing, ShownTurns, Displayed, AliveIsLatest, Alive,
                            RecordsLatest, AcceptedLatest, SessionsNew
<1>2. BridgeInv /\ History /\ Turning /\ Showing /\ [BridgeNext]_bridgeVars => Showing'
  BY ShowingPreserved
<1> QED
  BY <1>1, <1>2, BridgeAlways, TurningAlways, PTL DEF BridgeSpec

LEMMA DisplayForward ==
  ASSUME BridgeInv, Turning, Showing, Shows
  PROVE  DisplayMovesForward
<1> USE DEF BridgeInv, Turning, Showing
<1> SUFFICES ASSUME NEW th \in Threads, display[th] # None, display[th].id # None
             PROVE  /\ display'[th].id # None /\ display'[th].id >= display[th].id
                    /\ display'[th].id = display[th].id /\ Ended(display[th])
                         => Ended(display'[th])
  BY DEF DisplayMovesForward
<1>1. OfThread(display[th].id, th)
  BY DEF ShownTurns, Displayed
<1>2. display[th].id \in Nat /\ TurnIds \subseteq Nat /\ None \notin TurnIds
  BY <1>1, BridgeAssumption, AdmissionAssumption DEF OfThread
<1>3. CASE display'[th] = display[th]
  BY <1>2, <1>3
<1>4. ASSUME NEW c \in Callers, CreateSession(c)
      PROVE  display'[th] = display[th]
  BY <1>4 DEF CreateSession, SessionsNew, CallsOK
<1>5. ASSUME NEW c \in Callers, Record(c), display'[th] # display[th]
      PROVE  /\ display'[th].id # None /\ display'[th].id >= display[th].id
             /\ display'[th].id = display[th].id /\ Ended(display[th])
                  => Ended(display'[th])
  <2>1. ~SupersededRecord(c) /\ call[c].step = "record"
    BY <1>5 DEF Record
  <2>2. th = call[c].thread /\ display'[th].id = call[c].id
    BY <1>5, <2>1 DEF Record, CallsOK
  <2>3. /\ revisions[th] = call[c].revision
        /\ ~(display[th].id = call[c].id /\ Ended(display[th]))
    BY <2>1, <2>2 DEF SupersededRecord
  <2>4. call[c].id # None /\ Latest(call[c].id, th)
    BY <2>1, <2>2, <2>3 DEF RecordsLatest
  <2>5. call[c].id \in TurnIds
    BY <2>4 DEF CallsOK, Calls
  <2>6. display[th].id <= call[c].id
    BY <1>1, <2>4 DEF Latest, OfThread
  <2> QED
    BY <1>2, <2>2, <2>3, <2>4, <2>5, <2>6
<1>6. ASSUME RecordEvent, display'[th] # display[th]
      PROVE  /\ display'[th].id # None /\ display'[th].id >= display[th].id
             /\ display'[th].id = display[th].id /\ Ended(display[th])
                  => Ended(display'[th])
  <2> DEFINE e == reader.event
  <2>1. /\ th = e.thread /\ TurnNews(e) /\ display'[th].id = e.id
        /\ e.kind = "started" => ~(display[th].id = e.id /\ Ended(display[th]))
        /\ e.kind = "completed" => Ended(display'[th])
    BY <1>6 DEF RecordEvent, Recorded, TurnNews, CallsOK, Ended
  <2>2. e \in Messages /\ e.id \in TurnIds
    BY <1>6, EventOfThread DEF RecordEvent, ReaderOK
  <2>3. display[th].id <= e.id
    BY <1>6, <2>1 DEF RecordEvent, AcceptedLatest, Displayed
  <2> QED
    BY <1>2, <2>1, <2>2, <2>3 DEF TurnNews
<1> QED
  BY <1>3, <1>4, <1>5, <1>6 DEF Shows, DisplayMoves

\* What a session displays never goes back to an earlier turn, nor from the end of
\* a turn to its progress.
THEOREM DisplayGoesForward == BridgeSpec => DisplayNeverRegresses
<1>1. BridgeInv /\ Turning /\ Showing /\ [BridgeNext]_bridgeVars
        => [DisplayMovesForward]_bridgeVars
  BY EveryStepShows, DisplayForward
<1> QED
  BY <1>1, BridgeAlways, TurningAlways, ShowingAlways, PTL
  DEF BridgeSpec, DisplayNeverRegresses

=============================================================================
