--------------------------- MODULE ApprovalBroker ---------------------------
(***************************************************************************)
(* Requests of the coding worker that a person must approve, from the      *)
(* message on the wire to the answer on the wire.  For each request the    *)
(* reader thread reserves an operation in the ledger and starts a handler  *)
(* thread (AppServerClient); the handler registers the request with the    *)
(* controller and waits, with a time-out, for a call of resolve_approval   *)
(* (BridgeController); the session's pending and settled requests are      *)
(* saved with every change and read back by the next process.              *)
(*                                                                         *)
(* Each block under _lock is one step.  Answers are levels of permission,  *)
(* so that a wider one can be told from a narrower one.  The requests are  *)
(* those of one session; a request here is its (thread, request id) key,   *)
(* which the worker does not reuse.                                        *)
(***************************************************************************)
EXTENDS ControllerAdmission, Sequences, SequencesExt

CONSTANTS
  ApprovalRequests, \* approval requests the worker may make
  Strays,        \* whether a request may come from another connection
  Offered,       \* availableDecisions of each request, {} when it names none
  Resolvers,     \* threads that call resolve_approval
  MaxResolutions, \* bound on those calls
  MaxHistory,    \* entries kept in approval_history (50)
  WireLosses,    \* whether the stream may be lost or the controller closed,
  SaveFailures,  \* whether saving the state may fail, and
  MaxRestarts    \* how often the process may end and start again

Decline == 0    \* "decline", or no permissions
Once    == 1    \* "accept", or the permissions for the turn
Session == 2    \* "acceptForSession", or the permissions for the session
Answers == {Decline, Once, Session}

\* The reservation of the reader, which the reply releases, and the handler's own.
ReplyToken(q)   == <<q, "reply">>
HandlerToken(q) == <<q, "handler">>

ASSUME ApprovalAssumption ==
  /\ OperationTokens = Resolvers \cup (ApprovalRequests \X {"reply", "handler"})
  /\ Resolvers \cap (ApprovalRequests \X {"reply", "handler"}) = {}
  /\ Offered \in [ApprovalRequests -> SUBSET {Once, Session}]
  /\ MaxResolutions \in Nat /\ MaxHistory \in Nat /\ MaxRestarts \in Nat
  /\ Strays \in BOOLEAN /\ WireLosses \in BOOLEAN /\ SaveFailures \in BOOLEAN
  /\ None \notin Answers \cup ApprovalRequests
  /\ {"untracked_request", "callback_response_unsent", "transport_lost",
      "recovered_state_unverified"} \subseteq ReportedReasons

HandlerSteps ==
  {"unasked", "asked", "enter", "register", "wait", "collect", "leave", "answer",
   "fallback", "finish", "unsent", "release", "reject", "done", "lost"}

Handler ==
  [step : HandlerSteps, signaled : BOOLEAN, answer : Answers,
   raised : BOOLEAN,      \* the controller's handler raised
   sent : BOOLEAN,        \* response_sent
   uncertain : BOOLEAN,   \* delivery_uncertain
   dispatched : BOOLEAN]  \* the handler thread was started

Unasked ==
  [step |-> "unasked", signaled |-> FALSE, answer |-> Decline, raised |-> FALSE,
   sent |-> FALSE, uncertain |-> FALSE, dispatched |-> TRUE]

Resolutions ==
  [step : {"idle", "decide", "return"}, request : ApprovalRequests \cup {None},
   level : Answers]
NoResolution == [step |-> "idle", request |-> None, level |-> Decline]

Settled ==
  [request : ApprovalRequests, status : {"resolved", "timed_out_declined",
                                 "abandoned_on_restart"},
   answer : Answers \cup {None}]

VARIABLES
  handler,     \* each request's handler
  wire,        \* what the worker may have read in answer to each request
  waiting,     \* _approval_waiters
  results,     \* _approval_results, None when absent
  pending,     \* pending_approvals of the session
  history,     \* approval_history of the session
  disk,        \* the same two, as last saved
  resolution,  \* the call each resolver is in
  resolveCalls, \* number of those calls begun
  granted,     \* levels acknowledged to the callers, in order
  wireOpen,    \* the worker still holds its end of the pipe
  restarts     \* number of restarts

approvalVars == <<handler, wire, waiting, results, pending, history, disk,
                  resolution, resolveCalls, granted, wireOpen, restarts>>
allVars == <<admissionVars, approvalVars>>

ApprovalTypeOK ==
  /\ TypeOK
  /\ handler \in [ApprovalRequests -> Handler]
  /\ wire \in [ApprovalRequests -> Seq(Answers)]
  /\ waiting \subseteq ApprovalRequests
  /\ results \in [ApprovalRequests -> Answers \cup {None}]
  /\ pending \subseteq ApprovalRequests
  /\ history \in Seq(Settled) /\ Len(history) <= MaxHistory
  /\ disk \in [pending : SUBSET ApprovalRequests, history : Seq(Settled)]
  /\ resolution \in [Resolvers -> Resolutions]
  /\ resolveCalls \in 0 .. MaxResolutions
  /\ granted \in [ApprovalRequests -> Seq(Answers)]
  /\ wireOpen \in BOOLEAN
  /\ restarts \in 0 .. MaxRestarts

ApprovalInit ==
  /\ Init
  /\ handler = [q \in ApprovalRequests |-> Unasked]
  /\ wire = [q \in ApprovalRequests |-> <<>>]
  /\ waiting = {}
  /\ results = [q \in ApprovalRequests |-> None]
  /\ pending = {}
  /\ history = <<>>
  /\ disk = [pending |-> {}, history |-> <<>>]
  /\ resolution = [r \in Resolvers |-> NoResolution]
  /\ resolveCalls = 0
  /\ granted = [q \in ApprovalRequests |-> <<>>]
  /\ wireOpen = TRUE
  /\ restarts = 0

-----------------------------------------------------------------------------
(* Helpers. *)

At(q, step) == handler[q].step = step
GoTo(q, step) == handler' = [handler EXCEPT ![q].step = step]

FaultyTrimmed(h) == h

\* The last MaxHistory entries.
Trimmed(h) == IF Len(h) <= MaxHistory THEN h
              ELSE SubSeq(h, Len(h) - MaxHistory + 1, Len(h))

\* _save_state, of what the session will hold.
Saved == disk' = [pending |-> pending', history |-> history']
SaveFailed == SaveFailures /\ UNCHANGED disk

\* What of the client and the controller a step of a handler leaves alone.
Unheard == UNCHANGED <<waiting, results, pending, history, disk, resolution,
                       resolveCalls, granted, wireOpen, restarts>>

\* _write of an answer: the step that follows when it returns and when it raises.
\* A write that raises may have been read, unless the stream was already gone.
Put(q, answer, sent, lost) ==
  \/ /\ wireOpen
     /\ wire' = [wire EXCEPT ![q] = Append(@, answer)]
     /\ handler' = [handler EXCEPT ![q].step = sent, ![q].sent = TRUE]
     /\ UNCHANGED admissionVars
  \/ /\ ~wireOpen \/ WireLosses
     /\ \/ UNCHANGED wire
        \/ wireOpen /\ wire' = [wire EXCEPT ![q] = Append(@, answer)]
     /\ handler' = [handler EXCEPT ![q].step = lost,
                                   ![q].uncertain = @ \/ At(q, "answer")]
     /\ MarkUnknown("transport_lost")

-----------------------------------------------------------------------------
(* The reader thread. *)

\* The worker asks.
Ask(q) ==
  /\ At(q, "unasked") /\ wireOpen
  /\ GoTo(q, "asked")
  /\ UNCHANGED <<admissionVars, wire>> /\ Unheard

\* _track_server_request: reserve before the handler thread starts, or refuse.
Track(q) ==
  /\ At(q, "asked")
  /\ \/ ReserveOperation(ReplyToken(q), "approval") /\ GoTo(q, "enter")
     \/ /\ ~(AdmissionOpen /\ OperationRoom)
        /\ MarkUnknown("untracked_request")
        /\ GoTo(q, "reject")
  /\ UNCHANGED wire /\ Unheard

\* Thread.start raising.
DispatchFails(q) ==
  /\ WireLosses /\ At(q, "enter") /\ handler[q].dispatched
  /\ handler' = [handler EXCEPT ![q].step = "unsent", ![q].dispatched = FALSE]
  /\ UNCHANGED <<admissionVars, wire>> /\ Unheard

\* _reject_server_request: a write that raises is swallowed.
Reject(q) == At(q, "reject") /\ Put(q, Decline, "done", "done") /\ Unheard

-----------------------------------------------------------------------------
(* The handler thread in the controller: _handle_app_approval_request. *)

\* The admission of the call.
Enter(q) ==
  /\ At(q, "enter")
  /\ \/ ReserveOperation(HandlerToken(q), "approval") /\ GoTo(q, "register")
     \/ /\ ~(AdmissionOpen /\ OperationRoom)
        /\ GoTo(q, "fallback")
        /\ UNCHANGED admissionVars
  /\ UNCHANGED wire /\ Unheard

\* A request of another connection is declined unseen, and one of an unknown
\* session is an error.
RegisterForeign(q) ==
  /\ At(q, "register") /\ Strays
  /\ \E raised \in BOOLEAN :
       handler' = [handler EXCEPT ![q].step = "leave", ![q].raised = raised]
  /\ UNCHANGED <<admissionVars, wire>> /\ Unheard

Register(q) ==
  /\ At(q, "register")
  /\ waiting' = waiting \cup {q}
  /\ pending' = pending \cup {q}
  /\ UNCHANGED history
  /\ \/ Saved /\ GoTo(q, "wait")
     \/ /\ SaveFailed
        /\ handler' = [handler EXCEPT ![q].step = "leave", ![q].raised = TRUE,
                                      ![q].uncertain = TRUE]
  /\ UNCHANGED <<admissionVars, wire, results, resolution, resolveCalls, granted,
                 wireOpen, restarts>>

FaultyWait(q) ==
  /\ At(q, "wait")
  /\ results[q] # None
  /\ handler' = [handler EXCEPT ![q].step = "collect", ![q].signaled = TRUE]
  /\ UNCHANGED <<admissionVars, wire>> /\ Unheard

\* waiter.wait: it returns whether the event was set, and once it has returned
\* without, an answer may still come before the handler is under the lock.
Wait(q) ==
  /\ At(q, "wait")
  /\ handler' = [handler EXCEPT ![q].step = "collect",
                                ![q].signaled = results[q] # None]
  /\ UNCHANGED <<admissionVars, wire>> /\ Unheard

FaultyResult(q) ==
  IF results[q] # None /\ handler[q].signaled THEN results[q] ELSE Decline

\* What the handler takes: an answer that is there, in time or not, or decline.
Result(q) == IF results[q] # None THEN results[q] ELSE Decline

Collect(q) ==
  /\ At(q, "collect")
  /\ waiting' = waiting \ {q}
  /\ results' = [results EXCEPT ![q] = None]
  /\ pending' = pending \ {q}
  /\ history' = Trimmed(Append(history,
       [request |-> q, answer |-> Result(q),
        status |-> IF handler[q].signaled THEN "resolved"
                                          ELSE "timed_out_declined"]))
  /\ \/ /\ Saved
        /\ handler' = [handler EXCEPT ![q].step = "leave", ![q].answer = Result(q)]
     \/ /\ SaveFailed
        /\ handler' = [handler EXCEPT ![q].step = "leave", ![q].raised = TRUE,
                                      ![q].uncertain = TRUE]
  /\ UNCHANGED <<admissionVars, wire, resolution, resolveCalls, granted, wireOpen,
                 restarts>>

\* The end of the call: the ledger learns of an error that is not its own kind.
Leave(q) ==
  /\ At(q, "leave")
  /\ FinishOperation(HandlerToken(q), handler[q].uncertain)
  /\ handler' = [handler EXCEPT
       ![q].step = IF handler[q].raised THEN "fallback" ELSE "answer",
       ![q].uncertain = FALSE]
  /\ UNCHANGED wire /\ Unheard

-----------------------------------------------------------------------------
(* The handler thread in the client: _handle_approval_request_async. *)

Answer(q) ==
  At(q, "answer") /\ Put(q, handler[q].answer, "finish", "fallback") /\ Unheard

\* A second attempt, to decline, after any error.
Fallback(q) ==
  At(q, "fallback") /\ Put(q, Decline, "finish", "finish") /\ Unheard

FaultyDelivered(q) == handler[q].sent

\* The finalizer is told that the answer was sent only if no attempt is in doubt.
Delivered(q) == handler[q].sent /\ ~handler[q].uncertain

Finish(q) ==
  /\ At(q, "finish")
  /\ GoTo(q, IF Delivered(q) THEN "release" ELSE "unsent")
  /\ UNCHANGED <<admissionVars, wire>> /\ Unheard

Unsent(q) ==
  /\ At(q, "unsent")
  /\ MarkUnknown("callback_response_unsent")
  /\ handler' = [handler EXCEPT ![q].step = "release", ![q].uncertain = TRUE]
  /\ UNCHANGED wire /\ Unheard

Release(q) ==
  /\ At(q, "release")
  /\ FinishOperation(ReplyToken(q), handler[q].uncertain)
  /\ GoTo(q, IF handler[q].dispatched THEN "done" ELSE "reject")
  /\ UNCHANGED wire /\ Unheard

HandlerStep(q) ==
  \/ Track(q) \/ Reject(q) \/ Enter(q) \/ RegisterForeign(q) \/ Register(q)
  \/ Wait(q) \/ Collect(q) \/ Leave(q) \/ Answer(q) \/ Fallback(q) \/ Finish(q)
  \/ Unsent(q) \/ Release(q)

-----------------------------------------------------------------------------
(* resolve_approval. *)

BeginResolve(r, q, level) ==
  /\ resolution[r].step = "idle" /\ resolveCalls < MaxResolutions
  /\ ReserveOperation(r, "approval")
  /\ resolution' = [resolution EXCEPT
       ![r] = [step |-> "decide", request |-> q, level |-> level]]
  /\ resolveCalls' = resolveCalls + 1
  /\ UNCHANGED <<handler, wire, waiting, results, pending, history, disk, granted,
                 wireOpen, restarts>>

\* A grant the worker does not offer is narrowed to one it does, or refused.
Allowed(q, level) == level = Decline \/ Offered[q] = {} \/ level \in Offered[q]
FaultyNarrowed(q, level) == IF level = Decline THEN Decline ELSE Session
Narrowed(q, level) == IF Allowed(q, level) THEN level ELSE Once
Refused(q, level) == ~Allowed(q, level) /\ Once \notin Offered[q]

FaultyResolvable(q, level) == ~Refused(q, level)

\* The request is pending and its handler still registered.
Resolvable(q, level) == q \in pending /\ ~Refused(q, level) /\ q \in waiting

Decide(r) ==
  LET q     == resolution[r].request
      level == resolution[r].level
  IN /\ resolution[r].step = "decide"
     /\ IF Resolvable(q, level)
          THEN /\ results' = [results EXCEPT ![q] = Narrowed(q, level)]
               /\ granted' = [granted EXCEPT ![q] = Append(@, level)]
          ELSE UNCHANGED <<results, granted>>
     /\ resolution' = [resolution EXCEPT ![r].step = "return"]
     /\ UNCHANGED <<admissionVars, handler, wire, waiting, pending, history, disk,
                    resolveCalls, wireOpen, restarts>>

EndResolve(r) ==
  /\ resolution[r].step = "return"
  /\ FinishOperation(r, FALSE)
  /\ resolution' = [resolution EXCEPT ![r] = NoResolution]
  /\ UNCHANGED <<handler, wire, waiting, results, pending, history, disk, resolveCalls,
                 granted, wireOpen, restarts>>

-----------------------------------------------------------------------------
(* The stream, maintenance, close and the process. *)

LoseStream ==
  /\ WireLosses /\ wireOpen
  /\ wireOpen' = FALSE
  /\ UNCHANGED <<admissionVars, handler, wire, waiting, results, pending, history,
                 disk, resolution, resolveCalls, granted, restarts>>

OwnerStep ==
  /\ \/ ClaimController
     \/ TryEnterMaintenance
     \/ \E l \in 1 .. generation : LeaveMaintenance(l)
     \/ WireLosses /\ Close
  /\ UNCHANGED approvalVars

FaultyLoaded(d) ==
  [pending |-> d.pending,
   history |-> Trimmed(d.history \o
     SetToSeq({[request |-> q, status |-> "abandoned_on_restart",
                answer |-> None] : q \in d.pending}))]

\* _load_state: what was pending is settled as abandoned.
Loaded(d) ==
  [pending |-> {},
   history |-> Trimmed(d.history \o
     SetToSeq({[request |-> q, status |-> "abandoned_on_restart",
                answer |-> None] : q \in d.pending}))]

FaultyFreshReasons == {}

\* A state file that is there is no evidence that the old work has ended.
FreshReasons == {"recovered_state_unverified"}

\* The process ends at any point, and the next one enrolls a new ledger.
Restart ==
  /\ restarts < MaxRestarts
  /\ restarts' = restarts + 1
  /\ claimed' = TRUE /\ closed' = FALSE /\ generation' = 0 /\ lease' = NoLease
  /\ operations' = [o \in OperationTokens |-> None]
  /\ unknown' = FreshReasons
  /\ handler' = [q \in ApprovalRequests |->
       IF handler[q].step \in {"unasked", "done"} THEN handler[q]
       ELSE [handler[q] EXCEPT !.step = "lost"]]
  /\ waiting' = {}
  /\ results' = [q \in ApprovalRequests |-> None]
  /\ pending' = Loaded(disk).pending
  /\ history' = Loaded(disk).history
  /\ resolution' = [r \in Resolvers |-> NoResolution]
  /\ wireOpen' = TRUE
  /\ UNCHANGED <<turnVars, wire, disk, resolveCalls, granted>>

ApprovalNext ==
  \/ \E q \in ApprovalRequests : Ask(q) \/ DispatchFails(q) \/ HandlerStep(q)
  \/ \E r \in Resolvers :
       \/ \E q \in ApprovalRequests, level \in Answers : BeginResolve(r, q, level)
       \/ Decide(r) \/ EndResolve(r)
  \/ LoseStream \/ OwnerStep \/ Restart

ApprovalSpec == ApprovalInit /\ [][ApprovalNext]_allVars

\* A thread that has been started runs on, and a wait ends by its time-out.
FairApprovalSpec ==
  ApprovalSpec /\ \A q \in ApprovalRequests : WF_allVars(HandlerStep(q))

-----------------------------------------------------------------------------
(* Properties. *)

\* Nothing is granted that nobody granted: what the worker may have read is
\* never wider than a level some caller of resolve_approval was told it gave.
GrantsAreGiven ==
  \A q \in ApprovalRequests : \A i \in 1 .. Len(wire[q]) :
    wire[q][i] # Decline =>
      \E j \in 1 .. Len(granted[q]) : granted[q][j] >= wire[q][i]

\* What was acknowledged last, as the worker offers it, and decline before that.
Standing(q) == IF granted[q] = <<>> THEN Decline ELSE Narrowed(q, Last(granted[q]))

\* The last call of resolve_approval that was acknowledged decides: the one
\* answer of a handler that met no error is what that call asked for, and decline
\* when there was none.  A call that comes after the answer was taken is refused.
LastWordIsSent ==
  \A q \in ApprovalRequests :
    At(q, "done") /\ handler[q].dispatched /\ Delivered(q) /\ ~handler[q].raised
      => wire[q] = <<Standing(q)>>

\* While maintenance is held, and nothing is unknown, the worker has its answer
\* to every request that was read: no person is being asked, no answer is on its
\* way, and no earlier process left one behind.
MaintenanceMeansAnswered ==
  lease # NoLease /\ unknown = {} =>
    \A q \in ApprovalRequests : /\ handler[q].step \in {"unasked", "asked", "done"}
                                /\ At(q, "done") => Len(wire[q]) = 1

\* A request that ended without exactly one answer on the wire is reported to the
\* ledger for what it is, and not only as a lost stream: an answer in doubt that
\* was followed by another, none at all, or one that was never admitted.  A process
\* that starts again reports instead that it knows nothing of what went before.
DoubtIsRecorded ==
  \A q \in ApprovalRequests :
    At(q, "done") /\ Len(wire[q]) # 1 =>
      unknown \cap {"callback_response_unsent", "untracked_request",
                    "recovered_state_unverified"} # {}

\* What the worker reads is what people said, and their last word; and where it is not
\* known what it has read, the ledger says so.
AnswersFaithful == GrantsAreGiven /\ LastWordIsSent /\ DoubtIsRecorded

\* A request is in the session at most once, as pending or as settled, whatever
\* was saved when the process ended.
SettledOnce ==
  /\ \A i, j \in 1 .. Len(history) : history[i].request = history[j].request => i = j
  /\ \A i \in 1 .. Len(history) : history[i].request \notin pending

\* What outlives the process: requests are accounted for once, and what an earlier
\* process left behind keeps maintenance off.
RecoverySound == MaintenanceMeansAnswered /\ SettledOnce

\* Every request that was read from the wire is answered or given up.
RequestsEnd == \A q \in ApprovalRequests : At(q, "asked") ~> handler[q].step \in {"done", "lost"}

-----------------------------------------------------------------------------
(* What the approval of requests promises. *)

\* A request whose handling met an error is past promising.
Failed(q) ==
  \/ handler[q].raised \/ handler[q].uncertain \/ ~handler[q].dispatched
  \/ At(q, "lost")

StageOf(q) ==
  IF Failed(q) THEN "failed"
  ELSE IF handler[q].step \in {"unasked", "asked", "enter", "register", "wait", "collect"}
         THEN "open"
  ELSE "taken"

Promise == INSTANCE ApprovalPromise WITH
  Requests <- ApprovalRequests, Levels <- Answers, Refusal <- Decline,
  stage <- [q \in ApprovalRequests |-> StageOf(q)],
  ruling <- [q \in ApprovalRequests |-> Standing(q)],
  heard <- wire

\* People rule until the answer is taken, and the worker hears the last ruling, first
\* and once, whatever ends in between; what follows a failure is a refusal.
ImplementsPromise == Promise!Spec

=============================================================================
