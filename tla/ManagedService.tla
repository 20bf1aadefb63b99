--------------------------- MODULE ManagedService ---------------------------
(***************************************************************************)
(* The owner of one managed Bridge service (upgrade/service_managed.py)    *)
(* with the inputs it retains for its child processes (service_children,   *)
(* service_trust, service_runtime) and the helper each request may run     *)
(* (BridgeController._run_json, service_child).                            *)
(*                                                                         *)
(* The owner binds its socket, builds the controller and starts the server *)
(* in one go; from then on the server's task, the tasks of the requests,   *)
(* the threads of their handlers, the maintenance calls of the owner's     *)
(* other threads and aclose interleave.  The admission ledger is taken at  *)
(* its word (MaintenanceGate, which ControllerAdmission implements).  A    *)
(* file that a process depends on is its version: a replacement is a new   *)
(* one (_identity has the inode and the time of change).                   *)
(***************************************************************************)
EXTENDS Integers, FiniteSets, Functions

CONSTANTS
  Requests,               \* MCP requests, each made once
  Python, Bundle, Runtime,\* the interpreter of the helpers, the CA bundle of
                          \* the GitLab API, the modules of the service
  ReplaceBound            \* how often one of them is replaced

ASSUME RequestsAssumption == IsFiniteSet(Requests)
ASSUME InputsAssumption == Python # Bundle /\ Python # Runtime /\ Bundle # Runtime
ASSUME ReplaceAssumption == ReplaceBound \in Nat

VARIABLES
  lifecycle,     \* _state
  starting,      \* start has not returned
  busy, tainted, gate,
  failed,        \* an _error_code is set
  socketOpen,
  serverTask,    \* "none", "running" or "done"
  listening,     \* what _observe_listener sees
  control,       \* the controller: "none", "open", "closing" or "closed"
  cleanup,       \* the phase of _cleanup: "none", ..., "ended"
  cleanupFailed, \* a _cleanup_error_code is set
  clean,         \* _cleanup_complete
  disk,          \* the version of each input
  retained,      \* the version the service keeps, or Unselected
  invalid,       \* ServiceChildContext._failure is set
  request,       \* "idle", "open" or "done"
  handler,       \* the thread of the request's handler
  used,          \* the versions its helper ran with
  accepted       \* its helper's result was accepted

lifeVars == <<lifecycle, starting, failed>>
ledgerVars == <<busy, tainted, gate>>
serverVars == <<socketOpen, serverTask, listening, control>>
cleanupVars == <<cleanup, cleanupFailed, clean>>
inputVars == <<disk, retained, invalid>>
handlerVars == <<handler, used, accepted>>
requestVars == <<request, handlerVars>>
serviceVars == <<lifeVars, ledgerVars, serverVars, cleanupVars, inputVars, requestVars>>

\* A request holds a reservation until it is answered (_AdmissionApp), and the
\* handler one of its own until it returns (_admitted_operation).
Response(r) == <<r, "response">>
Operation(r) == <<r, "operation">>

Gate == INSTANCE MaintenanceGate
          WITH Work <- Requests \X {"response", "operation"}

Inputs == {Python, Bundle, Runtime}
Unselected == ReplaceBound + 1

ServiceInit ==
  /\ lifecycle = "new" /\ starting = FALSE /\ failed = FALSE
  /\ Gate!Init
  /\ socketOpen = FALSE /\ serverTask = "none" /\ listening = FALSE /\ control = "none"
  /\ cleanup = "none" /\ cleanupFailed = FALSE /\ clean = FALSE
  /\ disk = [i \in Inputs |-> 0]
  /\ retained = [i \in Inputs |-> Unselected]
  /\ invalid = FALSE
  /\ request = [r \in Requests |-> "idle"]
  /\ handler = [r \in Requests |-> "none"]
  /\ used = [r \in Requests |-> [i \in Inputs |-> Unselected]]
  /\ accepted = [r \in Requests |-> FALSE]

Matches(i) == retained[i] \in {disk[i], Unselected}

\* ServiceChildContext.revalidate: the first mismatch is final.
ContextHolds == ~invalid /\ Matches(Python) /\ Matches(Bundle)

-----------------------------------------------------------------------------
(* start, up to its loop, and what aclose does.                            *)

\* aclose: the gate shuts for good and there is one clean-up.
Shutting ==
  /\ gate' = "closed"
  /\ IF cleanup = "none"
       THEN lifecycle' = "closing" /\ cleanup' = "server"
       ELSE UNCHANGED <<lifecycle, cleanup>>

Start ==
  /\ lifecycle = "new"
  /\ lifecycle' = "starting" /\ starting' = TRUE
  /\ Gate!Claim
  /\ socketOpen' = TRUE /\ serverTask' = "running" /\ control' = "open"
  /\ retained' = [retained EXCEPT ![Python] = disk[Python], ![Runtime] = disk[Runtime]]
  /\ UNCHANGED <<failed, listening, cleanupVars, disk, invalid, requestVars>>

\* Anything before the server's task is made can fail: the socket and the
\* controller made so far are kept for the clean-up.
StartFailsEarly ==
  /\ lifecycle = "new"
  /\ failed' = TRUE
  /\ \E bound, built \in BOOLEAN :
       /\ built => bound
       /\ socketOpen' = bound
       /\ control' = IF built THEN "open" ELSE "none"
  /\ Shutting
  /\ UNCHANGED <<busy, tainted, starting, serverTask, listening, cleanupFailed, clean,
                 inputVars, requestVars>>

AClose ==
  /\ cleanup = "none"
  /\ Shutting
  /\ UNCHANGED <<busy, tainted, starting, failed, serverVars, cleanupFailed, clean,
                 inputVars, requestVars>>

\* A caller of aclose was cancelled: it waits for the clean-up all the same
\* and reports the service failed.
CloseCancelled ==
  /\ cleanup = "ended"
  /\ lifecycle' = "failed" /\ failed' = TRUE
  /\ UNCHANGED <<starting, ledgerVars, serverVars, cleanupVars, inputVars, requestVars>>

\* _failed_locked
Failed ==
  /\ lifecycle' = "failed" /\ failed' = TRUE
  /\ tainted' = TRUE /\ gate' = "closed"

-----------------------------------------------------------------------------
(* The server.                                                             *)

ServerListens ==
  /\ serverTask = "running" /\ ~listening /\ cleanup = "none"
  /\ listening' = TRUE
  /\ UNCHANGED <<lifeVars, ledgerVars, socketOpen, serverTask, control,
                 cleanupVars, inputVars, requestVars>>

\* _run_server: an end that nobody asked for fails the service, and an error
\* on the way out is an error of the clean-up.
ServerEnds(error) ==
  /\ serverTask = "running"
  /\ serverTask' = "done" /\ listening' = FALSE
  /\ \/ /\ lifecycle \in {"starting", "running"}
        /\ Failed
        /\ UNCHANGED cleanupFailed
     \/ /\ lifecycle \in {"closing", "closed"}
        /\ cleanupFailed' = (cleanupFailed \/ error)
        /\ tainted' = (tainted \/ error)
        /\ UNCHANGED <<lifecycle, failed, gate>>
     \/ /\ lifecycle = "failed"
        /\ IF error THEN Failed ELSE UNCHANGED <<lifecycle, failed, tainted, gate>>
        /\ UNCHANGED cleanupFailed
  /\ UNCHANGED <<busy, starting, socketOpen, control, cleanup, clean, inputVars, requestVars>>

\* The listening socket is lost while the task goes on.
ListenerLost ==
  /\ listening
  /\ listening' = FALSE
  /\ UNCHANGED <<lifeVars, ledgerVars, socketOpen, serverTask, control,
                 cleanupVars, inputVars, requestVars>>

\* The end of start: every retained input must still be what it was.
StartRuns ==
  /\ lifecycle = "starting" /\ serverTask = "running" /\ listening
  /\ gate # "closed" /\ ContextHolds /\ Matches(Runtime)
  /\ lifecycle' = "running" /\ starting' = FALSE
  /\ UNCHANGED <<failed, ledgerVars, serverVars, cleanupVars, inputVars, requestVars>>

\* The loop of start ends by the deadline, by a cancellation, on a changed
\* input, or because the service was closed or failed meanwhile.
StartFails ==
  /\ starting
  /\ starting' = FALSE
  /\ failed' = TRUE
  /\ \/ UNCHANGED <<tainted, invalid>>
     \/ /\ lifecycle = "starting" /\ listening
        /\ ~(ContextHolds /\ Matches(Runtime))
        /\ tainted' = TRUE
        /\ invalid' = (invalid \/ ~ContextHolds)
  /\ Shutting
  /\ UNCHANGED <<busy, serverVars, cleanupFailed, clean, disk, retained, requestVars>>

-----------------------------------------------------------------------------
(* What the owner's calls check.                                           *)

Serving == serverTask = "running" /\ listening /\ ~invalid /\ gate # "closed"

\* _running_locked fails a service that says it runs and does not.
FoundBroken ==
  /\ lifecycle = "running"
  /\ ~Serving
  /\ Failed
  /\ UNCHANGED <<busy, starting, serverVars, cleanupVars, inputVars, requestVars>>

\* _revalidate_runtime_locked, in the maintenance calls.
Unchanged == ContextHolds /\ Matches(Runtime)

FoundChanged ==
  /\ lifecycle = "running" /\ Serving
  /\ ~Unchanged
  /\ Failed
  /\ invalid' = (invalid \/ ~ContextHolds)
  /\ UNCHANGED <<busy, starting, serverVars, cleanupVars, disk, retained, requestVars>>

EnterMaintenance ==
  /\ lifecycle = "running" /\ Serving /\ Unchanged
  /\ Gate!Enter
  /\ UNCHANGED <<lifeVars, serverVars, cleanupVars, inputVars, requestVars>>

LeaveMaintenance ==
  /\ lifecycle = "running" /\ Serving /\ Unchanged
  /\ Gate!Leave
  /\ UNCHANGED <<lifeVars, serverVars, cleanupVars, inputVars, requestVars>>

-----------------------------------------------------------------------------
(* Requests.  The ledger is asked before the application sees anything;    *)
(* the response is complete when its last byte was handed over.            *)

BeginRequest(r) ==
  /\ request[r] = "idle"
  /\ lifecycle = "running" /\ Serving
  /\ Gate!Admit(Response(r))
  /\ request' = [request EXCEPT ![r] = "open"]
  /\ \E step \in {"none", "asked"} : handler' = [handler EXCEPT ![r] = step]
  /\ UNCHANGED <<lifeVars, serverVars, cleanupVars, inputVars, used, accepted>>

\* A response that was cut off, or whose client left, has an unknown end; so
\* has a request that is cancelled, whose handler may go on in its thread.
Uncertain(complete) == ~complete

FinishRequest(r, complete) ==
  /\ request[r] = "open"
  /\ complete => handler[r] \in {"none", "ended"}
  /\ request' = [request EXCEPT ![r] = IF complete THEN "done" ELSE "cut"]
  /\ busy' = busy \ {Response(r)}
  /\ tainted' = (tainted \/ Uncertain(complete))
  /\ UNCHANGED <<gate, lifeVars, serverVars, cleanupVars, inputVars, handlerVars>>

-----------------------------------------------------------------------------
(* A handler that runs a helper: _admitted_operation around _run_json.     *)

EndsOperation(r, doubt) ==
  /\ handler' = [handler EXCEPT ![r] = IF doubt THEN "lost" ELSE "ended"]
  /\ busy' = busy \ {Operation(r)}

BeginOperation(r) ==
  /\ handler[r] = "asked"
  /\ \/ /\ ~invalid /\ Gate!Admit(Operation(r))
        /\ handler' = [handler EXCEPT ![r] = "ready"]
     \/ /\ invalid \/ gate # "open"
        /\ handler' = [handler EXCEPT ![r] = "ended"]
        /\ gate' = (IF invalid THEN "closed" ELSE gate)
        /\ tainted' = (tainted \/ invalid)
        /\ UNCHANGED busy
  /\ UNCHANGED <<lifeVars, serverVars, cleanupVars, inputVars, request, used, accepted>>

\* _fail_child_binding
BindingFailed(r) ==
  /\ EndsOperation(r, FALSE)
  /\ invalid' = (invalid \/ ~ContextHolds)
  /\ tainted' = TRUE /\ gate' = "closed"

\* select_api_trust chooses once.
MaySelect == retained[Bundle] = Unselected

\* Revalidate, and choose the API's trust when the command needs it and no
\* earlier one did; an unreadable bundle fails this helper only.
CheckInputs(r) ==
  /\ handler[r] = "ready"
  /\ \/ /\ ContextHolds
        /\ handler' = [handler EXCEPT ![r] = "checked"]
        /\ \E needed \in BOOLEAN :
             retained' = IF needed /\ MaySelect
                           THEN [retained EXCEPT ![Bundle] = disk[Bundle]]
                           ELSE retained
        /\ UNCHANGED <<ledgerVars, invalid>>
     \/ /\ ContextHolds /\ EndsOperation(r, FALSE)
        /\ UNCHANGED <<tainted, gate, invalid, retained>>
     \/ ~ContextHolds /\ BindingFailed(r) /\ UNCHANGED retained
  /\ UNCHANGED <<lifeVars, serverVars, cleanupVars, disk, request, used, accepted>>

\* The helper runs the interpreter that is there now and is handed the bytes
\* of the bundle.
RunHelper(r) ==
  /\ handler[r] = "checked"
  /\ used' = [used EXCEPT ![r] = [retained EXCEPT ![Python] = disk[Python]]]
  /\ handler' = [handler EXCEPT ![r] = "launched"]
  /\ UNCHANGED <<lifeVars, ledgerVars, serverVars, cleanupVars, inputVars, request, accepted>>

HelperTimesOut(r) ==
  /\ handler[r] = "launched"
  /\ EndsOperation(r, TRUE)
  /\ tainted' = TRUE
  /\ UNCHANGED <<gate, lifeVars, serverVars, cleanupVars, inputVars, request, used, accepted>>

FaultyStillBound == TRUE

\* The second _ensure_child_binding.
StillBound == ContextHolds

\* The binding fails here, or in the helper, which looks at its own inputs.
HelperReturns(r) ==
  /\ handler[r] = "launched"
  /\ \/ /\ StillBound
        /\ \E good \in BOOLEAN : accepted' = [accepted EXCEPT ![r] = good]
        /\ EndsOperation(r, FALSE)
        /\ UNCHANGED <<invalid, tainted, gate>>
     \/ BindingFailed(r) /\ UNCHANGED accepted
  /\ UNCHANGED <<lifeVars, serverVars, cleanupVars, disk, retained, request, used>>

-----------------------------------------------------------------------------
(* _cleanup: each phase waits for its part until the deadline, records what *)
(* did not end, and goes on.                                               *)

CleanupFailure == cleanupFailed' = TRUE /\ tainted' = TRUE

FaultyOverdue == FALSE

\* The wait for the server's task has its own part of the time.
Overdue == serverTask = "running"

CloseServer ==
  /\ cleanup = "server"
  /\ cleanup' = "requests"
  /\ listening' = FALSE
  /\ \/ /\ serverTask \in {"none", "done"}
        /\ UNCHANGED <<cleanupFailed, tainted, serverTask>>
     \/ /\ Overdue                      \* cancelled, and waited for again
        /\ serverTask' \in {"running", "done"}
        /\ CleanupFailure
  /\ UNCHANGED <<busy, gate, lifeVars, socketOpen, control, clean, inputVars, requestVars>>

\* The tasks of the requests are waited for, a handler in its thread is not:
\* one whose request was cut off goes on beside the rest of the clean-up.
CloseRequests ==
  /\ cleanup = "requests"
  /\ cleanup' = "controller"
  /\ \/ /\ serverTask # "none"
        /\ CleanupFailure                \* a lifespan, or requests, in time
     \/ /\ serverTask = "none" \/ \A r \in Requests : request[r] # "open"
        /\ UNCHANGED <<cleanupFailed, tainted>>
  /\ control' = IF control = "open" THEN "closing" ELSE control
  /\ UNCHANGED <<busy, gate, lifeVars, socketOpen, serverTask, listening, clean,
                 inputVars, requestVars>>

\* The thread of the controller's close; it may outlive the wait for it.
ControllerCloses ==
  /\ control = "closing"
  /\ control' = "closed"
  /\ UNCHANGED <<lifeVars, ledgerVars, socketOpen, serverTask, listening,
                 cleanupVars, inputVars, requestVars>>

LeftOpen == control = "closing"

CloseSocket ==
  /\ cleanup = "controller"
  /\ cleanup' = "ended"
  /\ \E error \in BOOLEAN :
       /\ cleanupFailed' = (cleanupFailed \/ LeftOpen \/ error)
       /\ tainted' = (tainted \/ LeftOpen \/ error)
       /\ socketOpen' = (socketOpen /\ error)
  /\ clean' = ~cleanupFailed'
  /\ lifecycle' = IF failed \/ cleanupFailed' THEN "failed" ELSE "closed"
  /\ UNCHANGED <<busy, gate, starting, failed, serverTask, listening, control, inputVars, requestVars>>

-----------------------------------------------------------------------------
\* The bound is on each input, and on all of them together.
Replaced == FoldFunction(+, 0, disk)

ServiceReplace(i) ==
  /\ disk[i] < ReplaceBound /\ Replaced < ReplaceBound
  /\ disk' = [disk EXCEPT ![i] = @ + 1]
  /\ UNCHANGED <<lifeVars, ledgerVars, serverVars, cleanupVars, retained, invalid, requestVars>>

CleanupStep == CloseServer \/ CloseRequests \/ CloseSocket

RequestStep(r) ==
  \/ BeginRequest(r)
  \/ \E complete \in BOOLEAN : FinishRequest(r, complete)
  \/ BeginOperation(r)
  \/ CheckInputs(r)
  \/ RunHelper(r)
  \/ HelperTimesOut(r)
  \/ HelperReturns(r)

ServiceNext ==
  \/ Start \/ StartFailsEarly \/ StartRuns \/ StartFails
  \/ ServerListens \/ ListenerLost
  \/ \E error \in BOOLEAN : ServerEnds(error)
  \/ FoundBroken \/ FoundChanged
  \/ EnterMaintenance \/ LeaveMaintenance
  \/ \E r \in Requests : RequestStep(r)
  \/ AClose \/ CloseCancelled
  \/ CleanupStep \/ ControllerCloses
  \/ \E i \in Inputs : ServiceReplace(i)

\* start and _cleanup have deadlines; nothing else of the service is owed.
ServiceFairness ==
  /\ WF_serviceVars(StartRuns \/ StartFails)
  /\ WF_serviceVars(CleanupStep)

ServiceSpec == ServiceInit /\ [][ServiceNext]_serviceVars /\ ServiceFairness

-----------------------------------------------------------------------------
\* Types.
ServiceTypeOK ==
  /\ lifecycle \in {"new", "starting", "running", "closing", "closed", "failed"}
  /\ {starting, failed, tainted, socketOpen, listening, cleanupFailed, clean, invalid}
       \subseteq BOOLEAN
  /\ busy \subseteq Requests \X {"response", "operation"}
  /\ gate \in {"unclaimed", "open", "held", "closed"}
  /\ serverTask \in {"none", "running", "done"}
  /\ control \in {"none", "open", "closing", "closed"}
  /\ cleanup \in {"none", "server", "requests", "controller", "ended"}
  /\ disk \in [Inputs -> 0..ReplaceBound]
  /\ retained \in [Inputs -> 0..Unselected]
  /\ request \in [Requests -> {"idle", "open", "done", "cut"}]
  /\ handler \in [Requests -> {"none", "asked", "ready", "checked", "launched",
                               "ended", "lost"}]
  /\ used \in [Requests -> [Inputs -> 0..Unselected]]
  /\ accepted \in [Requests -> BOOLEAN]

\* While the maintenance window is held, no request is open, no handler runs
\* and nothing that was ever begun ended in doubt.
HeldMeansQuiet ==
  gate = "held" =>
    \A r \in Requests : /\ request[r] \in {"idle", "done"}
                        /\ handler[r] \in {"none", "ended"}

\* A handler that has not ended: it may yet run a helper.
AtWork(r) == handler[r] \in {"asked", "ready", "checked", "launched"}

\* A clean-up that reports success has left nothing it could wait for: the
\* server's task has ended, the requests were answered or cut, the controller
\* is closed, and so is the socket. A handler still at work in its thread is
\* on record: the ledger no longer vouches for the service.
CleanMeansReleased ==
  clean => /\ serverTask \in {"none", "done"}
           /\ ~socketOpen
           /\ control \in {"none", "closed"}
           /\ \A r \in Requests : request[r] # "open" /\ (AtWork(r) => tainted)

\* Outside start and service nothing new is admitted, and no window is held.
NotRunningMeansShut ==
  lifecycle \in {"closing", "closed", "failed"} => gate = "closed"

\* A helper's result that the controller accepted came from the interpreter
\* and the bundle that the service retained, whatever was replaced meanwhile.
AcceptedUsedRetained ==
  \A r \in Requests : accepted[r] =>
    /\ used[r][Python] = retained[Python]
    /\ used[r][Bundle] \in {Unselected, retained[Bundle]}

\* What a client, an operator and a maintenance tool may rely on.
ServiceSound ==
  HeldMeansQuiet /\ CleanMeansReleased /\ NotRunningMeansShut /\ AcceptedUsedRetained

\* A service is one-shot: it never runs again, a retained input is never
\* chosen again, and a context once found changed never serves again.
ServiceOneShot ==
  [][ /\ (lifecycle \in {"closing", "closed", "failed"} => lifecycle' # "running")
      /\ (\A i \in Inputs : retained[i] # Unselected => retained'[i] = retained[i])
      /\ (invalid => invalid' /\ \A r \in Requests : accepted'[r] => accepted[r])
    ]_serviceVars

\* start returns, and a clean-up that was begun ends.
ServiceSettles ==
  /\ starting ~> ~starting
  /\ (cleanup # "none") ~> (cleanup = "ended")

=============================================================================
