------------------------ MODULE ControllerAdmission ------------------------
(***************************************************************************)
(* The activity ledger of one enrolled BridgeController                    *)
(* (bridge_preview/admission.py, class ControllerAdmission).  Every method *)
(* runs under the ledger's own lock, so a method is one action.  A call    *)
(* that raises without changing the ledger is a disabled action; a call    *)
(* that raises after marking an uncertainty is an action of its own.       *)
(*                                                                         *)
(* Reservations are objects compared by identity: a token stands for one,  *)
(* and a token is free again when its object has left the table.  A lease  *)
(* is named by the generation that issued it, NoLease standing for None.   *)
(***************************************************************************)
EXTENDS Naturals, FiniteSets

CONSTANTS
  OperationTokens,    \* identities of OperationReservation objects
  TurnTokens,         \* identities of TurnReservation objects
  Apps,               \* app keys (connection generations)
  Threads,            \* Codex thread ids
  Workspaces,         \* workspace keys, NoWorkspace among them
  NoWorkspace,        \* the empty workspace key
  TurnIds,            \* turn ids the app-server may use
  ReportedReasons,    \* reasons handed to mark_unknown, listed ones or not
  MaxOperations,      \* MAX_OPERATIONS
  MaxTurns,           \* MAX_TURNS
  MaxCompletedTurns,  \* MAX_COMPLETED_TURNS
  MaxGeneration,      \* bound on maintenance leases, of the model only
  None

UnknownReasons ==
  {"unknown_activity", "recovered_state_unverified", "transport_lost",
   "unexpected_event", "untracked_request", "operation_outcome_unknown",
   "app_creation_failed", "callback_response_unsent", "unknown_backend",
   "start_outcome_unknown", "turn_identity_mismatch", "completed_history_full"}

ActivityKinds == {"operation", "approval", "callback"}
EventKinds    == {"started", "completed", "stopping"}
TurnStates    == {"starting", "running", "stopping", "unknown"}
NoLease       == 0

\* An entry of the turn table (class _Turn).
Turn == [app : Apps, thread : Threads, workspace : Workspaces,
         state : TurnStates,
         turnId : TurnIds \cup {None}, earlyId : TurnIds \cup {None},
         earlyCompleted : BOOLEAN, stopRequested : BOOLEAN,
         startedSeen : BOOLEAN]

ASSUME AdmissionAssumption ==
  /\ MaxOperations \in Nat
  /\ MaxTurns \in Nat
  /\ MaxCompletedTurns \in Nat
  /\ MaxGeneration \in Nat
  /\ NoWorkspace \in Workspaces
  /\ None \notin Turn
  /\ None \notin TurnTokens
  /\ None \notin TurnIds
  /\ None \notin ActivityKinds
  /\ "completed_history_full" \notin ReportedReasons

VARIABLES
  claimed,     \* _claimed
  closed,      \* _closed
  generation,  \* _generation
  lease,       \* _lease
  operations,  \* _operations: token -> kind, None when absent
  turns,       \* _turns: token -> _Turn, None when absent
  byThread,    \* _by_thread: (app, thread) -> token, None when absent
  completed,   \* _completed: identities of retired turns
  unknown      \* _unknown: sticky uncertainty reasons

gateVars == <<claimed, closed, generation, lease>>
turnVars == <<turns, byThread, completed>>
admissionVars == <<claimed, closed, generation, lease, operations, turns,
                   byThread, completed, unknown>>

TypeOK ==
  /\ claimed \in BOOLEAN
  /\ closed \in BOOLEAN
  /\ generation \in Nat
  /\ lease \in Nat
  /\ operations \in [OperationTokens -> ActivityKinds \cup {None}]
  /\ turns \in [TurnTokens -> Turn \cup {None}]
  /\ byThread \in [Apps \X Threads -> TurnTokens \cup {None}]
  /\ completed \in SUBSET (Apps \X Threads \X TurnIds)
  /\ unknown \in SUBSET UnknownReasons

-----------------------------------------------------------------------------
(* What the methods read. *)

ActiveOperations == {o \in OperationTokens : operations[o] # None}
ActiveTurns      == {r \in TurnTokens : turns[r] # None}

(* Operators whose names begin with Faulty are wrong on purpose: each stands  *)
(* for a plausible bug in the definition after it, and shows which property  *)
(* notices.                                                                  *)

FaultyAdmissionOpen == claimed /\ ~closed

\* _require_open
AdmissionOpen == claimed /\ ~closed /\ lease = NoLease

FaultyQuiet == ActiveOperations = {} /\ unknown = {}

\* The condition under which try_enter_maintenance grants a lease.
Quiet == ActiveOperations = {} /\ ActiveTurns = {} /\ unknown = {}

\* reserve_operation's capacity check.
OperationRoom == Cardinality(ActiveOperations) < MaxOperations

FaultyTurnRoom ==
  /\ Cardinality(ActiveTurns) < MaxTurns
  /\ Cardinality(completed) < MaxCompletedTurns

\* reserve_turn's capacity check: the turn table, and a slot of the retired
\* history kept free for every turn still in the table.
TurnRoom ==
  /\ Cardinality(ActiveTurns) < MaxTurns
  /\ Cardinality(completed) + Cardinality(ActiveTurns) < MaxCompletedTurns

FaultyThreadFree(a, th) == TRUE

ThreadFree(a, th) == byThread[<<a, th>>] = None

FaultyWorkspaceFree(w) ==
  w # NoWorkspace =>
    \A r \in ActiveTurns : turns[r].state = "running" => turns[r].workspace # w

WorkspaceFree(w) ==
  w # NoWorkspace => \A r \in ActiveTurns : turns[r].workspace # w

FaultyFixedReason(reason) == reason

\* _mark_unknown keeps to the fixed list of reasons.
FixedReason(reason) ==
  IF reason \in UnknownReasons THEN reason ELSE "unknown_activity"

NewTurn(a, th, w) ==
  [app |-> a, thread |-> th, workspace |-> w, state |-> "starting",
   turnId |-> None, earlyId |-> None, earlyCompleted |-> FALSE,
   stopRequested |-> FALSE, startedSeen |-> FALSE]

-----------------------------------------------------------------------------
Init ==
  /\ claimed = FALSE
  /\ closed = FALSE
  /\ generation = 0
  /\ lease = NoLease
  /\ operations = [o \in OperationTokens |-> None]
  /\ turns = [r \in TurnTokens |-> None]
  /\ byThread = [k \in Apps \X Threads |-> None]
  /\ completed = {}
  /\ unknown = {}

ClaimController ==
  /\ ~claimed /\ ~closed
  /\ claimed' = TRUE
  /\ UNCHANGED <<closed, generation, lease, operations, turns, byThread,
                 completed, unknown>>

ReserveOperation(o, kind) ==
  /\ AdmissionOpen
  /\ OperationRoom
  /\ operations[o] = None
  /\ operations' = [operations EXCEPT ![o] = kind]
  /\ UNCHANGED <<gateVars, turnVars, unknown>>

FinishOperation(o, uncertain) ==
  /\ claimed
  /\ operations[o] # None
  /\ operations' = [operations EXCEPT ![o] = None]
  /\ unknown' = unknown \cup (IF uncertain THEN {"operation_outcome_unknown"}
                                           ELSE {})
  /\ UNCHANGED <<gateVars, turnVars>>

ReserveTurn(r, a, th, w) ==
  /\ AdmissionOpen
  /\ ThreadFree(a, th)
  /\ WorkspaceFree(w)
  /\ TurnRoom
  /\ turns[r] = None
  /\ turns' = [turns EXCEPT ![r] = NewTurn(a, th, w)]
  /\ byThread' = [byThread EXCEPT ![<<a, th>>] = r]
  /\ UNCHANGED <<gateVars, operations, completed, unknown>>

\* _retire_turn, within bind_turn or _turn_event, for a turn whose identity is
\* not yet in the history; reasons are what the caller itself has marked.
RetireTurn(r, id, reasons) ==
  LET identity == <<turns[r].app, turns[r].thread, id>>
      room     == Cardinality(completed) < MaxCompletedTurns
  IN /\ completed' = IF room THEN completed \cup {identity} ELSE completed
     /\ unknown' = unknown \cup reasons
                     \cup (IF room THEN {} ELSE {"completed_history_full"})
     /\ turns' = [turns EXCEPT ![r] = None]
     /\ byThread' = [byThread EXCEPT ![<<turns[r].app, turns[r].thread>>] = None]

FaultyBindMismatch(r, id) == turns[r].earlyId \notin {None, id}

\* The reply to turn/start contradicts the events seen before it, or names a
\* turn that has already ended.
BindMismatch(r, id) ==
  \/ <<turns[r].app, turns[r].thread, id>> \in completed
  \/ turns[r].earlyId \notin {None, id}

CanBind(r) ==
  /\ claimed
  /\ turns[r] # None
  /\ turns[r].state = "starting"
  /\ turns[r].turnId = None

\* bind_turn raising turn_identity_mismatch.
RefuseBind(r, id) ==
  /\ CanBind(r)
  /\ BindMismatch(r, id)
  /\ unknown' = unknown \cup {"turn_identity_mismatch"}
  /\ UNCHANGED <<gateVars, operations, turnVars>>

\* bind_turn returning; BindShown is what it returns.
BindShown(r) == ~turns[r].earlyCompleted /\ ~closed

BindTurn(r, id) ==
  /\ CanBind(r)
  /\ ~BindMismatch(r, id)
  /\ LET late == IF closed THEN {"operation_outcome_unknown"} ELSE {}
     IN \/ /\ turns[r].earlyCompleted
           /\ RetireTurn(r, id, late)
        \/ /\ ~turns[r].earlyCompleted
           /\ turns' = [turns EXCEPT ![r].turnId = id,
                          ![r].state = IF closed THEN "unknown"
                                       ELSE IF turns[r].stopRequested THEN "stopping"
                                       ELSE "running"]
           /\ unknown' = unknown \cup late
           /\ UNCHANGED <<byThread, completed>>
  /\ UNCHANGED <<gateVars, operations>>

FaultyFailTurn(r) ==
  /\ claimed
  /\ turns[r] # None
  /\ turns' = [turns EXCEPT ![r] = None]
  /\ byThread' = [byThread EXCEPT ![<<turns[r].app, turns[r].thread>>] = None]
  /\ unknown' = unknown \cup {"start_outcome_unknown"}
  /\ UNCHANGED <<gateVars, operations, completed>>

FailTurn(r) ==
  /\ claimed
  /\ turns[r] # None
  /\ turns' = [turns EXCEPT ![r].state = "unknown"]
  /\ unknown' = unknown \cup {"start_outcome_unknown"}
  /\ UNCHANGED <<gateVars, operations, byThread, completed>>

-----------------------------------------------------------------------------
(* _turn_event: turn_started, turn_completed and turn_stopping. *)

Duplicate(a, th, id) == <<a, th, id>> \in completed

\* The event names no turn of the table, or another turn than the one there.
Unexpected(a, th, id) ==
  byThread[<<a, th>>] # None =>
    LET t == turns[byThread[<<a, th>>]]
    IN IF t.state = "starting" THEN t.earlyId \notin {None, id}
                               ELSE t.turnId # id

\* The event is news for the turn it names.
Fresh(kind, t) ==
  IF t.state = "starting"
    THEN CASE kind = "completed" -> ~t.earlyCompleted
           [] kind = "stopping"  -> ~t.stopRequested /\ ~t.earlyCompleted
           [] kind = "started"   -> ~t.startedSeen /\ ~t.earlyCompleted
                                                   /\ ~t.stopRequested
    ELSE \/ kind = "completed"
         \/ kind = "stopping" /\ t.state = "running"
         \/ kind = "started" /\ t.state = "running" /\ ~t.startedSeen

\* What the three methods return: whether the display may follow the event.
EventAccepted(kind, a, th, id) ==
  /\ ~Duplicate(a, th, id)
  /\ ~Unexpected(a, th, id)
  /\ Fresh(kind, turns[byThread[<<a, th>>]])

FaultyEarlyEvent(kind, t, id) ==
  [t EXCEPT !.earlyId = id, !.stopRequested = @ \/ kind = "stopping",
            !.startedSeen = @ \/ kind = "started"]

\* An accepted event on a turn that has no turn id yet is kept for bind_turn.
EarlyEvent(kind, t, id) ==
  [t EXCEPT !.earlyId = id,
            !.earlyCompleted = @ \/ kind = "completed",
            !.stopRequested  = @ \/ kind = "stopping",
            !.startedSeen    = @ \/ kind = "started"]

BoundEvent(kind, t) ==
  [t EXCEPT !.state       = IF kind = "stopping" THEN "stopping" ELSE @,
            !.startedSeen = @ \/ kind = "started"]

TurnEvent(kind, a, th, id) ==
  /\ claimed
  /\ \/ /\ EventAccepted(kind, a, th, id)
        /\ LET r == byThread[<<a, th>>]
               t == turns[r]
           IN \/ /\ kind = "completed" /\ t.state # "starting"
                 /\ RetireTurn(r, id, {})
              \/ /\ kind # "completed" \/ t.state = "starting"
                 /\ turns' = [turns EXCEPT ![r] =
                                IF t.state = "starting"
                                  THEN EarlyEvent(kind, t, id)
                                  ELSE BoundEvent(kind, t)]
                 /\ UNCHANGED <<byThread, completed, unknown>>
     \/ /\ ~Duplicate(a, th, id)
        /\ Unexpected(a, th, id)
        /\ unknown' = unknown \cup {"unexpected_event"}
        /\ UNCHANGED turnVars
     \/ /\ ~EventAccepted(kind, a, th, id)
        /\ Duplicate(a, th, id) \/ ~Unexpected(a, th, id)
        /\ UNCHANGED <<turnVars, unknown>>
  /\ UNCHANGED <<gateVars, operations>>

\* _turn_event with an identity that is no identity.
InvalidEvent ==
  /\ claimed
  /\ unknown' = unknown \cup {"unexpected_event"}
  /\ UNCHANGED <<gateVars, operations, turnVars>>

-----------------------------------------------------------------------------
(* Uncertainty, maintenance and close. *)

MarkUnknown(reason) ==
  /\ unknown' = unknown \cup {FixedReason(reason)}
  /\ UNCHANGED <<gateVars, operations, turnVars>>

TryEnterMaintenance ==
  /\ AdmissionOpen
  /\ Quiet
  /\ generation < MaxGeneration
  /\ generation' = generation + 1
  /\ lease' = generation'
  /\ UNCHANGED <<claimed, closed, operations, turnVars, unknown>>

\* l is any lease ever granted; only the current one is accepted.
LeaveMaintenance(l) ==
  /\ claimed
  /\ lease # NoLease
  /\ l = lease /\ l = generation
  /\ lease' = NoLease
  /\ UNCHANGED <<claimed, closed, generation, operations, turnVars, unknown>>

FaultyClose ==
  /\ ~closed
  /\ closed' = TRUE
  /\ generation' = generation + 1
  /\ UNCHANGED <<claimed, lease, operations, turnVars, unknown>>

Close ==
  /\ ~closed
  /\ closed' = TRUE
  /\ generation' = generation + 1
  /\ lease' = NoLease
  /\ UNCHANGED <<claimed, operations, turnVars, unknown>>

Next ==
  \/ ClaimController
  \/ \E o \in OperationTokens :
       \/ \E kind \in ActivityKinds : ReserveOperation(o, kind)
       \/ \E uncertain \in BOOLEAN : FinishOperation(o, uncertain)
  \/ \E r \in TurnTokens :
       \/ \E a \in Apps, th \in Threads, w \in Workspaces :
            ReserveTurn(r, a, th, w)
       \/ \E id \in TurnIds : BindTurn(r, id) \/ RefuseBind(r, id)
       \/ FailTurn(r)
  \/ \E kind \in EventKinds, a \in Apps, th \in Threads, id \in TurnIds :
       TurnEvent(kind, a, th, id)
  \/ InvalidEvent
  \/ \E reason \in ReportedReasons : MarkUnknown(reason)
  \/ TryEnterMaintenance
  \/ \E l \in 1 .. generation : LeaveMaintenance(l)
  \/ Close

Spec == Init /\ [][Next]_admissionVars

-----------------------------------------------------------------------------
(* Properties. *)

\* A maintenance lease is exclusive: while one is held no operation and no turn
\* is in the ledger, so nothing can have been admitted since it was granted
\* (try_enter_maintenance against reserve_operation and reserve_turn).
LeaseExcludesWork ==
  lease # NoLease => ActiveOperations = {} /\ ActiveTurns = {}

\* A lease that is held is always the last one issued, and never survives the
\* close of the controller: leave_maintenance by a holder of an older lease, or
\* by one that outlived close, is refused.
LeaseIsCurrent ==
  lease # NoLease => lease = generation /\ claimed /\ ~closed

\* The promise of reserve_turn's comment: a normal completion never makes a
\* clean instance unknown, since every turn of the table has a free slot in the
\* retired history.
HistoryNeverOverflows ==
  /\ "completed_history_full" \notin unknown
  /\ Cardinality(completed) + Cardinality(ActiveTurns) <= MaxCompletedTurns

\* The thread index and the turn table describe the same turns: an event of a
\* thread finds the turn of that thread, and no turn is unreachable.
ThreadIndexExact ==
  /\ \A k \in Apps \X Threads : byThread[k] # None =>
       /\ turns[byThread[k]] # None
       /\ <<turns[byThread[k]].app, turns[byThread[k]].thread>> = k
  /\ \A r \in ActiveTurns : byThread[<<turns[r].app, turns[r].thread>>] = r

\* A workspace never has two turns in the table, those of uncertain outcome
\* included: fail_turn keeps the reservation.
OneTurnPerWorkspace ==
  \A r, s \in ActiveTurns :
    turns[r].workspace = turns[s].workspace =>
      r = s \/ turns[r].workspace = NoWorkspace

\* What the ledger promises its owner while a lease is held.
LeaseSound == LeaseExcludesWork /\ LeaseIsCurrent

\* The identity of an ended turn is never taken by a turn of the table, whatever
\* the order of the reply and the events: a late or repeated event of the ended
\* turn cannot touch a later one.
RetiredNeverRevived ==
  \A r \in ActiveTurns :
    LET t == turns[r]
    IN /\ t.turnId # None  => <<t.app, t.thread, t.turnId>> \notin completed
       /\ t.earlyId # None => <<t.app, t.thread, t.earlyId>> \notin completed

\* The three tables agree: turns are found by their threads, a workspace has one, and
\* each has room for its end, which has not been.
TablesSound ==
  /\ ThreadIndexExact /\ OneTurnPerWorkspace
  /\ HistoryNeverOverflows /\ RetiredNeverRevived

\* A turn leaves the table only by its own completion being recorded: failures,
\* uncertain starts and close keep it, and with it its thread and workspace.
ReleasedByCompletion ==
  \A r \in TurnTokens :
    turns[r] # None /\ turns'[r] = None =>
      /\ \E id \in TurnIds :
           /\ turns[r].turnId \in {None, id} /\ turns[r].earlyId \in {None, id}
           /\ completed' = completed \cup {<<turns[r].app, turns[r].thread, id>>}
           /\ completed' # completed
TurnReleasedOnlyByCompletion == [][ReleasedByCompletion]_admissionVars

\* The gate the ledger promises to its callers, whatever it counts.
AllWork        == ({"operation"} \X OperationTokens) \cup ({"turn"} \X TurnTokens)
WorkInProgress == ({"operation"} \X ActiveOperations) \cup ({"turn"} \X ActiveTurns)
GatePosition ==
  IF closed THEN "closed"
  ELSE IF ~claimed THEN "unclaimed"
  ELSE IF lease # NoLease THEN "held"
  ELSE "open"

Gate == INSTANCE MaintenanceGate WITH
  Work <- AllWork, busy <- WorkInProgress,
  tainted <- (unknown # {}), gate <- GatePosition

\* Every step of the ledger is a step of the gate or leaves it alone.
ImplementsGate == Gate!Spec

=============================================================================
