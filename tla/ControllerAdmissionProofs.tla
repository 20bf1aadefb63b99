---------------------- MODULE ControllerAdmissionProofs ----------------------
(***************************************************************************)
(* Proofs about the activity ledger for every number of tokens, threads,   *)
(* workspaces and turn ids, and every value of the three limits.           *)
(*                                                                         *)
(* Every step of the ledger does one of four things to the turn table      *)
(* (StepShapes): nothing, a new entry, an update of one entry in place, or *)
(* the removal of one entry.  Each invariant is then preserved by these    *)
(* four shapes, not by each action again.                                  *)
(***************************************************************************)
EXTENDS ControllerAdmission, FiniteSetTheorems, TLAPS

\* A turn is bound when it leaves "starting", to the id its early events had if
\* there were any.
BoundOnce(t) ==
  /\ t.state = "starting" => t.turnId = None
  /\ t.turnId # None => t.earlyId \in {None, t.turnId}

BoundAgrees == \A r \in ActiveTurns : BoundOnce(turns[r])

\* The strengthening of TypeOK that is inductive: an event finds its turn
\* through the thread index, so the index must be exact for the types to hold.
Ledger == TypeOK /\ ThreadIndexExact /\ BoundAgrees

(* The shapes. *)

Adds(r, t) ==
  /\ AdmissionOpen
  /\ turns[r] = None
  /\ byThread[<<t.app, t.thread>>] = None
  /\ t.turnId = None /\ t.earlyId = None
  /\ WorkspaceFree(t.workspace)
  /\ turns' = [turns EXCEPT ![r] = t]
  /\ byThread' = [byThread EXCEPT ![<<t.app, t.thread>>] = r]
  /\ UNCHANGED completed

\* An id is written only if it is not in the history.
Updates(r, t) ==
  /\ turns[r] # None
  /\ t.app = turns[r].app /\ t.thread = turns[r].thread
  /\ t.workspace = turns[r].workspace
  /\ t.turnId = turns[r].turnId \/ <<t.app, t.thread, t.turnId>> \notin completed
  /\ t.earlyId = turns[r].earlyId \/ <<t.app, t.thread, t.earlyId>> \notin completed
  /\ BoundOnce(t)
  /\ turns' = [turns EXCEPT ![r] = t]
  /\ UNCHANGED <<byThread, completed>>

Removes(r, id) ==
  /\ turns[r] # None
  /\ turns[r].turnId \in {None, id} /\ turns[r].earlyId \in {None, id}
  /\ <<turns[r].app, turns[r].thread, id>> \notin completed
  /\ \E reasons \in SUBSET UnknownReasons : RetireTurn(r, id, reasons)

Shaped ==
  \/ UNCHANGED turnVars
  \/ \E r \in TurnTokens, t \in Turn : Adds(r, t) \/ Updates(r, t)
  \/ \E r \in TurnTokens, id \in TurnIds : Removes(r, id)

LEMMA ActiveTurnType ==
  ASSUME TypeOK, NEW r \in TurnTokens, turns[r] # None
  PROVE  turns[r] \in Turn
  BY DEF TypeOK

\* A turn of a thread that has one is found through the index.
LEMMA IndexedTurn ==
  ASSUME Ledger, NEW a \in Apps, NEW th \in Threads, byThread[<<a, th>>] # None
  PROVE  /\ byThread[<<a, th>>] \in TurnTokens
         /\ turns[byThread[<<a, th>>]] \in Turn
         /\ turns[byThread[<<a, th>>]].app = a
         /\ turns[byThread[<<a, th>>]].thread = th
  <1>1. <<a, th>> \in Apps \X Threads
    OBVIOUS
  <1>2. byThread[<<a, th>>] \in TurnTokens
    BY <1>1 DEF Ledger, TypeOK
  <1>3. /\ turns[byThread[<<a, th>>]] # None
        /\ <<turns[byThread[<<a, th>>]].app, turns[byThread[<<a, th>>]].thread>>
             = <<a, th>>
    BY <1>1 DEF Ledger, ThreadIndexExact
  <1> QED
    BY <1>2, <1>3, ActiveTurnType DEF Ledger

LEMMA StepShapes ==
  ASSUME Ledger, [Next]_admissionVars
  PROVE  Shaped
<1> USE DEF gateVars, turnVars
<1>1. ASSUME NEW r \in TurnTokens, NEW a \in Apps, NEW th \in Threads,
             NEW w \in Workspaces, ReserveTurn(r, a, th, w)
      PROVE  Shaped
  <2>1. NewTurn(a, th, w) \in Turn
    BY DEF NewTurn, Turn, TurnStates
  <2>2. Adds(r, NewTurn(a, th, w))
    BY <1>1 DEF ReserveTurn, ThreadFree, Adds, NewTurn
  <2> QED
    BY <2>1, <2>2 DEF Shaped
<1>2. ASSUME NEW r \in TurnTokens, NEW id \in TurnIds, BindTurn(r, id)
      PROVE  Shaped
  <2> DEFINE t    == turns[r]
             late == IF closed THEN {"operation_outcome_unknown"} ELSE {}
  <2>1. t \in Turn
    BY <1>2, ActiveTurnType DEF BindTurn, CanBind, Ledger
  <2>2. CASE RetireTurn(r, id, late)
    <3>1. late \in SUBSET UnknownReasons
      BY DEF UnknownReasons
    <3>2. Removes(r, id)
      BY <1>2, <2>2, <3>1 DEF Removes, BindTurn, CanBind, BindMismatch
    <3> QED
      BY <3>2 DEF Shaped
  <2>3. CASE ~RetireTurn(r, id, late)
    <3> DEFINE s == IF closed THEN "unknown"
                    ELSE IF t.stopRequested THEN "stopping" ELSE "running"
               u == [t EXCEPT !.turnId = id, !.state = s]
    <3>1. u \in Turn
      BY <2>1 DEF Turn, TurnStates
    <3>2. turns' = [turns EXCEPT ![r] = u] /\ UNCHANGED <<byThread, completed>>
      BY <1>2, <2>3, <2>1 DEF BindTurn, Ledger, TypeOK
    <3>3. /\ u.turnId = id /\ u.earlyId = t.earlyId /\ u.state # "starting"
          /\ u.app = t.app /\ u.thread = t.thread /\ u.workspace = t.workspace
      BY <2>1 DEF Turn
    <3>4. /\ turns[r] # None
          /\ <<t.app, t.thread, id>> \notin completed
          /\ t.earlyId \in {None, id}
      BY <1>2 DEF BindTurn, CanBind, BindMismatch
    <3>5. Updates(r, u)
      BY <3>2, <3>3, <3>4 DEF Updates, BoundOnce
    <3> QED
      BY <3>1, <3>5 DEF Shaped
  <2> QED
    BY <2>2, <2>3
<1>3. ASSUME NEW r \in TurnTokens, FailTurn(r)
      PROVE  Shaped
  <2> DEFINE u == [turns[r] EXCEPT !.state = "unknown"]
  <2>1. turns[r] \in Turn
    BY <1>3, ActiveTurnType DEF FailTurn, Ledger
  <2>2. u \in Turn
    BY <2>1 DEF Turn, TurnStates
  <2>3. /\ u.turnId = turns[r].turnId /\ u.earlyId = turns[r].earlyId
        /\ u.state = "unknown"
        /\ u.app = turns[r].app /\ u.thread = turns[r].thread
        /\ u.workspace = turns[r].workspace
    BY <2>1 DEF Turn
  <2>4. turns[r] # None /\ turns' = [turns EXCEPT ![r] = u]
    BY <1>3, <2>1 DEF FailTurn, Ledger, TypeOK
  <2>5. Updates(r, u)
    BY <1>3, <2>3, <2>4 DEF FailTurn, Updates, Ledger, BoundAgrees, BoundOnce,
                             ActiveTurns
  <2> QED
    BY <2>2, <2>5 DEF Shaped
<1>4. ASSUME NEW kind \in EventKinds, NEW a \in Apps, NEW th \in Threads,
             NEW id \in TurnIds, TurnEvent(kind, a, th, id)
      PROVE  Shaped
  <2> DEFINE r == byThread[<<a, th>>]
             t == turns[r]
             u == IF t.state = "starting" THEN EarlyEvent(kind, t, id)
                                          ELSE BoundEvent(kind, t)
  <2>1. CASE ~EventAccepted(kind, a, th, id)
    BY <1>4, <2>1 DEF TurnEvent, Shaped
  <2>2. CASE EventAccepted(kind, a, th, id)
    <3>1. /\ r # None
          /\ <<a, th, id>> \notin completed
          /\ ~Unexpected(a, th, id)
          /\ IF t.state = "starting" THEN t.earlyId \in {None, id}
                                     ELSE t.turnId = id
      BY <2>2 DEF EventAccepted, Unexpected, Duplicate
    <3>2. r \in TurnTokens /\ t \in Turn /\ t.app = a /\ t.thread = th
      BY <3>1, IndexedTurn
    <3>3. t # None
      BY <3>2, AdmissionAssumption
    <3>4. /\ t.state = "starting" => t.turnId = None
          /\ t.turnId # None => t.earlyId \in {None, t.turnId}
      BY <3>2, <3>3 DEF Ledger, BoundAgrees, BoundOnce, ActiveTurns
    <3>5. CASE /\ kind = "completed" /\ t.state # "starting"
               /\ RetireTurn(r, id, {})
      <4>1. Removes(r, id)
        BY <3>1, <3>2, <3>3, <3>4, <3>5, AdmissionAssumption DEF Removes
      <4> QED
        BY <3>2, <4>1 DEF Shaped
    <3>6. CASE /\ turns' = [turns EXCEPT ![r] = u]
               /\ UNCHANGED <<byThread, completed>>
      <4>1. u \in Turn
        BY <3>2 DEF EarlyEvent, BoundEvent, Turn, TurnStates
      <4>2. /\ u.turnId = t.turnId
            /\ u.state = "starting" => t.state = "starting"
            /\ u.earlyId = IF t.state = "starting" THEN id ELSE t.earlyId
            /\ u.app = a /\ u.thread = th /\ u.workspace = t.workspace
        BY <3>2 DEF EarlyEvent, BoundEvent, Turn
      <4>3. Updates(r, u)
        BY <3>1, <3>2, <3>3, <3>4, <3>6, <4>2 DEF Updates, BoundOnce
      <4> QED
        BY <3>2, <4>1, <4>3 DEF Shaped
    <3> QED
      BY <1>4, <2>2, <3>1, <3>2, <3>5, <3>6 DEF TurnEvent
  <2> QED
    BY <2>1, <2>2
<1>5. ASSUME UNCHANGED turnVars
      PROVE  Shaped
  BY <1>5 DEF Shaped
<1>6. CASE \/ ClaimController \/ InvalidEvent \/ TryEnterMaintenance \/ Close
           \/ UNCHANGED admissionVars
  BY <1>5, <1>6 DEF ClaimController, InvalidEvent, TryEnterMaintenance, Close,
                    admissionVars
<1>7. ASSUME NEW o \in OperationTokens, NEW kind \in ActivityKinds,
             ReserveOperation(o, kind)
      PROVE  Shaped
  BY <1>5, <1>7 DEF ReserveOperation
<1>8. ASSUME NEW o \in OperationTokens, NEW uncertain \in BOOLEAN,
             FinishOperation(o, uncertain)
      PROVE  Shaped
  BY <1>5, <1>8 DEF FinishOperation
<1>9. ASSUME NEW r \in TurnTokens, NEW id \in TurnIds, RefuseBind(r, id)
      PROVE  Shaped
  BY <1>5, <1>9 DEF RefuseBind
<1>10. ASSUME NEW reason \in ReportedReasons, MarkUnknown(reason)
       PROVE  Shaped
  BY <1>5, <1>10 DEF MarkUnknown
<1>11. ASSUME NEW l \in 1 .. generation, LeaveMaintenance(l)
       PROVE  Shaped
  BY <1>5, <1>11 DEF LeaveMaintenance
<1> QED
  BY <1>1, <1>2, <1>3, <1>4, <1>6, <1>7, <1>8, <1>9, <1>10, <1>11 DEF Next

-----------------------------------------------------------------------------
(* The index and the bindings are inductive. *)

LEMMA LedgerInitially == Init => Ledger
<1> SUFFICES ASSUME Init PROVE Ledger
  OBVIOUS
<1>1. /\ claimed \in BOOLEAN /\ closed \in BOOLEAN
      /\ generation \in Nat /\ lease \in Nat
      /\ operations \in [OperationTokens -> ActivityKinds \cup {None}]
      /\ turns \in [TurnTokens -> Turn \cup {None}]
      /\ completed = {} /\ unknown = {}
  BY DEF Init, NoLease
<1>2. byThread \in [Apps \X Threads -> TurnTokens \cup {None}]
  BY DEF Init
<1>3. TypeOK
  BY <1>1, <1>2 DEF TypeOK
<1>4. ActiveTurns = {}
  BY DEF Init, ActiveTurns
<1>5. ThreadIndexExact
  BY <1>4 DEF Init, ThreadIndexExact
<1>6. BoundAgrees
  BY <1>4 DEF BoundAgrees
<1> QED
  BY <1>3, <1>5, <1>6 DEF Ledger

\* The variables that are not the turn table keep their types.
LEMMA GateTypes ==
  ASSUME TypeOK, [Next]_admissionVars
  PROVE  /\ claimed' \in BOOLEAN /\ closed' \in BOOLEAN
         /\ generation' \in Nat /\ lease' \in Nat
         /\ operations' \in [OperationTokens -> ActivityKinds \cup {None}]
         /\ unknown' \in SUBSET UnknownReasons
<1> USE DEF TypeOK, gateVars, turnVars
<1>1. CASE ClaimController \/ InvalidEvent \/ UNCHANGED admissionVars
  BY <1>1 DEF ClaimController, InvalidEvent, admissionVars, UnknownReasons
<1>7. CASE TryEnterMaintenance
  BY <1>7 DEF TryEnterMaintenance
<1>8. CASE Close
  BY <1>8 DEF Close, NoLease
<1>2. CASE \E o \in OperationTokens :
             \/ \E kind \in ActivityKinds : ReserveOperation(o, kind)
             \/ \E uncertain \in BOOLEAN : FinishOperation(o, uncertain)
  BY <1>2 DEF ReserveOperation, FinishOperation, UnknownReasons
<1>3. CASE \E r \in TurnTokens :
             \/ \E a \in Apps, th \in Threads, w \in Workspaces :
                  ReserveTurn(r, a, th, w)
             \/ \E id \in TurnIds : BindTurn(r, id) \/ RefuseBind(r, id)
             \/ FailTurn(r)
  BY <1>3 DEF ReserveTurn, BindTurn, RefuseBind, FailTurn, RetireTurn,
              UnknownReasons
<1>4. CASE \E kind \in EventKinds, a \in Apps, th \in Threads, id \in TurnIds :
             TurnEvent(kind, a, th, id)
  <2>1. PICK kind \in EventKinds, a \in Apps, th \in Threads, id \in TurnIds :
          TurnEvent(kind, a, th, id)
    BY <1>4
  <2>2. unknown' \in SUBSET UnknownReasons
    <3> DEFINE r == byThread[<<a, th>>]
    <3>1. \/ RetireTurn(r, id, {})
          \/ unknown' = unknown
          \/ unknown' = unknown \cup {"unexpected_event"}
      BY <2>1 DEF TurnEvent
    <3> QED
      BY <3>1 DEF RetireTurn, UnknownReasons
  <2>3. UNCHANGED <<claimed, closed, generation, lease, operations>>
    BY <2>1 DEF TurnEvent
  <2> QED
    BY <2>2, <2>3
<1>5. CASE \E reason \in ReportedReasons : MarkUnknown(reason)
  BY <1>5 DEF MarkUnknown, FixedReason, UnknownReasons
<1>6. CASE \E l \in 1 .. generation : LeaveMaintenance(l)
  BY <1>6 DEF LeaveMaintenance, NoLease
<1> QED
  BY <1>1, <1>2, <1>3, <1>4, <1>5, <1>6, <1>7, <1>8 DEF Next

LEMMA IndexPreserved ==
  ASSUME Ledger, Shaped
  PROVE  /\ ThreadIndexExact'
         /\ BoundAgrees'
         /\ turns' \in [TurnTokens -> Turn \cup {None}]
         /\ byThread' \in [Apps \X Threads -> TurnTokens \cup {None}]
         /\ completed' \in SUBSET (Apps \X Threads \X TurnIds)
<1> USE DEF ActiveTurns
<1>1. CASE UNCHANGED turnVars
  BY <1>1 DEF Ledger, TypeOK, ThreadIndexExact, BoundAgrees, BoundOnce, turnVars
<1>2. ASSUME NEW r \in TurnTokens, NEW t \in Turn, Adds(r, t)
      PROVE  /\ ThreadIndexExact'
             /\ BoundAgrees'
             /\ turns' \in [TurnTokens -> Turn \cup {None}]
             /\ byThread' \in [Apps \X Threads -> TurnTokens \cup {None}]
             /\ completed' \in SUBSET (Apps \X Threads \X TurnIds)
  <2>1. t # None /\ <<t.app, t.thread>> \in Apps \X Threads
    BY AdmissionAssumption DEF Turn
  <2> QED
    BY <1>2, <2>1, AdmissionAssumption
       DEF Adds, Ledger, TypeOK, ThreadIndexExact, BoundAgrees, BoundOnce
<1>3. ASSUME NEW r \in TurnTokens, NEW t \in Turn, Updates(r, t)
      PROVE  /\ ThreadIndexExact'
             /\ BoundAgrees'
             /\ turns' \in [TurnTokens -> Turn \cup {None}]
             /\ byThread' \in [Apps \X Threads -> TurnTokens \cup {None}]
             /\ completed' \in SUBSET (Apps \X Threads \X TurnIds)
  <2>1. t # None
    BY AdmissionAssumption
  <2> QED
    BY <1>3, <2>1
       DEF Updates, Ledger, TypeOK, ThreadIndexExact, BoundAgrees, BoundOnce
<1>4. ASSUME NEW r \in TurnTokens, NEW id \in TurnIds, Removes(r, id)
      PROVE  /\ ThreadIndexExact'
             /\ BoundAgrees'
             /\ turns' \in [TurnTokens -> Turn \cup {None}]
             /\ byThread' \in [Apps \X Threads -> TurnTokens \cup {None}]
             /\ completed' \in SUBSET (Apps \X Threads \X TurnIds)
  <2> DEFINE k == <<turns[r].app, turns[r].thread>>
  <2>1. turns[r] \in Turn
    BY <1>4, ActiveTurnType DEF Removes, Ledger
  <2>2. k \in Apps \X Threads
    BY <2>1 DEF Turn
  <2>3. /\ turns' = [turns EXCEPT ![r] = None]
        /\ byThread' = [byThread EXCEPT ![k] = None]
    BY <1>4 DEF Removes, RetireTurn
  <2>4. completed' \in SUBSET (Apps \X Threads \X TurnIds)
    BY <1>4, <2>2, <2>1 DEF Removes, RetireTurn, Ledger, TypeOK, Turn
  <2>5. byThread[k] = r
    BY <1>4 DEF Removes, Ledger, ThreadIndexExact
  <2> QED
    BY <2>2, <2>3, <2>4, <2>5
       DEF Ledger, TypeOK, ThreadIndexExact, BoundAgrees, BoundOnce
<1> QED
  BY <1>1, <1>2, <1>3, <1>4 DEF Shaped

LEMMA LedgerPreserved ==
  ASSUME Ledger, [Next]_admissionVars
  PROVE  Ledger'
  BY StepShapes, IndexPreserved, GateTypes DEF Ledger, TypeOK

LEMMA LedgerAlways == Spec => []Ledger
<1>1. Init => Ledger
  BY LedgerInitially
<1>2. Ledger /\ [Next]_admissionVars => Ledger'
  BY LedgerPreserved
<1> QED
  BY <1>1, <1>2, PTL DEF Spec

\* Type correctness: the tables hold what their declarations say, and a reason
\* recorded as unknown is always one of the fixed list.
THEOREM TypeCorrect == Spec => []TypeOK
  BY LedgerAlways, PTL DEF Ledger

\* An event finds the turn of its thread, and every turn of the table is found.
THEOREM IndexCorrect == Spec => []ThreadIndexExact
  BY LedgerAlways, PTL DEF Ledger

-----------------------------------------------------------------------------
(* Safety of the turn table. *)

LEMMA TurnSafetyPreserved ==
  ASSUME Ledger, OneTurnPerWorkspace, RetiredNeverRevived, Shaped
  PROVE  OneTurnPerWorkspace' /\ RetiredNeverRevived'
<1> USE DEF ActiveTurns
<1>1. CASE UNCHANGED turnVars
  BY <1>1 DEF OneTurnPerWorkspace, RetiredNeverRevived, turnVars
<1>2. ASSUME NEW r \in TurnTokens, NEW t \in Turn, Adds(r, t)
      PROVE  OneTurnPerWorkspace' /\ RetiredNeverRevived'
  BY <1>2 DEF Adds, WorkspaceFree, Ledger, TypeOK, OneTurnPerWorkspace,
              RetiredNeverRevived
<1>3. ASSUME NEW r \in TurnTokens, NEW t \in Turn, Updates(r, t)
      PROVE  OneTurnPerWorkspace' /\ RetiredNeverRevived'
  BY <1>3 DEF Updates, Ledger, TypeOK, OneTurnPerWorkspace, RetiredNeverRevived
<1>4. ASSUME NEW r \in TurnTokens, NEW id \in TurnIds, Removes(r, id)
      PROVE  OneTurnPerWorkspace' /\ RetiredNeverRevived'
  <2> DEFINE identity == <<turns[r].app, turns[r].thread, id>>
  <2>1. /\ turns' = [turns EXCEPT ![r] = None]
        /\ completed' \in {completed, completed \cup {identity}}
    BY <1>4 DEF Removes, RetireTurn
  <2>2. OneTurnPerWorkspace'
    BY <2>1 DEF OneTurnPerWorkspace, Ledger, TypeOK
  <2>3. ASSUME NEW s \in TurnTokens, turns'[s] # None
        PROVE  /\ turns[s] # None /\ turns'[s] = turns[s]
               /\ <<turns[s].app, turns[s].thread>>
                    # <<turns[r].app, turns[r].thread>>
    BY <1>4, <2>1, <2>3 DEF Removes, Ledger, TypeOK, ThreadIndexExact
  <2>4. RetiredNeverRevived'
    BY <2>1, <2>3 DEF RetiredNeverRevived
  <2> QED
    BY <2>2, <2>4
<1> QED
  BY <1>1, <1>2, <1>3, <1>4 DEF Shaped

LEMMA TurnSafety == Spec => [](OneTurnPerWorkspace /\ RetiredNeverRevived)
<1>1. Init => OneTurnPerWorkspace /\ RetiredNeverRevived
  BY DEF Init, OneTurnPerWorkspace, RetiredNeverRevived, ActiveTurns
<1>2. /\ Ledger /\ OneTurnPerWorkspace /\ RetiredNeverRevived
      /\ [Next]_admissionVars
      => OneTurnPerWorkspace' /\ RetiredNeverRevived'
  BY StepShapes, TurnSafetyPreserved
<1> QED
  BY <1>1, <1>2, LedgerAlways, PTL DEF Spec

\* reserve_turn, fail_turn and the completions together never let two turns of
\* the table share a workspace.
THEOREM WorkspaceExclusive == Spec => []OneTurnPerWorkspace
  BY TurnSafety, PTL

\* In whatever order replies, events and repeated events come, no turn of the
\* table takes the identity of a turn that has ended.
THEOREM NoRevival == Spec => []RetiredNeverRevived
  BY TurnSafety, PTL

-----------------------------------------------------------------------------
(* The maintenance lease. *)

Lease == LeaseExcludesWork /\ LeaseIsCurrent

\* Only an open gate lets work in.
LEMMA WorkEntersOpen ==
  ASSUME Ledger, [Next]_admissionVars, ~AdmissionOpen
  PROVE  /\ ActiveOperations' \subseteq ActiveOperations
         /\ ActiveTurns' \subseteq ActiveTurns
<1>1. ActiveTurns' \subseteq ActiveTurns
  <2>1. CASE UNCHANGED turnVars
    BY <2>1 DEF turnVars, ActiveTurns
  <2>2. ASSUME NEW r \in TurnTokens, NEW t \in Turn, Adds(r, t) \/ Updates(r, t)
        PROVE  ActiveTurns' \subseteq ActiveTurns
    BY <2>2 DEF Adds, Updates, ActiveTurns, Ledger, TypeOK
  <2>3. ASSUME NEW r \in TurnTokens, NEW id \in TurnIds, Removes(r, id)
        PROVE  ActiveTurns' \subseteq ActiveTurns
    BY <2>3 DEF Removes, RetireTurn, ActiveTurns, Ledger, TypeOK
  <2> QED
    BY <2>1, <2>2, <2>3, StepShapes DEF Shaped
<1>2. ActiveOperations' \subseteq ActiveOperations
  <2>1. CASE \E o \in OperationTokens :
               \/ \E kind \in ActivityKinds : ReserveOperation(o, kind)
               \/ \E uncertain \in BOOLEAN : FinishOperation(o, uncertain)
    BY <2>1 DEF ReserveOperation, FinishOperation, ActiveOperations, Ledger,
                TypeOK
  <2>2. CASE UNCHANGED operations
    BY <2>2 DEF ActiveOperations
  <2>3. CASE \/ ClaimController \/ InvalidEvent \/ TryEnterMaintenance \/ Close
             \/ \E reason \in ReportedReasons : MarkUnknown(reason)
             \/ \E l \in 1 .. generation : LeaveMaintenance(l)
             \/ UNCHANGED admissionVars
    BY <2>2, <2>3 DEF ClaimController, InvalidEvent, TryEnterMaintenance, Close,
                      MarkUnknown, LeaveMaintenance, admissionVars
  <2>4. CASE \E r \in TurnTokens :
               \/ \E a \in Apps, th \in Threads, w \in Workspaces :
                    ReserveTurn(r, a, th, w)
               \/ \E id \in TurnIds : BindTurn(r, id) \/ RefuseBind(r, id)
               \/ FailTurn(r)
    BY <2>2, <2>4 DEF ReserveTurn, BindTurn, RefuseBind, FailTurn
  <2>5. CASE \E kind \in EventKinds, a \in Apps, th \in Threads, id \in TurnIds :
               TurnEvent(kind, a, th, id)
    BY <2>2, <2>5 DEF TurnEvent
  <2> QED
    BY <2>1, <2>3, <2>4, <2>5 DEF Next
<1> QED
  BY <1>1, <1>2

LEMMA LeasePreserved ==
  ASSUME Ledger, Lease, [Next]_admissionVars
  PROVE  Lease'
<1> USE DEF Lease, LeaseIsCurrent, LeaseExcludesWork, NoLease, gateVars, turnVars
<1>1. CASE TryEnterMaintenance
  BY <1>1 DEF TryEnterMaintenance, AdmissionOpen, Quiet, ActiveOperations,
              ActiveTurns, Ledger, TypeOK
<1>2. CASE \E l \in 1 .. generation : LeaveMaintenance(l)
  BY <1>2 DEF LeaveMaintenance
<1>3. CASE Close
  BY <1>3 DEF Close
<1>4. CASE ClaimController
  BY <1>4 DEF ClaimController
<1>5. ASSUME UNCHANGED <<claimed, closed, generation, lease>>
      PROVE  Lease'
  <2>1. lease # NoLease => ~AdmissionOpen
    BY DEF AdmissionOpen
  <2> QED
    BY <1>5, <2>1, WorkEntersOpen
<1>6. CASE \/ \E o \in OperationTokens :
                \/ \E kind \in ActivityKinds : ReserveOperation(o, kind)
                \/ \E uncertain \in BOOLEAN : FinishOperation(o, uncertain)
           \/ \E reason \in ReportedReasons : MarkUnknown(reason)
           \/ InvalidEvent \/ UNCHANGED admissionVars
  BY <1>5, <1>6 DEF ReserveOperation, FinishOperation, MarkUnknown,
                    InvalidEvent, admissionVars
<1>7. CASE \E r \in TurnTokens :
             \/ \E a \in Apps, th \in Threads, w \in Workspaces :
                  ReserveTurn(r, a, th, w)
             \/ \E id \in TurnIds : BindTurn(r, id) \/ RefuseBind(r, id)
             \/ FailTurn(r)
  BY <1>5, <1>7 DEF ReserveTurn, BindTurn, RefuseBind, FailTurn
<1>8. CASE \E kind \in EventKinds, a \in Apps, th \in Threads, id \in TurnIds :
             TurnEvent(kind, a, th, id)
  BY <1>5, <1>8 DEF TurnEvent
<1> QED
  BY <1>1, <1>2, <1>3, <1>4, <1>6, <1>7, <1>8 DEF Next

LEMMA LeaseAlways == Spec => []Lease
<1>1. Init => Lease
  BY DEF Init, Lease, LeaseIsCurrent, LeaseExcludesWork
<1>2. Ledger /\ Lease /\ [Next]_admissionVars => Lease'
  BY LeasePreserved
<1> QED
  BY <1>1, <1>2, LedgerAlways, PTL DEF Spec

\* While a maintenance lease is held nothing is in progress, whatever the
\* callers do in the meantime.
THEOREM MaintenanceExclusive == Spec => []LeaseExcludesWork
  BY LeaseAlways, PTL DEF Lease

\* A held lease is the last one issued, of a claimed controller not yet closed.
THEOREM MaintenanceCurrent == Spec => []LeaseIsCurrent
  BY LeaseAlways, PTL DEF Lease

-----------------------------------------------------------------------------
(* The retired history. *)

\* Finiteness makes the cardinalities of the history's promise meaningful.
History ==
  /\ IsFiniteSet(completed) /\ IsFiniteSet(ActiveTurns)
  /\ HistoryNeverOverflows

LEMMA HistoryPreserved ==
  ASSUME Ledger, History, [Next]_admissionVars
  PROVE  History'
<1> USE DEF History, HistoryNeverOverflows
<1> DEFINE M == MaxCompletedTurns
<1>0. M \in Nat /\ Cardinality(completed) \in Nat /\ Cardinality(ActiveTurns) \in Nat
  BY AdmissionAssumption, FS_CardinalityType
<1>1. ASSUME NEW r \in TurnTokens, NEW a \in Apps, NEW th \in Threads,
             NEW w \in Workspaces, ReserveTurn(r, a, th, w)
      PROVE  History'
  <2>1. NewTurn(a, th, w) # None
    <3>1. NewTurn(a, th, w) \in Turn
      BY DEF NewTurn, Turn, TurnStates
    <3> QED
      BY <3>1, AdmissionAssumption
  <2>2. ActiveTurns' = ActiveTurns \cup {r} /\ r \notin ActiveTurns
    BY <1>1, <2>1 DEF ReserveTurn, ActiveTurns, Ledger, TypeOK
  <2>3. IsFiniteSet(ActiveTurns') /\ Cardinality(ActiveTurns') = Cardinality(ActiveTurns) + 1
    BY <2>2, FS_AddElement
  <2>4. Cardinality(completed) + Cardinality(ActiveTurns) < M
    BY <1>1 DEF ReserveTurn, TurnRoom
  <2>5. UNCHANGED <<completed, unknown>>
    BY <1>1 DEF ReserveTurn
  <2> QED
    BY <1>0, <2>3, <2>4, <2>5
<1>2. ASSUME NEW r \in TurnTokens, NEW id \in TurnIds, NEW reasons,
             "completed_history_full" \notin reasons,
             turns[r] # None, RetireTurn(r, id, reasons),
             <<turns[r].app, turns[r].thread, id>> \notin completed
      PROVE  /\ History'
             /\ completed' = completed \cup {<<turns[r].app, turns[r].thread, id>>}
  <2> DEFINE identity == <<turns[r].app, turns[r].thread, id>>
  <2>1. ActiveTurns' = ActiveTurns \ {r} /\ r \in ActiveTurns
    BY <1>2 DEF RetireTurn, ActiveTurns, Ledger, TypeOK
  <2>2. /\ IsFiniteSet(ActiveTurns')
        /\ Cardinality(ActiveTurns') = Cardinality(ActiveTurns) - 1
    BY <2>1, FS_RemoveElement
  <2>3. Cardinality(ActiveTurns) # 0
    BY <2>1, FS_EmptySet
  <2>4. Cardinality(completed) < M
    BY <1>0, <2>3
  <2>5. completed' = completed \cup {identity}
    BY <1>2, <2>4 DEF RetireTurn
  <2>6. IsFiniteSet(completed') /\ Cardinality(completed') = Cardinality(completed) + 1
    BY <1>2, <2>5, FS_AddElement
  <2>7. unknown' = unknown \cup reasons
    BY <1>2, <2>4 DEF RetireTurn
  <2> QED
    BY <1>0, <1>2, <2>2, <2>5, <2>6, <2>7
<1>3. ASSUME ActiveTurns' = ActiveTurns, UNCHANGED completed,
             "completed_history_full" \notin unknown'
      PROVE  History'
  BY <1>3
<1>4. CASE \E r \in TurnTokens : \E a \in Apps, th \in Threads, w \in Workspaces :
             ReserveTurn(r, a, th, w)
  BY <1>1, <1>4
<1>5. ASSUME NEW r \in TurnTokens, NEW id \in TurnIds, BindTurn(r, id)
      PROVE  History'
  <2> DEFINE late == IF closed THEN {"operation_outcome_unknown"} ELSE {}
  <2>1. CASE RetireTurn(r, id, late)
    BY <1>2, <1>5, <2>1 DEF BindTurn, CanBind, BindMismatch
  <2>2. CASE ~RetireTurn(r, id, late)
    <3>1. turns[r] \in Turn
      BY <1>5, ActiveTurnType DEF BindTurn, CanBind, Ledger
    <3>2. \E u \in Turn : turns' = [turns EXCEPT ![r] = u]
      <4> DEFINE s == IF closed THEN "unknown"
                      ELSE IF turns[r].stopRequested THEN "stopping" ELSE "running"
                 v == [turns[r] EXCEPT !.turnId = id, !.state = s]
      <4>1. v \in Turn
        BY <3>1 DEF Turn, TurnStates
      <4>2. turns' = [turns EXCEPT ![r] = v]
        BY <1>5, <2>2, <3>1 DEF BindTurn, Ledger, TypeOK
      <4> QED
        BY <4>1, <4>2
    <3>3. ActiveTurns' = ActiveTurns
      BY <1>5, <3>2, AdmissionAssumption
         DEF BindTurn, CanBind, ActiveTurns, Ledger, TypeOK
    <3>4. completed' = completed /\ unknown' = unknown \cup late
      BY <1>5, <2>2 DEF BindTurn
    <3> QED
      BY <1>3, <3>3, <3>4
  <2> QED
    BY <2>1, <2>2
<1>6. ASSUME NEW r \in TurnTokens, FailTurn(r)
      PROVE  History'
  <2>1. turns[r] \in Turn
    BY <1>6, ActiveTurnType DEF FailTurn, Ledger
  <2>2. [turns[r] EXCEPT !.state = "unknown"] \in Turn
    BY <2>1 DEF Turn, TurnStates
  <2>3. turns' = [turns EXCEPT ![r] = [turns[r] EXCEPT !.state = "unknown"]]
    BY <1>6, <2>1 DEF FailTurn, Ledger, TypeOK
  <2>4. ActiveTurns' = ActiveTurns
    BY <1>6, <2>2, <2>3, AdmissionAssumption DEF FailTurn, ActiveTurns, Ledger, TypeOK
  <2> QED
    BY <1>3, <1>6, <2>4 DEF FailTurn
<1>7. ASSUME NEW kind \in EventKinds, NEW a \in Apps, NEW th \in Threads,
             NEW id \in TurnIds, TurnEvent(kind, a, th, id)
      PROVE  History'
  <2> DEFINE r == byThread[<<a, th>>]
             t == turns[r]
  <2>1. CASE ~EventAccepted(kind, a, th, id)
    <3>1. UNCHANGED <<turns, completed>>
      BY <1>7, <2>1 DEF TurnEvent, turnVars
    <3>2. unknown' \in {unknown, unknown \cup {"unexpected_event"}}
      BY <1>7, <2>1 DEF TurnEvent
    <3>3. ActiveTurns' = ActiveTurns
      BY <3>1 DEF ActiveTurns
    <3> QED
      BY <1>3, <3>1, <3>2, <3>3
  <2>2. CASE EventAccepted(kind, a, th, id)
    <3>1. r # None /\ <<a, th, id>> \notin completed
      BY <2>2 DEF EventAccepted, Unexpected, Duplicate
    <3>2. /\ r \in TurnTokens /\ t \in Turn /\ t.app = a /\ t.thread = th
          /\ t # None
      BY <3>1, IndexedTurn, AdmissionAssumption
    <3>3. CASE RetireTurn(r, id, {})
      BY <1>2, <3>1, <3>2, <3>3
    <3>4. CASE ~RetireTurn(r, id, {})
      <4> DEFINE u == IF t.state = "starting" THEN EarlyEvent(kind, t, id)
                                              ELSE BoundEvent(kind, t)
      <4>1. u \in Turn
        BY <3>2 DEF EarlyEvent, BoundEvent, Turn, TurnStates
      <4>2. /\ turns' = [turns EXCEPT ![r] = u]
            /\ completed' = completed /\ unknown' = unknown
        BY <1>7, <2>2, <3>1, <3>4 DEF TurnEvent, EventAccepted
      <4>3. ActiveTurns' = ActiveTurns
        BY <3>2, <4>1, <4>2, AdmissionAssumption DEF ActiveTurns, Ledger, TypeOK
      <4> QED
        BY <1>3, <4>2, <4>3
    <3> QED
      BY <3>3, <3>4
  <2> QED
    BY <2>1, <2>2
<1>8. CASE /\ UNCHANGED <<turns, completed>>
           /\ "completed_history_full" \notin unknown'
  BY <1>3, <1>8 DEF ActiveTurns
<1>9. ASSUME NEW o \in OperationTokens, NEW uncertain \in BOOLEAN,
             FinishOperation(o, uncertain)
      PROVE  History'
  BY <1>8, <1>9 DEF FinishOperation, turnVars
<1>10. ASSUME NEW o \in OperationTokens, NEW kind \in ActivityKinds,
              ReserveOperation(o, kind)
       PROVE  History'
  BY <1>8, <1>10 DEF ReserveOperation, turnVars
<1>11. ASSUME NEW r \in TurnTokens, NEW id \in TurnIds, RefuseBind(r, id)
       PROVE  History'
  BY <1>8, <1>11 DEF RefuseBind, turnVars
<1>12. ASSUME NEW reason \in ReportedReasons, MarkUnknown(reason)
       PROVE  History'
  <2>1. FixedReason(reason) # "completed_history_full"
    BY AdmissionAssumption DEF FixedReason
  <2> QED
    BY <1>8, <1>12, <2>1 DEF MarkUnknown, turnVars
<1>13. ASSUME NEW l \in 1 .. generation, LeaveMaintenance(l)
       PROVE  History'
  BY <1>8, <1>13 DEF LeaveMaintenance, turnVars
<1>14. CASE ClaimController \/ InvalidEvent \/ TryEnterMaintenance \/ Close
              \/ UNCHANGED admissionVars
  BY <1>8, <1>14 DEF ClaimController, InvalidEvent, TryEnterMaintenance, Close,
                     admissionVars, turnVars
<1> QED
  BY <1>4, <1>5, <1>6, <1>7, <1>9, <1>10, <1>11, <1>12, <1>13, <1>14 DEF Next

LEMMA HistoryAlways == Spec => []History
<1>1. Init => History
  <2> SUFFICES ASSUME Init PROVE History
    OBVIOUS
  <2>1. completed = {} /\ ActiveTurns = {} /\ unknown = {}
    BY DEF Init, ActiveTurns
  <2> QED
    BY <2>1, FS_EmptySet, AdmissionAssumption DEF History, HistoryNeverOverflows
<1>2. Ledger /\ History /\ [Next]_admissionVars => History'
  BY HistoryPreserved
<1> QED
  BY <1>1, <1>2, LedgerAlways, PTL DEF Spec

\* A completion never overflows the retired history, so it never makes a clean
\* ledger unknown: reserve_turn kept its slot free.
THEOREM HistoryHasRoom == Spec => []HistoryNeverOverflows
  BY HistoryAlways, PTL DEF History

\* A held lease excludes all work, and is the current one.
THEOREM MaintenanceSound == Spec => []LeaseSound
  BY MaintenanceExclusive, MaintenanceCurrent, PTL DEF LeaseSound

\* The turn table, the thread index and the history of ended turns agree, and no turn of
\* the table has ended.
THEOREM TablesAgree == Spec => []TablesSound
  BY IndexCorrect, WorkspaceExclusive, HistoryHasRoom, NoRevival, PTL DEF TablesSound

-----------------------------------------------------------------------------
(* Release. *)

LEMMA ReleaseStep ==
  ASSUME Ledger, History, [Next]_admissionVars
  PROVE  ReleasedByCompletion
<1>1. CASE UNCHANGED turnVars
  BY <1>1 DEF turnVars, ReleasedByCompletion
<1>2. ASSUME NEW r \in TurnTokens, NEW t \in Turn, Adds(r, t) \/ Updates(r, t)
      PROVE  ReleasedByCompletion
  BY <1>2, AdmissionAssumption
     DEF Adds, Updates, ReleasedByCompletion, Ledger, TypeOK
<1>3. ASSUME NEW r \in TurnTokens, NEW id \in TurnIds, Removes(r, id)
      PROVE  ReleasedByCompletion
  <2>1. Cardinality(completed) \in Nat /\ Cardinality(ActiveTurns) \in Nat
    BY FS_CardinalityType DEF History
  <2>2. Cardinality(ActiveTurns) # 0
    <3>1. r \in ActiveTurns
      BY <1>3 DEF Removes, ActiveTurns
    <3> QED
      BY <3>1, FS_EmptySet DEF History
  <2>3. Cardinality(completed) < MaxCompletedTurns
    BY <2>1, <2>2, AdmissionAssumption DEF History, HistoryNeverOverflows
  <2>4. /\ turns' = [turns EXCEPT ![r] = None]
        /\ completed' = completed \cup {<<turns[r].app, turns[r].thread, id>>}
    BY <1>3, <2>3 DEF Removes, RetireTurn
  <2>5. ASSUME NEW s \in TurnTokens, turns[s] # None, turns'[s] = None
        PROVE  s = r
    BY <2>4, <2>5 DEF Ledger, TypeOK
  <2> QED
    BY <1>3, <2>4, <2>5 DEF Removes, ReleasedByCompletion
<1> QED
  BY <1>1, <1>2, <1>3, StepShapes DEF Shaped

\* A turn leaves the table only when its own completion is recorded: no failure,
\* uncertain start or close gives its thread or workspace to another turn.
THEOREM ReleaseByCompletion == Spec => TurnReleasedOnlyByCompletion
<1>1. Ledger /\ History /\ [Next]_admissionVars
        => [ReleasedByCompletion]_admissionVars
  BY ReleaseStep
<1> QED
  BY <1>1, LedgerAlways, HistoryAlways, PTL
     DEF Spec, TurnReleasedOnlyByCompletion

-----------------------------------------------------------------------------
(* The ledger implements the gate. *)

\* How the abstract state moves: what is in progress, the taint and the gate.
LEMMA AddedWork ==
  ASSUME NEW o \in OperationTokens, o \notin ActiveOperations,
         ActiveOperations' = ActiveOperations \cup {o}, ActiveTurns' = ActiveTurns
  PROVE  /\ <<"operation", o>> \in AllWork \ WorkInProgress
         /\ WorkInProgress' = WorkInProgress \cup {<<"operation", o>>}
  BY DEF AllWork, WorkInProgress

LEMMA AddedTurn ==
  ASSUME NEW r \in TurnTokens, r \notin ActiveTurns,
         ActiveTurns' = ActiveTurns \cup {r}, ActiveOperations' = ActiveOperations
  PROVE  /\ <<"turn", r>> \in AllWork \ WorkInProgress
         /\ WorkInProgress' = WorkInProgress \cup {<<"turn", r>>}
  BY DEF AllWork, WorkInProgress

LEMMA EndedWork ==
  ASSUME NEW o \in OperationTokens, o \in ActiveOperations,
         ActiveOperations' = ActiveOperations \ {o}, ActiveTurns' = ActiveTurns
  PROVE  /\ <<"operation", o>> \in AllWork \cap WorkInProgress
         /\ WorkInProgress' = WorkInProgress \ {<<"operation", o>>}
  BY DEF AllWork, WorkInProgress

LEMMA EndedTurn ==
  ASSUME NEW r \in TurnTokens, r \in ActiveTurns,
         ActiveTurns' = ActiveTurns \ {r}, ActiveOperations' = ActiveOperations
  PROVE  /\ <<"turn", r>> \in AllWork \cap WorkInProgress
         /\ WorkInProgress' = WorkInProgress \ {<<"turn", r>>}
  BY DEF AllWork, WorkInProgress

\* A step that lets nothing in or out is a taint or a stutter.
LEMMA TaintOrStutter ==
  ASSUME ActiveOperations' = ActiveOperations, ActiveTurns' = ActiveTurns,
         UNCHANGED gateVars, unknown \subseteq unknown'
  PROVE  Gate!Taint \/ UNCHANGED Gate!gateState
<1>1. WorkInProgress' = WorkInProgress
  BY DEF WorkInProgress
<1>2. GatePosition' = GatePosition
  BY DEF gateVars, GatePosition
<1>3. CASE unknown' = {}
  <2>1. unknown = {}
    BY <1>3
  <2> QED
    BY <1>1, <1>2, <1>3, <2>1 DEF Gate!gateState
<1>4. CASE unknown' # {}
  BY <1>1, <1>2, <1>4 DEF Gate!Taint
<1> QED
  BY <1>3, <1>4

\* Work that ends does so while the gate is open or closed, never held.
LEMMA ReleaseStepOfGate ==
  ASSUME Lease, NEW w \in AllWork, w \in WorkInProgress, claimed,
         WorkInProgress' = WorkInProgress \ {w},
         UNCHANGED gateVars, unknown \subseteq unknown'
  PROVE  Gate!Release(w)
<1>1. GatePosition \in {"open", "closed"}
  BY DEF Lease, LeaseExcludesWork, GatePosition, WorkInProgress
<1>2. GatePosition' = GatePosition
  BY DEF gateVars, GatePosition
<1>3. (unknown # {})' \in {unknown # {}, TRUE}
  <2>1. unknown # {} => unknown' # {}
    OBVIOUS
  <2> QED
    BY <2>1
<1> QED
  BY <1>1, <1>2, <1>3 DEF Gate!Release

LEMMA GateStep ==
  ASSUME Ledger, Lease, [Next]_admissionVars
  PROVE  [Gate!Next]_(Gate!gateState)
<1> USE DEF turnVars
<1>1. CASE ClaimController
  <2>1. WorkInProgress' = WorkInProgress /\ unknown' = unknown
    BY <1>1 DEF ClaimController, WorkInProgress, ActiveOperations, ActiveTurns
  <2>2. GatePosition = "unclaimed" /\ GatePosition' = "open"
    BY <1>1 DEF ClaimController, GatePosition, Lease, LeaseIsCurrent
  <2> QED
    BY <2>1, <2>2 DEF Gate!Next, Gate!Claim
<1>2. ASSUME NEW o \in OperationTokens, NEW kind \in ActivityKinds,
             ReserveOperation(o, kind)
      PROVE  [Gate!Next]_(Gate!gateState)
  <2>1. /\ o \notin ActiveOperations
        /\ ActiveOperations' = ActiveOperations \cup {o}
        /\ ActiveTurns' = ActiveTurns
    BY <1>2, AdmissionAssumption
       DEF ReserveOperation, ActiveOperations, ActiveTurns, Ledger, TypeOK
  <2>2. /\ GatePosition = "open" /\ GatePosition' = GatePosition
        /\ unknown' = unknown
    BY <1>2 DEF ReserveOperation, AdmissionOpen, GatePosition, gateVars
  <2>3. Gate!Admit(<<"operation", o>>)
    BY <2>1, <2>2, AddedWork DEF Gate!Admit
  <2> QED
    BY <2>1, <2>3, AddedWork DEF Gate!Next
<1>3. ASSUME NEW o \in OperationTokens, NEW uncertain \in BOOLEAN,
             FinishOperation(o, uncertain)
      PROVE  [Gate!Next]_(Gate!gateState)
  <2>1. /\ o \in ActiveOperations
        /\ ActiveOperations' = ActiveOperations \ {o}
        /\ ActiveTurns' = ActiveTurns
    BY <1>3
       DEF FinishOperation, ActiveOperations, ActiveTurns, Ledger, TypeOK
  <2>2. UNCHANGED gateVars /\ unknown \subseteq unknown' /\ claimed
    BY <1>3 DEF FinishOperation
  <2>3. /\ <<"operation", o>> \in AllWork /\ <<"operation", o>> \in WorkInProgress
        /\ WorkInProgress' = WorkInProgress \ {<<"operation", o>>}
    BY <2>1, EndedWork
  <2> QED
    BY <2>2, <2>3, ReleaseStepOfGate DEF Gate!Next
<1>4. ASSUME NEW r \in TurnTokens, NEW a \in Apps, NEW th \in Threads,
             NEW w \in Workspaces, ReserveTurn(r, a, th, w)
      PROVE  [Gate!Next]_(Gate!gateState)
  <2>1. NewTurn(a, th, w) \in Turn
    BY DEF NewTurn, Turn, TurnStates
  <2>2. /\ r \notin ActiveTurns
        /\ ActiveTurns' = ActiveTurns \cup {r}
        /\ ActiveOperations' = ActiveOperations
    BY <1>4, <2>1, AdmissionAssumption
       DEF ReserveTurn, ActiveOperations, ActiveTurns, Ledger, TypeOK
  <2>3. /\ GatePosition = "open" /\ GatePosition' = GatePosition
        /\ unknown' = unknown
    BY <1>4 DEF ReserveTurn, AdmissionOpen, GatePosition, gateVars
  <2>4. Gate!Admit(<<"turn", r>>)
    BY <2>2, <2>3, AddedTurn DEF Gate!Admit
  <2> QED
    BY <2>2, <2>4, AddedTurn DEF Gate!Next
\* A retired turn.
<1>5. ASSUME NEW r \in TurnTokens, turns[r] # None, NEW id, NEW reasons,
             RetireTurn(r, id, reasons), claimed, UNCHANGED <<gateVars, operations>>
      PROVE  [Gate!Next]_(Gate!gateState)
  <2>1. /\ r \in ActiveTurns
        /\ ActiveTurns' = ActiveTurns \ {r}
        /\ ActiveOperations' = ActiveOperations
    BY <1>5 DEF RetireTurn, ActiveOperations, ActiveTurns, Ledger, TypeOK
  <2>2. unknown \subseteq unknown'
    BY <1>5 DEF RetireTurn
  <2>3. /\ <<"turn", r>> \in AllWork /\ <<"turn", r>> \in WorkInProgress
        /\ WorkInProgress' = WorkInProgress \ {<<"turn", r>>}
    BY <2>1, EndedTurn
  <2> QED
    BY <1>5, <2>2, <2>3, ReleaseStepOfGate DEF Gate!Next
\* A turn updated in place, or no change to the turn table at all.
<1>6. ASSUME UNCHANGED <<gateVars, operations>>, unknown \subseteq unknown',
             \/ UNCHANGED turns
             \/ \E r \in TurnTokens, u \in Turn :
                  turns[r] # None /\ turns' = [turns EXCEPT ![r] = u]
      PROVE  [Gate!Next]_(Gate!gateState)
  <2>1. ActiveOperations' = ActiveOperations /\ ActiveTurns' = ActiveTurns
    BY <1>6, AdmissionAssumption DEF ActiveOperations, ActiveTurns, Ledger, TypeOK
  <2> QED
    BY <1>6, <2>1, TaintOrStutter DEF Gate!Next
<1>7. ASSUME NEW r \in TurnTokens, NEW id \in TurnIds, BindTurn(r, id)
      PROVE  [Gate!Next]_(Gate!gateState)
  <2> DEFINE late == IF closed THEN {"operation_outcome_unknown"} ELSE {}
  <2>1. turns[r] # None /\ claimed /\ UNCHANGED <<gateVars, operations>>
    BY <1>7 DEF BindTurn, CanBind
  <2>2. turns[r] \in Turn
    BY <2>1, ActiveTurnType DEF Ledger
  <2>3. CASE RetireTurn(r, id, late)
    BY <1>5, <2>1, <2>3
  <2>4. CASE ~RetireTurn(r, id, late)
    <3> DEFINE s == IF closed THEN "unknown"
                    ELSE IF turns[r].stopRequested THEN "stopping" ELSE "running"
               u == [turns[r] EXCEPT !.turnId = id, !.state = s]
    <3>1. u \in Turn
      BY <2>2 DEF Turn, TurnStates
    <3>2. turns' = [turns EXCEPT ![r] = u] /\ unknown \subseteq unknown'
      BY <1>7, <2>2, <2>4 DEF BindTurn, Ledger, TypeOK
    <3> QED
      BY <1>6, <2>1, <3>1, <3>2
  <2> QED
    BY <2>3, <2>4
<1>8. ASSUME NEW r \in TurnTokens, FailTurn(r)
      PROVE  [Gate!Next]_(Gate!gateState)
  <2> DEFINE u == [turns[r] EXCEPT !.state = "unknown"]
  <2>1. turns[r] # None /\ turns[r] \in Turn
    BY <1>8, ActiveTurnType DEF FailTurn, Ledger
  <2>2. u \in Turn
    BY <2>1 DEF Turn, TurnStates
  <2>3. turns' = [turns EXCEPT ![r] = u]
    BY <1>8, <2>1 DEF FailTurn, Ledger, TypeOK
  <2> QED
    BY <1>6, <1>8, <2>1, <2>2, <2>3 DEF FailTurn
<1>9. ASSUME NEW kind \in EventKinds, NEW a \in Apps, NEW th \in Threads,
             NEW id \in TurnIds, TurnEvent(kind, a, th, id)
      PROVE  [Gate!Next]_(Gate!gateState)
  <2> DEFINE r == byThread[<<a, th>>]
             t == turns[r]
             u == IF t.state = "starting" THEN EarlyEvent(kind, t, id)
                                          ELSE BoundEvent(kind, t)
  <2>1. claimed /\ UNCHANGED <<gateVars, operations>>
    BY <1>9 DEF TurnEvent
  <2>2. CASE ~EventAccepted(kind, a, th, id)
    <3>1. UNCHANGED turns /\ unknown \subseteq unknown'
      BY <1>9, <2>2 DEF TurnEvent
    <3> QED
      BY <1>6, <2>1, <3>1
  <2>3. CASE EventAccepted(kind, a, th, id)
    <3>1. r # None
      BY <2>3 DEF EventAccepted, Unexpected
    <3>2. r \in TurnTokens /\ t \in Turn /\ t # None
      BY <3>1, IndexedTurn, AdmissionAssumption
    <3>3. CASE RetireTurn(r, id, {})
      BY <1>5, <2>1, <3>2, <3>3
    <3>4. CASE ~RetireTurn(r, id, {})
      <4>1. u \in Turn
        BY <3>2 DEF EarlyEvent, BoundEvent, Turn, TurnStates
      <4>2. turns' = [turns EXCEPT ![r] = u] /\ unknown' = unknown
        BY <1>9, <2>3, <3>4 DEF TurnEvent, EventAccepted
      <4> QED
        BY <1>6, <2>1, <3>2, <4>1, <4>2
    <3> QED
      BY <3>3, <3>4
  <2> QED
    BY <2>2, <2>3
<1>10. CASE \/ InvalidEvent
            \/ \E reason \in ReportedReasons : MarkUnknown(reason)
            \/ \E r \in TurnTokens, id \in TurnIds : RefuseBind(r, id)
            \/ UNCHANGED admissionVars
  BY <1>6, <1>10 DEF InvalidEvent, MarkUnknown, RefuseBind, admissionVars,
                     gateVars
<1>11. CASE TryEnterMaintenance
  <2>1. WorkInProgress = {} /\ WorkInProgress' = {}
    BY <1>11 DEF TryEnterMaintenance, Quiet, WorkInProgress, ActiveOperations,
                 ActiveTurns
  <2>2. GatePosition = "open" /\ GatePosition' = "held"
    BY <1>11 DEF TryEnterMaintenance, AdmissionOpen, GatePosition, NoLease,
                 Ledger, TypeOK
  <2>3. unknown = {} /\ unknown' = {}
    BY <1>11 DEF TryEnterMaintenance, Quiet
  <2> QED
    BY <2>1, <2>2, <2>3 DEF Gate!Next, Gate!Enter
<1>12. ASSUME NEW l \in 1 .. generation, LeaveMaintenance(l)
       PROVE  [Gate!Next]_(Gate!gateState)
  <2>1. WorkInProgress' = WorkInProgress /\ unknown' = unknown
    BY <1>12 DEF LeaveMaintenance, WorkInProgress, ActiveOperations, ActiveTurns
  <2>2. GatePosition = "held" /\ GatePosition' = "open"
    BY <1>12 DEF LeaveMaintenance, GatePosition, Lease, LeaseIsCurrent
  <2> QED
    BY <2>1, <2>2 DEF Gate!Next, Gate!Leave
<1>13. CASE Close
  <2>1. WorkInProgress' = WorkInProgress /\ unknown' = unknown
    BY <1>13 DEF Close, WorkInProgress, ActiveOperations, ActiveTurns
  <2>2. GatePosition # "closed" /\ GatePosition' = "closed"
    BY <1>13 DEF Close, GatePosition
  <2> QED
    BY <2>1, <2>2 DEF Gate!Next, Gate!Close
<1> QED
  BY <1>1, <1>2, <1>3, <1>4, <1>7, <1>8, <1>9, <1>10, <1>11, <1>12, <1>13
     DEF Next

\* The ledger implements the maintenance gate: what it admits, releases, taints,
\* leases and closes are the steps the gate allows.
THEOREM GateImplemented == Spec => ImplementsGate
<1>1. Init => Gate!Init
  <2> SUFFICES ASSUME Init PROVE Gate!Init
    OBVIOUS
  <2>1. WorkInProgress = {}
    BY DEF Init, WorkInProgress, ActiveOperations, ActiveTurns
  <2>2. (unknown # {}) = FALSE /\ GatePosition = "unclaimed"
    BY DEF Init, GatePosition
  <2> QED
    BY <2>1, <2>2 DEF Gate!Init
<1>2. Ledger /\ Lease /\ [Next]_admissionVars => [Gate!Next]_(Gate!gateState)
  BY GateStep
<1> QED
  BY <1>1, <1>2, LedgerAlways, LeaseAlways, PTL DEF Spec, ImplementsGate, Gate!Spec

=============================================================================
