--------------------------- MODULE AppConnections ---------------------------
(***************************************************************************)
(* The connections to coding workers of one controller, from their         *)
(* creation to its shutdown: _get_app() and close() of BridgeController    *)
(* (controller.py), and the constructor, the requests, the reader thread   *)
(* and the clean-up of AppServerClient (codex_app_server.py).  A worker is *)
(* a child process, or the other end of the desktop's socket.              *)
(*                                                                         *)
(* "enrolled" is a controller with a ledger; "bound" is one whose children *)
(* must come from a reviewed configuration.  A waiting queue holds one     *)
(* message, and the reader thread puts into it without a time-out.         *)
(* Statements that follow each other without reading anything shared are   *)
(* one step: the flags of a closed connection, its notice to the ledger,   *)
(* the errors for its waiters and the signal to its child.  The end of a   *)
(* child that was killed is not a step.                                    *)
(***************************************************************************)
EXTENDS Naturals, Sequences

CONSTANTS
  Users,           \* threads that call the controller
  Places,          \* app keys: a target and its working directory
  NoUser,
  Closer,          \* the thread that closes the controller
  ConnectionBound, \* bound: connections ever opened
  RequestBound     \* bound: requests ever sent

ASSUME ConnectionsAssumption ==
  /\ {NoUser, Closer} \cap Users = {} /\ NoUser # Closer
  /\ Places # {}

VARIABLES
  mode,       \* "enrolled" or "bound"
  gate,       \* the ledger: closed, unknown
  stopped,    \* _controller_closed
  appLock,    \* holder of _app_lock
  current,    \* _apps: place -> connection, 0 if there is none
  owned,      \* _owned_child_apps
  connection, \* every connection opened, in order
  request,    \* every request sent, in order
  call,       \* user -> where its call is
  shutdown,   \* where close() is, the connections it has still to close
  drifted     \* a selected executable has changed

connectionsVars == <<mode, gate, stopped, appLock, current, owned, connection, request, call,
                     shutdown, drifted>>
ledgerVars == <<gate, stopped, shutdown, drifted, mode>>
ownerVars == <<appLock, current, owned>>

Connections == DOMAIN connection
Bound == mode = "bound"

NoCall == [step |-> "idle", place |-> CHOOSE p \in Places : TRUE, conn |-> 0, rid |-> 0]

ConnectionsInit ==
  /\ mode \in {"enrolled", "bound"}
  /\ gate = [closed |-> FALSE, unknown |-> FALSE]
  /\ stopped = FALSE /\ drifted = FALSE
  /\ appLock = NoUser
  /\ current = [p \in Places |-> 0] /\ owned = {}
  /\ connection = <<>> /\ request = <<>>
  /\ call = [u \in Users |-> NoCall]
  /\ shutdown = [step |-> "open", left |-> {}, at |-> 0]

CallAt(u, step) == call[u].step = step
Conn(u) == connection[call[u].conn]
Alive(i) == connection[i].peer \in {"running", "mute"}

\* The loss of a connection reaches the ledger once; its flags are sticky.
GateLost == [gate EXCEPT !.unknown = TRUE]
\* A bound controller whose child binding failed closes its ledger as well.
GateFailed == [closed |-> gate.closed \/ Bound, unknown |-> TRUE]

(***************************************************************************)
(* _get_app(), under the app lock.                                         *)
(***************************************************************************)
\* The ledger admits the call before it waits for the lock.
CallApp(u) ==
  /\ CallAt(u, "idle") /\ ~ gate.closed
  /\ \E p \in Places : call' = [call EXCEPT ![u].step = "queued", ![u].place = p]
  /\ UNCHANGED <<ledgerVars, ownerVars, connection, request>>

\* The mutant creates connections without the lock.
FaultyLockFree == TRUE
LockFree == appLock = NoUser

TakeAppLock(u) ==
  /\ CallAt(u, "queued") /\ LockFree
  /\ appLock' = u /\ call' = [call EXCEPT ![u].step = "locked"]
  /\ UNCHANGED <<ledgerVars, current, owned, connection, request>>

\* A call that ended is forgotten.
EndCall(u) == call' = [call EXCEPT ![u] = [NoCall EXCEPT !.step = "done"]]

\* The mutant forgets that the controller closed while the caller waited.
FaultyStillOpen == TRUE
StillOpen == ~ stopped

\* close() came first, or the children's configuration no longer holds.
RefuseApp(u) ==
  /\ CallAt(u, "locked")
  /\ ~ StillOpen \/ drifted
  /\ gate' = IF StillOpen THEN GateFailed ELSE gate
  /\ EndCall(u) /\ appLock' = NoUser
  /\ UNCHANGED <<mode, stopped, shutdown, drifted, current, owned, connection, request>>

FindApp(u) ==
  /\ CallAt(u, "locked") /\ StillOpen /\ ~ drifted
  /\ LET i == current[call[u].place] IN
     /\ i # 0
     /\ call' = [call EXCEPT ![u].step = "has", ![u].conn = i]
  /\ appLock' = NoUser
  /\ UNCHANGED <<ledgerVars, current, owned, connection, request>>

NewConnection(place, kind) ==
  [place |-> place, kind |-> kind, peer |-> "running", signal |-> "none",
   closed |-> FALSE, lost |-> FALSE, reader |-> "reading", holds |-> 0]
NewRequest(i) == [conn |-> i, item |-> "none", registered |-> TRUE, answered |-> FALSE]

\* The transport is opened, the reader started, "initialize" sent.  A socket is only tried
\* first: when it fails, the desktop's own executable is launched.
OpenApp(u, kind) ==
  /\ Len(connection) < ConnectionBound /\ Len(request) < RequestBound
  /\ connection' = Append(connection, NewConnection(call[u].place, kind))
  /\ request' = Append(request, NewRequest(Len(connection) + 1))
  /\ call' = [call EXCEPT ![u].step = "initializing", ![u].conn = Len(connection) + 1,
                          ![u].rid = Len(request) + 1]

LaunchApp(u) ==
  /\ CallAt(u, "locked") /\ StillOpen /\ ~ drifted /\ current[call[u].place] = 0
  /\ \E kind \in {"child", "socket"} : OpenApp(u, kind)
  /\ UNCHANGED <<ledgerVars, ownerVars>>

\* Nothing was launched, and that too leaves the ledger unsure.
LaunchFails(u) ==
  /\ CallAt(u, "locked") /\ StillOpen /\ ~ drifted /\ current[call[u].place] = 0
  /\ gate' = GateFailed
  /\ EndCall(u) /\ appLock' = NoUser
  /\ UNCHANGED <<mode, stopped, shutdown, drifted, current, owned, connection, request>>

(***************************************************************************)
(* Requests, the first of which is "initialize".                           *)
(***************************************************************************)
Lose(i) == [connection EXCEPT ![i].lost = TRUE]
Unregister(q) == [request EXCEPT ![q].registered = FALSE]
\* The message is taken out of the queue first.
Take(q) == [request EXCEPT ![q].registered = FALSE, ![q].item = "none"]

WaitersOf(i) == {q \in DOMAIN request : request[q].conn = i /\ request[q].registered}
\* _fail_pending(): put_nowait() into each queue that has room.
FailWaiters(waiters) ==
  [q \in DOMAIN request |->
     IF q \in waiters /\ request[q].item = "none" THEN [request[q] EXCEPT !.item = "error"]
     ELSE request[q]]

Writable(i) == ~ connection[i].closed /\ connection[i].peer # "gone" /\ ~ drifted

\* A later request of a user that has a connection.
AskWorker(u) ==
  /\ CallAt(u, "has") /\ Len(request) < RequestBound /\ Writable(call[u].conn)
  /\ request' = Append(request, NewRequest(call[u].conn))
  /\ call' = [call EXCEPT ![u].step = "asking", ![u].rid = Len(request) + 1]
  /\ UNCHANGED <<ledgerVars, ownerVars, connection>>

AskFails(u) ==
  /\ CallAt(u, "has") /\ ~ Writable(call[u].conn)
  /\ connection' = Lose(call[u].conn) /\ gate' = GateFailed
  /\ EndCall(u)
  /\ UNCHANGED <<mode, stopped, shutdown, drifted, ownerVars, request>>

\* Answered, and "initialized" could be written: the connection is everyone's.
Publish(u) ==
  /\ CallAt(u, "initializing") /\ request[call[u].rid].item = "reply" /\ Writable(call[u].conn)
  /\ request' = Take(call[u].rid)
  /\ current' = [current EXCEPT ![call[u].place] = call[u].conn]
  /\ owned' = owned \cup (IF Bound THEN {call[u].conn} ELSE {})
  /\ call' = [call EXCEPT ![u].step = "has", ![u].rid = 0] /\ appLock' = NoUser
  /\ UNCHANGED <<ledgerVars, connection>>

\* A child is told to end; a socket is closed, and its worker lives on.
EndWorker(i) ==
  [connection EXCEPT ![i].closed = TRUE, ![i].lost = TRUE,
     ![i].signal = IF connection[i].kind = "child" /\ Alive(i) THEN "term" ELSE @,
     ![i].peer = IF connection[i].kind = "socket" THEN "gone" ELSE @]
\* The child ended in time, or is killed; nobody waits for it for long.
KillWorker(i) == [connection EXCEPT ![i].signal = IF Alive(i) THEN "kill" ELSE @]

\* The constructor fails: it tells the loss and cleans up.
InitializeFails(u) ==
  /\ \/ CallAt(u, "initializing") /\ request[call[u].rid].item # "none"
        /\ ~ (request[call[u].rid].item = "reply" /\ Writable(call[u].conn))
     \/ CallAt(u, "expired") /\ appLock = u
  /\ request' = IF CallAt(u, "expired") THEN Unregister(call[u].rid) ELSE Take(call[u].rid)
  /\ connection' = EndWorker(call[u].conn) /\ gate' = GateLost
  /\ call' = [call EXCEPT ![u].step = "cleaning"]
  /\ UNCHANGED <<mode, stopped, shutdown, drifted, ownerVars>>

\* A socket is only tried first.
FallBack(u) ==
  /\ CallAt(u, "cleaning") /\ Conn(u).kind = "socket" /\ ~ drifted
  /\ OpenApp(u, "child")
  /\ UNCHANGED <<ledgerVars, ownerVars>>

\* "app_creation_failed"
CreationFails(u) ==
  /\ CallAt(u, "cleaning")
  /\ connection' = KillWorker(call[u].conn) /\ gate' = GateFailed
  /\ EndCall(u) /\ appLock' = NoUser
  /\ UNCHANGED <<mode, stopped, shutdown, drifted, current, owned, request>>

\* An error fails the request; to a bound client any failure is a loss.
Answered(u) ==
  /\ CallAt(u, "asking") /\ request[call[u].rid].item # "none"
  /\ request' = Take(call[u].rid)
  /\ IF Bound /\ request[call[u].rid].item # "reply"
     THEN connection' = Lose(call[u].conn) /\ gate' = GateFailed
     ELSE UNCHANGED <<connection, gate>>
  /\ EndCall(u)
  /\ UNCHANGED <<mode, stopped, shutdown, drifted, ownerVars>>

\* The mutant fails every waiter of a connection it leaves open.
FaultyExpire(u) == FailWaiters(WaitersOf(call[u].conn))
Expire(u) == request

\* The time is up: the loss is told while the waiter is still registered.
TimesOut(u) ==
  /\ call[u].step \in {"initializing", "asking"} /\ request[call[u].rid].item = "none"
  /\ connection' = Lose(call[u].conn) /\ gate' = GateLost
  /\ request' = Expire(u)
  /\ call' = [call EXCEPT ![u].step = "expired"]
  /\ UNCHANGED <<mode, stopped, shutdown, drifted, ownerVars>>

ForgetRequest(u) ==
  /\ CallAt(u, "expired") /\ appLock # u
  /\ request' = Unregister(call[u].rid)
  /\ gate' = GateFailed
  /\ EndCall(u)
  /\ UNCHANGED <<mode, stopped, shutdown, drifted, ownerVars, connection>>

UnderLock(u) ==
  \/ RefuseApp(u) \/ FindApp(u) \/ LaunchApp(u) \/ LaunchFails(u)
  \/ Publish(u) \/ InitializeFails(u) \/ (appLock = u /\ TimesOut(u))
  \/ FallBack(u) \/ CreationFails(u)

UserStep(u) ==
  \/ CallApp(u) \/ TakeAppLock(u) \/ UnderLock(u)
  \/ AskWorker(u) \/ AskFails(u) \/ Answered(u) \/ (appLock # u /\ TimesOut(u)) \/ ForgetRequest(u)

(***************************************************************************)
(* The reader thread, and the worker.                                      *)
(***************************************************************************)
\* A reply arrives; the waiter is looked up, and the message put into it later.
TakeReply(i) ==
  /\ connection[i].reader = "reading" /\ connection[i].holds = 0 /\ connection[i].peer = "running"
  /\ \E q \in DOMAIN request :
       /\ request[q].conn = i /\ ~ request[q].answered
       /\ request' = [request EXCEPT ![q].answered = TRUE]
       /\ connection' = [connection EXCEPT ![i].holds = IF request[q].registered THEN q ELSE 0]
  /\ UNCHANGED <<ledgerVars, ownerVars, call>>

\* waiter.put() waits while the queue is full.
PutReply(i) ==
  /\ connection[i].holds # 0 /\ request[connection[i].holds].item = "none"
  /\ \E item \in {"reply", "refusal"} :
       request' = [request EXCEPT ![connection[i].holds].item = item]
  /\ connection' = [connection EXCEPT ![i].holds = 0]
  /\ UNCHANGED <<ledgerVars, ownerVars, call>>

\* The mutant closes without telling the ledger.
FaultyMarkedGate == gate
MarkedGate == GateLost

\* _mark_closed() at the end of the stream.
MarkClosed(i) ==
  /\ connection[i].reader = "reading" /\ connection[i].holds = 0
  /\ connection[i].peer # "running" \/ connection[i].signal = "kill"
  /\ connection' = [connection EXCEPT ![i].closed = TRUE, ![i].lost = TRUE, ![i].reader = "ended"]
  /\ request' = FailWaiters(WaitersOf(i))
  /\ gate' = MarkedGate
  /\ UNCHANGED <<mode, stopped, shutdown, drifted, ownerVars, call>>

\* The worker exits, or closes its output and lives on; a signal to terminate may go unheard.
WorkerChanges(i) ==
  /\ connection[i].signal # "kill"
  /\ \/ Alive(i) /\ connection' = [connection EXCEPT ![i].peer = "gone"]
     \/ connection[i].kind = "child" /\ connection[i].peer = "running"
        /\ connection' = [connection EXCEPT ![i].peer = "mute"]
  /\ UNCHANGED <<ledgerVars, ownerVars, request, call>>

Drift ==
  /\ Bound /\ ~ drifted /\ drifted' = TRUE
  /\ UNCHANGED <<mode, gate, stopped, shutdown, ownerVars, connection, request, call>>

(***************************************************************************)
(* close() of the controller.                                              *)
(***************************************************************************)
StopController ==
  /\ shutdown.step = "open"
  /\ gate' = [gate EXCEPT !.closed = TRUE] /\ stopped' = TRUE
  /\ shutdown' = [shutdown EXCEPT !.step = "locking"]
  /\ UNCHANGED <<mode, drifted, ownerVars, connection, request, call>>

\* A bound controller closes every child it launched, another one those it would use.
CloserLocks ==
  /\ shutdown.step = "locking" /\ LockFree
  /\ appLock' = Closer
  /\ shutdown' = [shutdown EXCEPT !.step = "closing",
                    !.left = IF Bound THEN owned ELSE {current[p] : p \in Places} \ {0}]
  /\ UNCHANGED <<mode, gate, stopped, drifted, current, owned, connection, request, call>>

\* close() of a client: a bound one is cleaned up whatever its flags say; another one that
\* the reader has closed already is left as it is.
CloseApp(i) ==
  /\ shutdown.step = "closing" /\ i \in shutdown.left
  /\ gate' = GateLost
  /\ IF connection[i].closed /\ ~ Bound
     THEN /\ connection' = Lose(i)
          /\ shutdown' = [shutdown EXCEPT !.left = @ \ {i}]
          /\ UNCHANGED request
     ELSE /\ connection' = EndWorker(i)
          /\ request' = FailWaiters(WaitersOf(i))
          /\ shutdown' = [shutdown EXCEPT !.left = @ \ {i}, !.step = "waiting", !.at = i]
  /\ UNCHANGED <<mode, stopped, drifted, ownerVars, call>>

CloserWaits ==
  /\ shutdown.step = "waiting"
  /\ connection' = KillWorker(shutdown.at)
  /\ shutdown' = [shutdown EXCEPT !.step = "closing", !.at = 0]
  /\ UNCHANGED <<mode, gate, stopped, drifted, ownerVars, request, call>>

ControllerCloses ==
  /\ shutdown.step = "closing" /\ shutdown.left = {}
  /\ current' = [p \in Places |-> 0] /\ owned' = {}
  /\ appLock' = NoUser
  /\ shutdown' = [shutdown EXCEPT !.step = "closed"]
  /\ UNCHANGED <<mode, gate, stopped, drifted, connection, request, call>>

CloserStep ==
  CloserLocks \/ (\E i \in Connections : CloseApp(i)) \/ CloserWaits \/ ControllerCloses

ConnectionsNext ==
  \/ \E u \in Users : UserStep(u)
  \/ \E i \in Connections :
       TakeReply(i) \/ PutReply(i) \/ MarkClosed(i) \/ WorkerChanges(i)
  \/ Drift
  \/ StopController \/ CloserStep

\* A thread that holds the lock goes on, and its waits are timed; once it has been told to
\* stop, so does the closer.  Nothing is asked of workers and readers.
ConnectionsFairness ==
  /\ \A u \in Users : WF_connectionsVars(TakeAppLock(u)) /\ WF_connectionsVars(UnderLock(u))
  /\ WF_connectionsVars(CloserStep)

ConnectionsSpec == ConnectionsInit /\ [][ConnectionsNext]_connectionsVars /\ ConnectionsFairness

ConnectionsTypeOK ==
  /\ gate \in [closed : BOOLEAN, unknown : BOOLEAN]
  /\ {stopped, drifted} \subseteq BOOLEAN
  /\ appLock \in Users \cup {NoUser, Closer}
  /\ \A p \in Places : current[p] \in Connections \cup {0}
  /\ owned \subseteq Connections
  /\ \A i \in Connections : connection[i].holds \in DOMAIN request \cup {0}
  /\ \A q \in DOMAIN request : request[q].conn \in Connections
  /\ \A u \in Users : call[u].conn \in Connections \cup {0}

BeingCreated(i) ==
  \E u \in Users : call[u].conn = i /\ call[u].step \in {"initializing", "expired"}

\* While the ledger is not in doubt, every worker that lives belongs to a connection that
\* the controller still uses, or is creating right now: a creation that failed, a stream
\* that ended and a client that was closed are never mistaken for quiet (controller.py
\* "A constructor may have launched its child or reader before failing").
QuietIsAccounted ==
  ~ gate.unknown =>
    \A i \in Connections :
      Alive(i) =>
        /\ ~ connection[i].closed /\ ~ connection[i].lost
        /\ current[connection[i].place] = i \/ BeingCreated(i)

\* The reader is stuck: its message does not fit, and the one that waited is gone.
Stuck(i) ==
  LET q == connection[i].holds IN
    /\ q # 0 /\ request[q].item # "none"
    /\ \A u \in Users : call[u].rid = q => call[u].step \notin {"initializing", "asking"}

\* A reader that waits for ever in put() is one of a connection that was closed and whose
\* loss was told: nobody waits for what it would have read (codex_app_server.py:971).
StuckReaderIsClosed ==
  \A i \in Connections : Stuck(i) => connection[i].closed /\ connection[i].lost /\ gate.unknown

Unstopped(i) == connection[i].kind = "child" /\ Alive(i) /\ connection[i].signal = "none"

\* In one place one child works at a time: another is only launched when the one before
\* it was told to end.
OneWorkerPerPlace ==
  \A i, j \in Connections :
    i # j /\ connection[i].place = connection[j].place =>
      ~ (Unstopped(i) /\ Unstopped(j))

\* When close() has returned no child is left that was not told to end, except one that
\* had ended its own output before, of a controller whose children are not bound.
NothingSurvivesClose ==
  shutdown.step = "closed" =>
    \A i \in Connections :
      Unstopped(i) => ~ Bound /\ connection[i].peer = "mute" /\ connection[i].closed

ConnectionsSound ==
  QuietIsAccounted /\ StuckReaderIsClosed /\ OneWorkerPerPlace /\ NothingSurvivesClose

\* A creation ends, whatever the worker does, and so does close(), which waits for it.
CreationEnds == \A u \in Users : appLock = u ~> appLock # u
CloseEnds == shutdown.step # "open" ~> shutdown.step = "closed"

=============================================================================
