------------------------------ MODULE MCWorkers ------------------------------
(***************************************************************************)
(* What stands between the controller and its coding workers while one     *)
(* process lives: the connections, from their creation to the shutdown,    *)
(* the policy of the threads on one of them, and the answer to a request   *)
(* that a person must approve.  They share no state here, so they stand    *)
(* side by side: the subject is chosen at the start, and the others do not *)
(* move.                                                                   *)
(***************************************************************************)
EXTENDS ApprovalBroker, AppConnections, ThreadPolicy

CONSTANTS q1, p1, p2

ApprovalTokens == Resolvers \cup (ApprovalRequests \X {"reply", "handler"})

\* A request that leaves the choice of the answer open.
Open == [q \in ApprovalRequests |-> {}]

VARIABLE subject

workersVars == <<subject, allVars, connectionsVars, policyVars>>

WorkersInit ==
  /\ subject \in {"approval", "connections", "policy"}
  /\ ApprovalInit /\ ConnectionsInit /\ PolicyInit
  \* Where the subject is another one, the mode makes no difference.
  /\ subject # "connections" => mode = "enrolled"

\* Users, calls and threads that are alike come in the order of their numbers.
UsersInOrder == \A u \in Users \ {1} : CallAt(u, "idle") \/ ~ CallAt(u - 1, "idle")
TalksInOrder ==
  /\ \A c \in Talks \ {1} : TalkAt(c, "idle") \/ ~ TalkAt(c - 1, "idle")
  /\ \A t \in Dialogues \ {1} : dialogue[t] => dialogue[t - 1]

WorkersNext ==
  \/ subject = "approval" /\ ApprovalNext /\ UNCHANGED <<subject, connectionsVars, policyVars>>
  \/ subject = "connections" /\ ConnectionsNext /\ UsersInOrder'
     /\ UNCHANGED <<subject, allVars, policyVars>>
  \/ subject = "policy" /\ PolicyNext /\ TalksInOrder'
     /\ UNCHANGED <<subject, allVars, connectionsVars>>

\* The fairness of each, asked of the subject only: the others are not running.
WorkersFairness ==
  /\ \A q \in ApprovalRequests : WF_allVars(subject = "approval" /\ HandlerStep(q))
  /\ \A u \in Users : /\ WF_connectionsVars(subject = "connections" /\ TakeAppLock(u))
                      /\ WF_connectionsVars(subject = "connections" /\ UnderLock(u))
  /\ WF_connectionsVars(subject = "connections" /\ CloserStep)

WorkersSpec == WorkersInit /\ [][WorkersNext]_workersVars /\ WorkersFairness

\* What comes to an end: a request, the creation of a connection, the shutdown.
WorkersProgress == RequestsEnd /\ CreationEnds /\ CloseEnds

=============================================================================
