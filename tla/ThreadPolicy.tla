---------------------------- MODULE ThreadPolicy ----------------------------
(***************************************************************************)
(* The policy a coding worker's thread must keep (worker_policy.py), on    *)
(* one connection of the Bridge: threads are started and resumed, what the *)
(* server resolved is compared with what was asked, and the server may     *)
(* route a thread to another model later (codex_app_server.py).  Calls of  *)
(* the controller (controller.py) load a thread, look at the evidence and  *)
(* send a turn or a hint.  The evidence is kept by the connection, a copy  *)
(* of it by the session, and only the session outlives the Bridge.         *)
(*                                                                         *)
(* How a turn goes on once it was sent is the subject of BridgeTurns.      *)
(***************************************************************************)
EXTENDS Naturals

CONSTANTS
  Talks,          \* calls of the controller, each made once
  Dialogues,      \* threads of workers
  NoDialogue,
  RerouteBound,   \* bound: reroutes of a thread
  BridgeLives     \* bound: restarts of the Bridge

ASSUME PolicyAssumption ==
  NoDialogue \notin Dialogues /\ RerouteBound \in Nat /\ BridgeLives \in Nat

VARIABLES
  talk,        \* call -> its kind, thread and step
  dialogue,    \* thread -> what the server knows: made, resolved as asked
  evidence,    \* _thread_policy_evidence: threads whose resolution was verified
  violations,  \* _thread_policy_violations: thread -> how many reroutes
  activeThread,\* _app_current_thread of the connection
  session,     \* thread -> its stored session and the evidence in it
  arriving,    \* a reroute the reader has counted and not yet passed on
  lives,       \* restarts so far
  loaded,      \* history: threads this connection started or resumed as asked
  diverted     \* history: threads the reader saw rerouted in this life

connectionMemory == <<evidence, violations, activeThread, arriving>>
histories == <<loaded, diverted>>
policyVars == <<talk, dialogue, connectionMemory, session, lives, histories>>

NoSession == [known |-> FALSE, satisfied |-> FALSE, reroutes |-> 0]

PolicyInit ==
  /\ talk = [c \in Talks |-> [kind |-> "none", thread |-> NoDialogue, step |-> "idle"]]
  /\ dialogue = [t \in Dialogues |-> FALSE]
  /\ evidence = {} /\ violations = [t \in Dialogues |-> 0]
  /\ activeThread = NoDialogue
  /\ session = [t \in Dialogues |-> NoSession]
  /\ arriving = NoDialogue
  /\ lives = 0
  /\ loaded = {} /\ diverted = {}

TalkAt(c, step) == talk[c].step = step
TalkGoto(c, step) == talk' = [talk EXCEPT ![c].step = step]
Topic(c) == talk[c].thread

\* worker_policy_evidence(): verified, and no reroute since the connection was made.
Satisfied(t) == t \in evidence /\ violations[t] = 0

(***************************************************************************)
(* Starting a thread.                                                      *)
(***************************************************************************)
\* The policy is one the administrator and the catalog allow: else PolicyRefused.
StartThread(c) ==
  /\ TalkAt(c, "idle")
  /\ talk' = [talk EXCEPT ![c] = [kind |-> "start", thread |-> NoDialogue, step |-> "starting"]]
  /\ UNCHANGED <<dialogue, connectionMemory, session, lives, histories>>

\* The server makes the thread and answers; the reply is on its way.
ServerStarts(c) ==
  /\ TalkAt(c, "starting")
  /\ \E t \in Dialogues :
       /\ ~ dialogue[t]
       /\ dialogue' = [dialogue EXCEPT ![t] = TRUE]
       /\ talk' = [talk EXCEPT ![c].thread = t, ![c].step = "started"]
  /\ UNCHANGED <<connectionMemory, session, lives, histories>>

\* The mutant begins the list anew, as the thread is new to it.
FaultyKept(t) == [violations EXCEPT ![t] = 0]
\* setdefault(): what the reader has counted already is kept.
Kept(t) == violations

\* What was resolved is what was asked; a call that finds otherwise ends (PolicyRefused).
VerifyThread(c) ==
  /\ talk[c].step \in {"started", "resumed"}
  /\ evidence' = evidence \cup {Topic(c)} /\ violations' = Kept(Topic(c))
  /\ loaded' = loaded \cup {Topic(c)}
  /\ TalkGoto(c, IF TalkAt(c, "started") THEN "verified" ELSE "reloading")
  /\ UNCHANGED <<dialogue, activeThread, session, arriving, lives, diverted>>

CheckStarted(c) ==
  /\ TalkAt(c, "verified")
  /\ TalkGoto(c, IF Satisfied(Topic(c)) THEN "recording" ELSE "refused")
  /\ UNCHANGED <<dialogue, connectionMemory, session, lives, histories>>

RecordSession(c) ==
  /\ TalkAt(c, "recording")
  /\ session' = [session EXCEPT ![Topic(c)] = [known |-> TRUE, satisfied |-> TRUE, reroutes |-> 0]]
  /\ activeThread' = Topic(c)
  /\ TalkGoto(c, "sending")
  /\ UNCHANGED <<dialogue, evidence, violations, arriving, lives, histories>>

(***************************************************************************)
(* Going on with a thread that has a session.                              *)
(***************************************************************************)
\* continue_task(), steer() and interrupt(), and what only looks: status().
BeginTalk(c) ==
  /\ TalkAt(c, "idle")
  /\ \E t \in {d \in Dialogues : session[d].known}, kind \in {"continue", "steer", "look"} :
       talk' = [talk EXCEPT ![c] = [kind |-> kind, thread |-> t, step |-> "loading"]]
  /\ UNCHANGED <<dialogue, connectionMemory, session, lives, histories>>

\* The mutant resumes only where no thread was used before.
FaultyInUse(t) == activeThread # NoDialogue
InUse(t) == activeThread = t

\* _app_for_session(): the thread used last is not resumed again.
LoadThread(c) ==
  /\ TalkAt(c, "loading")
  /\ TalkGoto(c, IF InUse(Topic(c)) THEN "loaded" ELSE "resuming")
  /\ UNCHANGED <<dialogue, connectionMemory, session, lives, histories>>

ServerResumes(c) ==
  /\ TalkAt(c, "resuming")
  /\ TalkGoto(c, "resumed")
  /\ UNCHANGED <<dialogue, connectionMemory, session, lives, histories>>

\* The new evidence replaces the session's, the reroutes noted there included.
RecordResumed(c) ==
  /\ TalkAt(c, "reloading")
  /\ session' = [session EXCEPT ![Topic(c)] = [known |-> TRUE, satisfied |-> TRUE, reroutes |-> 0]]
  /\ activeThread' = Topic(c)
  /\ TalkGoto(c, "loaded")
  /\ UNCHANGED <<dialogue, evidence, violations, arriving, lives, histories>>

\* _ensure_loaded(), and the evidence a continuation asks for; a hint asks for none.
PassGate(c) ==
  /\ TalkAt(c, "loaded")
  /\ activeThread' = Topic(c)
  /\ TalkGoto(c, CASE talk[c].kind = "look" -> "ended"
                   [] talk[c].kind = "steer" -> "sending"
                   [] OTHER -> IF Satisfied(Topic(c)) THEN "preparing" ELSE "refused")
  /\ UNCHANGED <<dialogue, evidence, violations, session, arriving, lives, histories>>

\* The handoff is generated by a command that may take minutes.
PreparePrompt(c) ==
  /\ TalkAt(c, "preparing")
  /\ TalkGoto(c, "sending")
  /\ UNCHANGED <<dialogue, connectionMemory, session, lives, histories>>

SendToThread(c) ==
  /\ TalkAt(c, "sending")
  /\ TalkGoto(c, "ended")
  /\ UNCHANGED <<dialogue, connectionMemory, session, lives, histories>>

\* The policy is not supported, the server resolved another model, effort, sandbox or
\* approval, or a request or the handoff failed.
PolicyRefused(c) ==
  /\ talk[c].step \in {"starting", "started", "resuming", "resumed", "preparing"}
  /\ TalkGoto(c, "refused")
  /\ UNCHANGED <<dialogue, connectionMemory, session, lives, histories>>

TalkStep(c) ==
  \/ StartThread(c) \/ ServerStarts(c) \/ VerifyThread(c) \/ CheckStarted(c) \/ RecordSession(c)
  \/ BeginTalk(c) \/ LoadThread(c) \/ ServerResumes(c) \/ RecordResumed(c) \/ PassGate(c)
  \/ PreparePrompt(c) \/ SendToThread(c) \/ PolicyRefused(c)

(***************************************************************************)
(* The reader thread, and restarts.                                        *)
(***************************************************************************)
\* Of a thread this connection knows: one it started or resumed, whatever was resolved.
OnConnection(t) ==
  \/ t \in loaded
  \/ \E c \in Talks : Topic(c) = t /\ talk[c].step \in {"started", "resumed"}

\* model/rerouted: counted by the client, then passed on.
ModelRerouted(t) ==
  /\ arriving = NoDialogue /\ OnConnection(t) /\ violations[t] < RerouteBound
  /\ violations' = [violations EXCEPT ![t] = @ + 1]
  /\ arriving' = t
  /\ diverted' = diverted \cup {t}
  /\ UNCHANGED <<talk, dialogue, evidence, activeThread, session, lives, loaded>>

\* _record_event(): an event without a session is dropped.
RecordReroute ==
  /\ arriving # NoDialogue
  /\ session' = IF session[arriving].known
                THEN [session EXCEPT ![arriving].satisfied = FALSE, ![arriving].reroutes = @ + 1]
                ELSE session
  /\ arriving' = NoDialogue
  /\ UNCHANGED <<talk, dialogue, evidence, violations, activeThread, lives, histories>>

Quit(c) == IF talk[c].step \in {"idle", "refused", "ended"} THEN talk[c].step ELSE "refused"

\* The mutant keeps the thread used last over a restart.
FaultyFreshThread == activeThread
FreshThread == NoDialogue

\* The process ends with its connection and its calls; what was saved is loaded again.
BridgeRestart ==
  /\ lives < BridgeLives /\ lives' = lives + 1
  /\ talk' = [c \in Talks |-> [talk[c] EXCEPT !.step = Quit(c)]]
  /\ evidence' = {} /\ violations' = [t \in Dialogues |-> 0]
  /\ activeThread' = FreshThread /\ arriving' = NoDialogue
  /\ loaded' = {} /\ diverted' = {}
  /\ UNCHANGED <<dialogue, session>>

PolicyNext ==
  \/ \E c \in Talks : TalkStep(c)
  \/ \E t \in Dialogues : ModelRerouted(t)
  \/ RecordReroute
  \/ BridgeRestart

PolicySpec == PolicyInit /\ [][PolicyNext]_policyVars

PolicyTypeOK ==
  /\ \A c \in Talks : Topic(c) \in Dialogues \cup {NoDialogue}
  /\ dialogue \in [Dialogues -> BOOLEAN]
  /\ evidence \subseteq Dialogues /\ violations \in [Dialogues -> 0..RerouteBound]
  /\ {activeThread, arriving} \subseteq Dialogues \cup {NoDialogue}
  /\ session \in [Dialogues -> [known : BOOLEAN, satisfied : BOOLEAN, reroutes : Nat]]
  /\ lives \in 0..BridgeLives

\* Nothing is sent to a thread that this connection has not started or resumed as asked,
\* whatever other calls loaded meanwhile and an earlier life of the Bridge knew; and a call
\* does not pass the evidence gate for a thread whose reroute the reader has counted since
\* the Bridge began, not even when the thread was verified again after it
\* (codex_app_server.py:974, controller.py:1741).
PolicyKept ==
  [][\A c \in Talks :
       /\ TalkAt(c, "sending") /\ TalkAt(c, "ended")' => Topic(c) \in loaded
       /\ Topic(c) \in diverted =>
            ~ (TalkAt(c, "verified") /\ TalkAt(c, "recording")')
              /\ ~ (TalkAt(c, "loaded") /\ TalkAt(c, "preparing")')]_policyVars

=============================================================================
