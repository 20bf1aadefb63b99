---------------------------- MODULE WorkersProofs ----------------------------
(***************************************************************************)
(* What stands between the controller and its workers, for any number of   *)
(* calls, threads and connections: the policy of a thread, and the         *)
(* children that a connection owns.                                        *)
(*                                                                         *)
(* Each is followed through the steps of one actor (a call, a creation or  *)
(* the shutdown): what it holds, and what nobody else can change           *)
(* meanwhile.  Of a policy check it is the count of reroutes that it read, *)
(* of a creation and of the shutdown the lock and the tables that name the *)
(* child.                                                                  *)
(***************************************************************************)
EXTENDS MCWorkers, ApprovalProofs

-----------------------------------------------------------------------------
(***************************************************************************)
(* The policy of the threads.  A call that has passed the loading of its   *)
(* thread speaks of one that this connection loaded, and what the reader   *)
(* saw rerouted is counted against it until the connection ends.           *)
(***************************************************************************)
TalkSteps == {"idle", "starting", "started", "verified", "recording", "sending", "loading",
              "resuming", "resumed", "reloading", "loaded", "preparing", "ended", "refused"}
TalkRecord == [kind : {"none", "start", "continue", "steer", "look"},
               thread : Dialogues \cup {NoDialogue}, step : TalkSteps]

\* The steps between which a call has a thread, and those after it was loaded.
Settles == {"idle", "starting", "refused", "ended"}
AfterLoad == {"verified", "recording", "reloading", "loaded", "preparing", "sending"}

CallKeeps(k) ==
  /\ k.step \notin Settles => k.thread \in Dialogues
  /\ k.step \in AfterLoad => k.thread \in loaded

PolicyMemory ==
  /\ talk \in [Talks -> TalkRecord]
  /\ loaded \subseteq Dialogues
  /\ activeThread # NoDialogue => activeThread \in loaded
  /\ \A t \in diverted : t \in Dialogues /\ violations[t] > 0

PolicyInv ==
  PolicyTypeOK /\ PolicyMemory /\ \A c \in Talks : CallKeeps(talk[c])

\* A call goes on to another step and keeps its thread.
LEMMA TalkMoves ==
  ASSUME talk \in [Talks -> TalkRecord], NEW c \in Talks, NEW step \in TalkSteps,
         TalkGoto(c, step)
  PROVE  /\ talk' \in [Talks -> TalkRecord]
         /\ talk'[c].step = step /\ talk'[c].thread = talk[c].thread
         /\ \A d \in Talks \ {c} : talk'[d] = talk[d]
  BY DEF TalkGoto, TalkRecord

\* A call becomes another one.
LEMMA TalkBecomes ==
  ASSUME talk \in [Talks -> TalkRecord], NEW c \in Talks, NEW k \in TalkRecord,
         talk' = [talk EXCEPT ![c] = k]
  PROVE  /\ talk' \in [Talks -> TalkRecord] /\ talk'[c] = k
         /\ \A d \in Talks \ {c} : talk'[d] = talk[d]
  OBVIOUS

\* What one call did leaves the promise of the others alone, as nothing is unloaded.
LEMMA OthersKeep ==
  ASSUME PolicyInv, NEW c \in Talks, \A d \in Talks \ {c} : talk'[d] = talk[d],
         loaded \subseteq loaded', CallKeeps(talk[c])'
  PROVE  (\A d \in Talks : CallKeeps(talk[d]))'
  BY DEF PolicyInv, CallKeeps

LEMMA PolicyInitially == PolicyInit => PolicyInv
  BY PolicyAssumption
  DEF PolicyInit, PolicyInv, PolicyTypeOK, PolicyMemory, CallKeeps, Topic, TalkRecord, TalkSteps,
      Settles, AfterLoad, NoSession

\* Every step of a call keeps the invariant, and passes a gate only as PolicyKept says.
LEMMA TalkStepKeeps ==
  ASSUME PolicyInv, NEW c \in Talks, TalkStep(c)
  PROVE  PolicyInv'
<1> USE DEF PolicyInv
<1>0. session \in [Dialogues -> [known : BOOLEAN, satisfied : BOOLEAN, reroutes : Nat]]
  BY DEF PolicyTypeOK
<1>1. talk \in [Talks -> TalkRecord] /\ talk[c] \in TalkRecord /\ CallKeeps(talk[c])
      /\ Topic(c) = talk[c].thread
  BY DEF PolicyMemory, Topic
<1>2. CASE StartThread(c)
  <2>1. [kind |-> "start", thread |-> NoDialogue, step |-> "starting"] \in TalkRecord
    BY DEF TalkRecord, TalkSteps
  <2>2. /\ talk' \in [Talks -> TalkRecord] /\ talk'[c].step = "starting"
        /\ talk'[c].thread = NoDialogue
        /\ \A d \in Talks \ {c} : talk'[d] = talk[d]
    BY <1>1, <1>2, <2>1, TalkBecomes DEF StartThread
  <2>3. CallKeeps(talk[c])' /\ loaded' = loaded
    BY <1>2, <2>2 DEF CallKeeps, Settles, AfterLoad, StartThread, histories
  <2>4. PolicyTypeOK' /\ PolicyMemory'
    BY <1>2, <2>2 DEF StartThread, PolicyTypeOK, PolicyMemory, Topic, TalkRecord, TalkSteps,
                      connectionMemory, histories
  <2> QED BY <2>2, <2>3, <2>4, OthersKeep
<1>3. CASE ServerStarts(c)
  <2>1. PICK t \in Dialogues :
          /\ dialogue' = [dialogue EXCEPT ![t] = TRUE]
          /\ talk' = [talk EXCEPT ![c].thread = t, ![c].step = "started"]
    BY <1>3 DEF ServerStarts
  <2>2. /\ talk' \in [Talks -> TalkRecord] /\ talk'[c].step = "started" /\ talk'[c].thread = t
        /\ \A d \in Talks \ {c} : talk'[d] = talk[d]
    BY <1>1, <2>1 DEF TalkRecord, TalkSteps
  <2>3. CallKeeps(talk[c])' /\ loaded' = loaded
    BY <1>3, <2>2 DEF CallKeeps, Settles, AfterLoad, ServerStarts, histories
  <2>4. PolicyTypeOK' /\ PolicyMemory'
    BY <1>3, <2>1, <2>2 DEF ServerStarts, PolicyTypeOK, PolicyMemory, Topic, TalkRecord,
                            connectionMemory, histories
  <2> QED BY <2>2, <2>3, <2>4, OthersKeep
<1>4. CASE BeginTalk(c)
  <2>1. PICK t \in Dialogues, kind \in {"continue", "steer", "look"} :
          talk' = [talk EXCEPT ![c] = [kind |-> kind, thread |-> t, step |-> "loading"]]
    BY <1>4 DEF BeginTalk
  <2>2. [kind |-> kind, thread |-> t, step |-> "loading"] \in TalkRecord
    BY DEF TalkRecord, TalkSteps
  <2>3. /\ talk' \in [Talks -> TalkRecord] /\ talk'[c].step = "loading" /\ talk'[c].thread = t
        /\ \A d \in Talks \ {c} : talk'[d] = talk[d]
    BY <1>1, <2>1, <2>2, TalkBecomes
  <2>4. CallKeeps(talk[c])' /\ loaded' = loaded
    BY <1>4, <2>3 DEF CallKeeps, Settles, AfterLoad, BeginTalk, histories
  <2>5. PolicyTypeOK' /\ PolicyMemory'
    BY <1>4, <2>3 DEF BeginTalk, PolicyTypeOK, PolicyMemory, Topic, TalkRecord,
                      connectionMemory, histories
  <2> QED BY <2>3, <2>4, <2>5, OthersKeep
<1>5. CASE VerifyThread(c)
  <2>1. Topic(c) \in Dialogues
    BY <1>1, <1>5 DEF VerifyThread, CallKeeps, Settles
  <2>2. PICK step \in {"verified", "reloading"} : TalkGoto(c, step)
    BY <1>5 DEF VerifyThread
  <2>3. /\ talk' \in [Talks -> TalkRecord] /\ talk'[c].step = step
        /\ talk'[c].thread = talk[c].thread
        /\ \A d \in Talks \ {c} : talk'[d] = talk[d]
    BY <1>1, <2>2, TalkMoves DEF TalkSteps
  <2>4. loaded' = loaded \cup {Topic(c)} /\ evidence' = evidence \cup {Topic(c)}
        /\ violations' = violations
    BY <1>5 DEF VerifyThread, Kept
  <2>5. CallKeeps(talk[c])'
    BY <1>1, <2>1, <2>3, <2>4 DEF CallKeeps
  <2>6. PolicyTypeOK' /\ PolicyMemory'
    BY <1>5, <2>1, <2>3, <2>4 DEF VerifyThread, PolicyTypeOK, PolicyMemory, Topic, TalkRecord
  <2> QED BY <2>3, <2>4, <2>5, <2>6, OthersKeep
<1>6. ASSUME NEW step \in TalkSteps, TalkGoto(c, step), lives' = lives, histories' = histories,
             arriving' = arriving,
             step \notin Settles => Topic(c) \in Dialogues,
             step \in AfterLoad => Topic(c) \in loaded,
             dialogue' = dialogue, evidence' = evidence, violations' = violations,
             session' \in [Dialogues -> [known : BOOLEAN, satisfied : BOOLEAN, reroutes : Nat]],
             \/ activeThread' = activeThread
             \/ activeThread' = Topic(c) /\ Topic(c) \in loaded
      PROVE  PolicyInv'
  <2>1. /\ talk' \in [Talks -> TalkRecord] /\ talk'[c].step = step
        /\ talk'[c].thread = talk[c].thread
        /\ \A d \in Talks \ {c} : talk'[d] = talk[d]
    BY <1>1, <1>6, TalkMoves
  <2>2. CallKeeps(talk[c])' /\ loaded' = loaded
    BY <1>1, <1>6, <2>1 DEF CallKeeps, histories
  <2>3. PolicyTypeOK' /\ PolicyMemory'
    BY <1>6, <2>1 DEF PolicyTypeOK, PolicyMemory, Topic, TalkRecord, histories
  <2> QED BY <2>1, <2>2, <2>3, OthersKeep
<1>7. CASE CheckStarted(c)
  <2>1. Topic(c) \in Dialogues /\ Topic(c) \in loaded
    BY <1>1, <1>7 DEF CheckStarted, TalkAt, CallKeeps, Settles, AfterLoad
  <2>2. PICK step \in {"recording", "refused"} : TalkGoto(c, step)
    BY <1>7 DEF CheckStarted
  <2> QED
    BY <1>0, <1>6, <1>7, <2>1, <2>2 DEF CheckStarted, connectionMemory, TalkSteps
<1>8. CASE RecordSession(c) \/ RecordResumed(c)
  <2>1. Topic(c) \in Dialogues /\ Topic(c) \in loaded
    BY <1>1, <1>8 DEF RecordSession, RecordResumed, TalkAt, CallKeeps, Settles, AfterLoad
  <2>2. PICK step \in {"sending", "loaded"} : TalkGoto(c, step)
    BY <1>8 DEF RecordSession, RecordResumed
  <2>3. session' \in [Dialogues -> [known : BOOLEAN, satisfied : BOOLEAN, reroutes : Nat]]
    <3>1. [known |-> TRUE, satisfied |-> TRUE, reroutes |-> 0]
            \in [known : BOOLEAN, satisfied : BOOLEAN, reroutes : Nat]
      OBVIOUS
    <3>2. session' = [session EXCEPT ![Topic(c)] =
                        [known |-> TRUE, satisfied |-> TRUE, reroutes |-> 0]]
      BY <1>8 DEF RecordSession, RecordResumed
    <3> QED BY <1>0, <2>1, <3>1, <3>2
  <2> QED
    BY <1>0, <1>6, <1>8, <2>1, <2>2, <2>3 DEF RecordSession, RecordResumed, TalkSteps
<1>9. CASE LoadThread(c)
  <2>1. Topic(c) \in Dialogues
    BY <1>1, <1>9 DEF LoadThread, TalkAt, CallKeeps, Settles
  <2>2. PICK step \in {"loaded", "resuming"} :
          TalkGoto(c, step) /\ (step = "loaded" => activeThread = Topic(c))
    BY <1>9 DEF LoadThread, InUse
  <2>3. step = "loaded" => Topic(c) \in loaded
    BY <2>1, <2>2, PolicyAssumption DEF PolicyMemory
  <2>4. step \in TalkSteps /\ (step \in AfterLoad => Topic(c) \in loaded)
    BY <2>2, <2>3 DEF TalkSteps, AfterLoad
  <2>5. /\ lives' = lives /\ histories' = histories /\ arriving' = arriving
        /\ dialogue' = dialogue /\ evidence' = evidence /\ violations' = violations
        /\ session' = session /\ activeThread' = activeThread
    BY <1>9 DEF LoadThread, connectionMemory
  <2> QED BY <1>0, <1>6, <2>1, <2>2, <2>4, <2>5
<1>10. CASE ServerResumes(c)
  <2>1. Topic(c) \in Dialogues
    BY <1>1, <1>10 DEF ServerResumes, TalkAt, CallKeeps, Settles
  <2>2. "resumed" \in TalkSteps /\ "resumed" \notin AfterLoad
    BY DEF TalkSteps, AfterLoad
  <2>3. /\ TalkGoto(c, "resumed")
        /\ lives' = lives /\ histories' = histories /\ arriving' = arriving
        /\ dialogue' = dialogue /\ evidence' = evidence /\ violations' = violations
        /\ session' = session /\ activeThread' = activeThread
    BY <1>10 DEF ServerResumes, connectionMemory
  <2> QED BY <1>0, <1>6, <2>1, <2>2, <2>3
<1>11. CASE PassGate(c)
  <2>1. Topic(c) \in Dialogues /\ Topic(c) \in loaded
    BY <1>1, <1>11 DEF PassGate, TalkAt, CallKeeps, Settles, AfterLoad
  <2>2. PICK step \in {"ended", "sending", "preparing", "refused"} : TalkGoto(c, step)
    BY <1>11 DEF PassGate
  <2> QED
    BY <1>0, <1>6, <1>11, <2>1, <2>2 DEF PassGate, TalkSteps, histories
<1>12. CASE PreparePrompt(c)
  <2>1. Topic(c) \in Dialogues /\ Topic(c) \in loaded
    BY <1>1, <1>12 DEF PreparePrompt, TalkAt, CallKeeps, Settles, AfterLoad
  <2> QED
    BY <1>0, <1>6, <1>12, <2>1 DEF PreparePrompt, connectionMemory, TalkSteps
<1>13. CASE SendToThread(c)
  <2>1. "ended" \in TalkSteps /\ "ended" \in Settles /\ "ended" \notin AfterLoad
    BY DEF TalkSteps, Settles, AfterLoad
  <2>2. /\ TalkGoto(c, "ended")
        /\ lives' = lives /\ histories' = histories /\ arriving' = arriving
        /\ dialogue' = dialogue /\ evidence' = evidence /\ violations' = violations
        /\ session' = session /\ activeThread' = activeThread
    BY <1>13 DEF SendToThread, connectionMemory
  <2> QED BY <1>0, <1>6, <2>1, <2>2
<1>14. CASE PolicyRefused(c)
  <2>1. "refused" \in TalkSteps /\ "refused" \in Settles /\ "refused" \notin AfterLoad
    BY DEF TalkSteps, Settles, AfterLoad
  <2>2. /\ TalkGoto(c, "refused")
        /\ lives' = lives /\ histories' = histories /\ arriving' = arriving
        /\ dialogue' = dialogue /\ evidence' = evidence /\ violations' = violations
        /\ session' = session /\ activeThread' = activeThread
    BY <1>14 DEF PolicyRefused, connectionMemory
  <2> QED BY <1>0, <1>6, <2>1, <2>2
<1> QED
  BY <1>2, <1>3, <1>4, <1>5, <1>7, <1>8, <1>9, <1>10, <1>11, <1>12, <1>13, <1>14 DEF TalkStep

LEMMA PolicyPreserved ==
  ASSUME PolicyInv, [PolicyNext]_policyVars
  PROVE  PolicyInv'
<1> USE DEF PolicyInv
<1>1. CASE \E c \in Talks : TalkStep(c)
  BY <1>1, TalkStepKeeps
<1>2. CASE \E t \in Dialogues : ModelRerouted(t)
  <2>1. PICK t \in Dialogues : ModelRerouted(t)
    BY <1>2
  <2>2. /\ violations' \in [Dialogues -> 0 .. RerouteBound]
        /\ violations'[t] > 0 /\ \A d \in Dialogues : violations[d] > 0 => violations'[d] > 0
    BY <2>1, PolicyAssumption DEF ModelRerouted, PolicyTypeOK
  <2>3. PolicyTypeOK' /\ PolicyMemory'
    BY <2>1, <2>2 DEF ModelRerouted, PolicyTypeOK, PolicyMemory, Topic
  <2> QED BY <2>1, <2>3 DEF ModelRerouted, CallKeeps
<1>3. CASE RecordReroute
  <2>1. arriving \in Dialogues
    BY <1>3 DEF RecordReroute, PolicyTypeOK
  <2>2. session' \in [Dialogues -> [known : BOOLEAN, satisfied : BOOLEAN, reroutes : Nat]]
    BY <1>3, <2>1 DEF RecordReroute, PolicyTypeOK
  <2>3. PolicyTypeOK' /\ PolicyMemory'
    BY <1>3, <2>2 DEF RecordReroute, PolicyTypeOK, PolicyMemory, Topic, histories
  <2> QED BY <1>3, <2>3 DEF RecordReroute, CallKeeps, histories
<1>4. CASE BridgeRestart
  <2>1. \A c \in Talks : /\ talk'[c] = [talk[c] EXCEPT !.step = Quit(c)]
                         /\ talk'[c] \in TalkRecord /\ talk'[c].step \in Settles
                         /\ talk'[c].thread = talk[c].thread
    BY <1>4 DEF BridgeRestart, Quit, PolicyMemory, TalkRecord, TalkSteps, Settles
  <2>2. talk' \in [Talks -> TalkRecord]
    BY <1>4, <2>1 DEF BridgeRestart
  <2>3. PolicyMemory'
    BY <1>4, <2>2 DEF BridgeRestart, PolicyMemory, FreshThread
  <2>5. (\A c \in Talks : Topic(c) \in Dialogues \cup {NoDialogue})'
    BY <2>1 DEF PolicyTypeOK, Topic
  <2>6. lives' \in 0 .. BridgeLives /\ violations' \in [Dialogues -> 0 .. RerouteBound]
    BY <1>4, PolicyAssumption DEF BridgeRestart, PolicyTypeOK
  <2>7. PolicyTypeOK'
    BY <1>4, <2>5, <2>6 DEF BridgeRestart, PolicyTypeOK, FreshThread
  <2>4. (\A c \in Talks : CallKeeps(talk[c]))'
    BY <2>1 DEF CallKeeps, Settles, AfterLoad
  <2> QED BY <2>3, <2>4, <2>7
<1>5. CASE UNCHANGED policyVars
  BY <1>5 DEF policyVars, connectionMemory, histories, PolicyTypeOK, PolicyMemory, CallKeeps, Topic
<1> QED BY <1>1, <1>2, <1>3, <1>4, <1>5 DEF PolicyNext

LEMMA PolicyAlways == PolicySpec => []PolicyInv
<1>1. PolicyInit => PolicyInv
  BY PolicyInitially
<1>2. PolicyInv /\ [PolicyNext]_policyVars => PolicyInv'
  BY PolicyPreserved
<1> QED BY <1>1, <1>2, PTL DEF PolicySpec

\* What a call sends goes to a thread that this connection loaded.
LEMMA SendsToLoaded ==
  ASSUME PolicyInv, NEW c \in Talks, TalkAt(c, "sending")
  PROVE  Topic(c) \in loaded
  BY DEF PolicyInv, CallKeeps, TalkAt, Topic, AfterLoad

\* The two gates are opened for a thread that is verified and was not rerouted.
LEMMA GatesLook ==
  ASSUME PolicyInv, PolicyNext, NEW c \in Talks,
         \/ TalkAt(c, "verified") /\ TalkAt(c, "recording")'
         \/ TalkAt(c, "loaded") /\ TalkAt(c, "preparing")'
  PROVE  Satisfied(Topic(c))
<1>1. talk \in [Talks -> TalkRecord]
  BY DEF PolicyInv, PolicyMemory
<1>2. ASSUME NEW d \in Talks, TalkStep(d) PROVE Satisfied(Topic(c))
  <2>1. d = c
    <3>1. SUFFICES ASSUME d # c PROVE talk'[c] = talk[c]
      BY DEF TalkAt
    <3> QED
      BY <1>1, <1>2, <3>1
      DEF TalkStep, TalkGoto, StartThread, ServerStarts, VerifyThread, CheckStarted,
          RecordSession, BeginTalk, LoadThread, ServerResumes, RecordResumed, PassGate,
          PreparePrompt, SendToThread, PolicyRefused
  <2>2. ASSUME NEW step, TalkGoto(c, step) PROVE talk'[c].step = step
    BY <1>1, <2>2 DEF TalkGoto, TalkRecord
  <2>3. CASE TalkAt(c, "verified") /\ TalkAt(c, "recording")'
    <3>1. CheckStarted(c)
      BY <1>2, <2>1, <2>3
      DEF TalkStep, TalkAt, StartThread, ServerStarts, VerifyThread, RecordSession, BeginTalk,
          LoadThread, ServerResumes, RecordResumed, PassGate, PreparePrompt, SendToThread,
          PolicyRefused
    <3> QED BY <2>2, <2>3, <3>1 DEF CheckStarted, TalkAt
  <2>4. CASE TalkAt(c, "loaded") /\ TalkAt(c, "preparing")'
    <3>1. PassGate(c)
      BY <1>2, <2>1, <2>4
      DEF TalkStep, TalkAt, StartThread, ServerStarts, VerifyThread, CheckStarted,
          RecordSession, BeginTalk, LoadThread, ServerResumes, RecordResumed, PreparePrompt,
          SendToThread, PolicyRefused
    <3> QED BY <2>2, <2>4, <3>1 DEF PassGate, TalkAt
  <2> QED BY <2>3, <2>4
<1>3. CASE BridgeRestart
  BY <1>1, <1>3 DEF BridgeRestart, Quit, TalkAt, TalkRecord
<1>4. CASE (\E t \in Dialogues : ModelRerouted(t)) \/ RecordReroute
  BY <1>4 DEF ModelRerouted, RecordReroute, TalkAt
<1> QED BY <1>2, <1>3, <1>4 DEF PolicyNext

\* Whatever other calls load meanwhile and an earlier life of the Bridge knew, a turn or a
\* hint goes to a thread that this connection started or resumed as asked, and no call
\* passes the evidence gate for a thread whose reroute was counted in this life
\* (controller.py _app_for_session(), codex_app_server.py worker_policy_evidence()).
THEOREM ThreadsKeepPolicy == PolicySpec => PolicyKept
<1>1. ASSUME PolicyInv, [PolicyNext]_policyVars, NEW c \in Talks
      PROVE  /\ TalkAt(c, "sending") /\ TalkAt(c, "ended")' => Topic(c) \in loaded
             /\ Topic(c) \in diverted =>
                  ~ (TalkAt(c, "verified") /\ TalkAt(c, "recording")')
                    /\ ~ (TalkAt(c, "loaded") /\ TalkAt(c, "preparing")')
  <2>1. Topic(c) \in diverted => ~ Satisfied(Topic(c))
    BY <1>1 DEF PolicyInv, PolicyMemory, Satisfied
  <2>2. CASE PolicyNext
    BY <1>1, <2>1, <2>2, SendsToLoaded, GatesLook
  <2>3. CASE UNCHANGED policyVars
    BY <1>1, <2>3, SendsToLoaded DEF policyVars, TalkAt
  <2> QED BY <1>1, <2>2, <2>3
<1>2. PolicyInv /\ [PolicyNext]_policyVars =>
        [\A c \in Talks :
           /\ TalkAt(c, "sending") /\ TalkAt(c, "ended")' => Topic(c) \in loaded
           /\ Topic(c) \in diverted =>
                ~ (TalkAt(c, "verified") /\ TalkAt(c, "recording")')
                  /\ ~ (TalkAt(c, "loaded") /\ TalkAt(c, "preparing")')]_policyVars
  BY <1>1
<1> QED BY PolicyAlways, <1>2, PTL DEF PolicyKept, PolicySpec

-----------------------------------------------------------------------------
(***************************************************************************)
(* The connections.  A child that was not told to end is the one of its    *)
(* place, or is being created by the thread that holds the lock; what was  *)
(* closed or lost is known to the ledger; and a waiter that was failed is  *)
(* one of a connection that was closed.                                    *)
(***************************************************************************)
ConnectionRecord ==
  [place : Places, kind : {"child", "socket"}, peer : {"running", "mute", "gone"},
   signal : {"none", "term", "kill"}, closed : BOOLEAN, lost : BOOLEAN,
   reader : {"reading", "ended"}, holds : Nat]
RequestRecord ==
  [conn : Nat, item : {"none", "reply", "refusal", "error"}, registered : BOOLEAN,
   answered : BOOLEAN]
CallRecord ==
  [step : {"idle", "queued", "locked", "initializing", "expired", "cleaning", "has", "asking",
           "done"}, place : Places, conn : Nat, rid : Nat]
ShutdownRecord ==
  [step : {"open", "locking", "closing", "waiting", "closed"}, left : SUBSET Nat, at : Nat]

OwnerTypes ==
  /\ mode \in {"enrolled", "bound"}
  /\ gate \in [closed : BOOLEAN, unknown : BOOLEAN]
  /\ stopped \in BOOLEAN /\ drifted \in BOOLEAN
  /\ appLock \in Users \cup {NoUser, Closer}
  /\ current \in [Places -> Nat]
  /\ owned \subseteq Connections
  /\ shutdown \in ShutdownRecord

RecordTypes ==
  /\ connection \in Seq(ConnectionRecord)
  /\ request \in Seq(RequestRecord)
  /\ call \in [Users -> CallRecord]

\* Who holds the lock: a thread between taking it and the end of its call, or the closer.
LockHeld ==
  /\ \A u \in Users :
       /\ call[u].step \in {"locked", "initializing", "cleaning"} => appLock = u
       /\ appLock = u => call[u].step \in {"locked", "initializing", "expired", "cleaning"}
  /\ appLock = Closer <=> shutdown.step \in {"closing", "waiting"}
  /\ stopped <=> shutdown.step # "open"

\* Nothing is being created once the closer had the lock.
AfterLock ==
  shutdown.step \in {"closing", "waiting", "closed"} =>
    \A u \in Users : appLock = u => call[u].step = "locked"

\* What a call knows of its connection.
CallKnows(u) ==
  /\ call[u].step \in {"initializing", "expired", "cleaning", "has", "asking"} =>
       call[u].conn \in Connections
  /\ call[u].step \in {"initializing", "expired", "asking"} => call[u].rid \in DOMAIN request
  /\ appLock = u /\ call[u].step # "locked" =>
       Conn(u).place = call[u].place /\ current[call[u].place] = 0
  /\ call[u].step \in {"expired", "cleaning"} => gate.unknown
  /\ call[u].step = "cleaning" => Conn(u).closed /\ ~ Unstopped(call[u].conn)

PlaceKept(p) ==
  current[p] # 0 =>
    /\ current[p] \in Connections /\ connection[current[p]].place = p
    /\ Bound => current[p] \in owned

\* The thread that holds the lock creates the connection.
Creating(i) ==
  \E u \in Users : appLock = u /\ call[u].conn = i /\ call[u].step \in {"initializing", "expired"}

ConnectionKept(i) ==
  /\ connection[i].closed \/ connection[i].lost => gate.unknown
  /\ connection[i].closed /\ Unstopped(i) => connection[i].peer = "mute"
  /\ Unstopped(i) /\ shutdown.step # "closed" =>
       current[connection[i].place] = i \/ Creating(i)
  /\ Alive(i) /\ ~ gate.unknown => current[connection[i].place] = i \/ BeingCreated(i)
  /\ LET q == connection[i].holds IN
       q # 0 => q \in DOMAIN request /\ request[q].conn = i /\ request[q].answered

RequestKept(q) ==
  LET i == request[q].conn IN
    /\ i \in Connections
    /\ request[q].item \in {"reply", "refusal"} => request[q].answered /\ connection[i].holds # q
    /\ request[q].item = "error" => connection[i].closed /\ connection[i].lost

\* What the closer has behind it, and that it goes to everything the ledger counts on.
CloserWorks ==
  shutdown.step \in {"closing", "waiting"} =>
    /\ shutdown.left \subseteq Connections
    /\ shutdown.step = "waiting" => shutdown.at \in Connections
    /\ \A i \in Connections \ shutdown.left :
         Unstopped(i) => ~ Bound /\ connection[i].peer = "mute" /\ connection[i].closed
    /\ ~ gate.unknown => \A p \in Places : current[p] # 0 => current[p] \in shutdown.left

ConnectionsInv ==
  /\ OwnerTypes /\ RecordTypes
  /\ LockHeld /\ AfterLock
  /\ \A u \in Users : CallKnows(u)
  /\ \A p \in Places : PlaceKept(p)
  /\ \A i \in Connections : ConnectionKept(i)
  /\ \A q \in DOMAIN request : RequestKept(q)
  /\ CloserWorks
  /\ OneWorkerPerPlace /\ NothingSurvivesClose

\* What a connection may become while it lives: nothing is reopened or revived, and one that
\* is closed now had ended its output, was told to end, or was a socket.
Fades(f) ==
  /\ f \in Seq(ConnectionRecord) /\ DOMAIN f = Connections
  /\ \A i \in Connections :
       /\ f[i].place = connection[i].place /\ f[i].kind = connection[i].kind
       /\ connection[i].closed => f[i].closed
       /\ connection[i].lost => f[i].lost
       /\ f[i].peer = connection[i].peer \/ f[i].peer = "gone"
            \/ (f[i].peer = "mute" /\ connection[i].peer = "running")
       /\ f[i].signal = "none" => connection[i].signal = "none"
       /\ f[i].closed /\ ~ connection[i].closed =>
            f[i].kind = "socket" \/ f[i].signal # "none" \/ f[i].peer # "running"

\* Nothing but one connection changes, and it holds the same message.
Only(i, f) ==
  /\ \A j \in Connections \ {i} : f[j] = connection[j]
  /\ f[i].holds = connection[i].holds

LEMMA RecordBecomes ==
  ASSUME connection \in Seq(ConnectionRecord), NEW i \in Connections, NEW k \in ConnectionRecord
  PROVE  LET f == [connection EXCEPT ![i] = k] IN
           /\ f \in Seq(ConnectionRecord) /\ DOMAIN f = Connections
           /\ f[i] = k /\ \A j \in Connections \ {i} : f[j] = connection[j]
  BY ExceptSeq DEF Connections

LEMMA ConnectionIs ==
  ASSUME connection \in Seq(ConnectionRecord), NEW i \in Connections
  PROVE  connection[i] \in ConnectionRecord
  BY DEF Connections

LEMMA LoseFades ==
  ASSUME connection \in Seq(ConnectionRecord), NEW i \in Connections
  PROVE  /\ Fades(Lose(i)) /\ Only(i, Lose(i))
         /\ Lose(i)[i].lost /\ Lose(i)[i].closed = connection[i].closed
         /\ Lose(i)[i].signal = connection[i].signal
<1> DEFINE k == [connection[i] EXCEPT !.lost = TRUE]
<1>1. connection[i] \in ConnectionRecord
  BY ConnectionIs
<1>2. /\ k \in ConnectionRecord /\ k.lost /\ k.place = connection[i].place
      /\ k.kind = connection[i].kind /\ k.peer = connection[i].peer
      /\ k.signal = connection[i].signal /\ k.closed = connection[i].closed
      /\ k.holds = connection[i].holds
  BY <1>1 DEF ConnectionRecord
<1>3. Lose(i) = [connection EXCEPT ![i] = k]
  BY DEF Lose
<1> HIDE DEF k
<1>4. /\ Lose(i) \in Seq(ConnectionRecord) /\ DOMAIN Lose(i) = Connections
      /\ Lose(i)[i] = k /\ \A j \in Connections \ {i} : Lose(i)[j] = connection[j]
  BY <1>2, <1>3, RecordBecomes
<1> QED BY <1>1, <1>2, <1>4 DEF Fades, Only, ConnectionRecord

LEMMA EndWorkerFades ==
  ASSUME connection \in Seq(ConnectionRecord), NEW i \in Connections
  PROVE  LET f == EndWorker(i) IN
           /\ Fades(f) /\ Only(i, f)
           /\ f[i].closed /\ f[i].lost
           /\ ~ (f[i].kind = "child" /\ f[i].peer \in {"running", "mute"} /\ f[i].signal = "none")
<1> DEFINE term == connection[i].kind = "child" /\ Alive(i)
           signal == IF term THEN "term" ELSE connection[i].signal
           peer == IF connection[i].kind = "socket" THEN "gone" ELSE connection[i].peer
           k == [connection[i] EXCEPT !.closed = TRUE, !.lost = TRUE, !.signal = signal,
                                      !.peer = peer]
<1>1. connection[i] \in ConnectionRecord
  BY ConnectionIs
<1>2. signal \in {"none", "term", "kill"} /\ peer \in {"running", "mute", "gone"}
  BY <1>1 DEF ConnectionRecord
<1>3. EndWorker(i) = [connection EXCEPT ![i] = k]
  BY <1>1 DEF EndWorker, ConnectionRecord
<1>4. /\ k \in ConnectionRecord /\ k.lost /\ k.closed /\ k.place = connection[i].place
      /\ k.kind = connection[i].kind /\ k.peer = peer
      /\ k.signal = signal /\ k.holds = connection[i].holds
  <2> HIDE DEF signal, peer
  <2> QED BY <1>1, <1>2 DEF ConnectionRecord
<1>5. /\ peer = connection[i].peer \/ peer = "gone"
      /\ signal = "none" => connection[i].signal = "none"
      /\ connection[i].kind = "socket" \/ signal # "none" \/ peer # "running"
      /\ ~ (connection[i].kind = "child" /\ peer \in {"running", "mute"} /\ signal = "none")
  BY <1>1 DEF Alive, ConnectionRecord
<1> HIDE DEF k, signal, peer
<1>6. LET f == EndWorker(i) IN
        /\ f \in Seq(ConnectionRecord) /\ DOMAIN f = Connections
        /\ f[i] = k /\ \A j \in Connections \ {i} : f[j] = connection[j]
  BY <1>3, <1>4, RecordBecomes
<1> QED BY <1>1, <1>4, <1>5, <1>6 DEF Fades, Only, ConnectionRecord

LEMMA KillWorkerFades ==
  ASSUME connection \in Seq(ConnectionRecord), NEW i \in Connections
  PROVE  LET f == KillWorker(i) IN
           Fades(f) /\ Only(i, f) /\ f[i].closed = connection[i].closed
           /\ f[i].lost = connection[i].lost
<1> DEFINE signal == IF Alive(i) THEN "kill" ELSE connection[i].signal
           k == [connection[i] EXCEPT !.signal = signal]
<1>1. connection[i] \in ConnectionRecord
  BY ConnectionIs
<1>2. signal \in {"none", "term", "kill"} /\ (signal = "none" => connection[i].signal = "none")
  BY <1>1 DEF ConnectionRecord
<1>3. KillWorker(i) = [connection EXCEPT ![i] = k]
  BY <1>1 DEF KillWorker, ConnectionRecord
<1> HIDE DEF signal
<1>4. /\ k \in ConnectionRecord /\ k.place = connection[i].place
      /\ k.kind = connection[i].kind /\ k.peer = connection[i].peer
      /\ k.signal = signal /\ k.closed = connection[i].closed
      /\ k.lost = connection[i].lost /\ k.holds = connection[i].holds
  BY <1>1, <1>2 DEF ConnectionRecord
<1> HIDE DEF k
<1>5. LET f == KillWorker(i) IN
        /\ f \in Seq(ConnectionRecord) /\ DOMAIN f = Connections
        /\ f[i] = k /\ \A j \in Connections \ {i} : f[j] = connection[j]
  BY <1>3, <1>4, RecordBecomes
<1> QED BY <1>1, <1>2, <1>4, <1>5 DEF Fades, Only, ConnectionRecord

\* What requests become: none is withdrawn, and an answer was given by the reader.
RequestsGrow(g) ==
  /\ g \in Seq(RequestRecord) /\ DOMAIN request \subseteq DOMAIN g
  /\ \A q \in DOMAIN request :
       g[q].conn = request[q].conn /\ (request[q].answered => g[q].answered)

\* A step that only lets connections fade keeps what each of them promises, as long as the
\* ledger hears of it and nobody gives up a connection that works.
LEMMA FadedKept ==
  ASSUME ConnectionsInv, Fades(connection'), RequestsGrow(request'),
         current' = current, mode' = mode,
         shutdown.step = "closed" => shutdown'.step = "closed",
         shutdown'.step = "closed" => shutdown.step = "closed",
         gate.unknown => gate'.unknown,
         \A i \in Connections :
           connection'[i].closed \/ connection'[i].lost => gate'.unknown,
         \A i \in Connections : Creating(i) => Creating(i)' \/ ~ Unstopped(i)',
         \A i \in Connections : BeingCreated(i) => BeingCreated(i)' \/ gate'.unknown,
         \A i \in Connections :
           \/ connection'[i].holds = connection[i].holds
           \/ LET q == connection'[i].holds IN
                q # 0 => q \in DOMAIN request' /\ request'[q].conn = i /\ request'[q].answered
  PROVE  /\ Connections' = Connections
         /\ \A i \in Connections' : ConnectionKept(i)'
         /\ OneWorkerPerPlace' /\ NothingSurvivesClose'
<1>1. Connections' = Connections
  BY DEF Fades, Connections
<1>2. \A i \in Connections :
        /\ connection[i] \in ConnectionRecord /\ connection'[i] \in ConnectionRecord
        /\ connection'[i].place = connection[i].place
        /\ connection'[i].kind = connection[i].kind
  BY ConnectionIs DEF ConnectionsInv, RecordTypes, Fades, Connections
<1>3. \A i \in Connections :
        /\ Alive(i)' => Alive(i)
        /\ Unstopped(i)' => Unstopped(i)
        /\ Unstopped(i)' /\ connection[i].peer = "mute" => connection'[i].peer = "mute"
        /\ Unstopped(i)' /\ connection'[i].closed =>
             connection[i].closed \/ connection'[i].peer = "mute"
  BY <1>2 DEF Fades, Unstopped, Alive, ConnectionRecord
<1>4. ASSUME NEW i \in Connections PROVE ConnectionKept(i)'
  <2>1. ConnectionKept(i)
    BY <1>4 DEF ConnectionsInv
  <2>2. connection'[i].closed \/ connection'[i].lost => gate'.unknown
    BY <1>4
  <2>3. connection'[i].closed /\ Unstopped(i)' => connection'[i].peer = "mute"
    BY <1>3, <2>1 DEF ConnectionKept
  <2>4. Unstopped(i)' /\ shutdown'.step # "closed" =>
          current'[connection'[i].place] = i \/ Creating(i)'
    BY <1>2, <1>3, <2>1 DEF ConnectionKept
  <2>5. Alive(i)' /\ ~ gate'.unknown =>
          current'[connection'[i].place] = i \/ BeingCreated(i)'
    BY <1>2, <1>3, <2>1 DEF ConnectionKept
  <2>6. LET q == connection'[i].holds IN
          q # 0 => q \in DOMAIN request' /\ request'[q].conn = i /\ request'[q].answered
    BY <2>1 DEF ConnectionKept, RequestsGrow
  <2> QED BY <2>2, <2>3, <2>4, <2>5, <2>6 DEF ConnectionKept
<1>5. OneWorkerPerPlace'
  BY <1>1, <1>2, <1>3 DEF ConnectionsInv, OneWorkerPerPlace
<1>6. NothingSurvivesClose'
  BY <1>1, <1>2, <1>3 DEF ConnectionsInv, NothingSurvivesClose, Bound, Fades
<1> QED BY <1>1, <1>4, <1>5, <1>6

\* What the closer has behind it stays behind it.
LEMMA CloserKept ==
  ASSUME ConnectionsInv, Fades(connection'), current' = current, mode' = mode,
         shutdown' = shutdown, gate.unknown => gate'.unknown
  PROVE  CloserWorks'
<1>1. Connections' = Connections
  BY DEF Fades, Connections
<1>2. \A i \in Connections :
        connection[i] \in ConnectionRecord /\ connection'[i] \in ConnectionRecord
  BY ConnectionIs DEF ConnectionsInv, RecordTypes, Fades, Connections
<1>3. \A i \in Connections :
        /\ Unstopped(i)' => Unstopped(i)
        /\ Unstopped(i)' /\ connection[i].peer = "mute" => connection'[i].peer = "mute"
        /\ connection[i].closed => connection'[i].closed
  BY <1>2 DEF Fades, Unstopped, Alive, ConnectionRecord
<1> QED BY <1>1, <1>3 DEF ConnectionsInv, CloserWorks, Bound

\* What a call knows is not lost by what others do.
LEMMA OtherCallsKnow ==
  ASSUME ConnectionsInv, NEW u \in Users, call'[u] = call[u],
         Connections \subseteq Connections', DOMAIN request \subseteq DOMAIN request',
         gate.unknown => gate'.unknown,
         appLock' = u => appLock = u /\ current' = current,
         \A i \in Connections : /\ connection'[i].place = connection[i].place
                                /\ connection[i].closed => connection'[i].closed
                                /\ Unstopped(i)' => Unstopped(i)
  PROVE  CallKnows(u)'
<1>1. CallKnows(u)
  BY DEF ConnectionsInv
<1>2. call'[u].step \in {"initializing", "expired", "cleaning"} => call[u].conn \in Connections
  BY <1>1 DEF CallKnows
<1>3. appLock' = u /\ call'[u].step # "locked" => call[u].conn \in Connections
  BY <1>2 DEF ConnectionsInv, LockHeld
<1> QED BY <1>1, <1>2, <1>3 DEF CallKnows, Conn

\* The places keep their connections.
LEMMA PlacesKept ==
  ASSUME ConnectionsInv, current' = current, owned' = owned, mode' = mode,
         Connections \subseteq Connections',
         \A i \in Connections : connection'[i].place = connection[i].place
  PROVE  \A p \in Places : PlaceKept(p)'
  BY DEF ConnectionsInv, PlaceKept, Bound

\* The requests keep what they say, when none of them is answered or failed.
LEMMA RequestsKept ==
  ASSUME ConnectionsInv, Fades(connection'), RequestsGrow(request'),
         DOMAIN request' = DOMAIN request,
         \A q \in DOMAIN request : request'[q].item \in {request[q].item, "none"},
         \A i \in Connections : connection'[i].holds \in {connection[i].holds, 0}
  PROVE  \A q \in DOMAIN request' : RequestKept(q)'
<1>1. Connections' = Connections
  BY DEF Fades, Connections
<1> SUFFICES ASSUME NEW q \in DOMAIN request PROVE RequestKept(q)'
  OBVIOUS
<1>2. RequestKept(q) /\ q \in Nat \ {0}
  BY DEF ConnectionsInv, RecordTypes
<1> QED BY <1>1, <1>2 DEF RequestKept, Fades, RequestsGrow

LEMMA CallBecomes ==
  ASSUME call \in [Users -> CallRecord], NEW u \in Users, NEW k \in CallRecord,
         call' = [call EXCEPT ![u] = k]
  PROVE  /\ call' \in [Users -> CallRecord] /\ call'[u] = k
         /\ \A v \in Users \ {u} : call'[v] = call[v]
  OBVIOUS

LEMMA CallGoes ==
  ASSUME call \in [Users -> CallRecord], NEW u \in Users,
         NEW step \in {"idle", "queued", "locked", "initializing", "expired", "cleaning", "has",
                       "asking", "done"},
         call' = [call EXCEPT ![u].step = step]
  PROVE  /\ call' \in [Users -> CallRecord]
         /\ call'[u].step = step /\ call'[u].place = call[u].place
         /\ call'[u].conn = call[u].conn /\ call'[u].rid = call[u].rid
         /\ \A v \in Users \ {u} : call'[v] = call[v]
  BY DEF CallRecord

LEMMA CallEnds ==
  ASSUME call \in [Users -> CallRecord], NEW u \in Users, EndCall(u)
  PROVE  /\ call' \in [Users -> CallRecord]
         /\ call'[u].step = "done"
         /\ \A v \in Users \ {u} : call'[v] = call[v]
<1>1. NoCall.place \in Places
  BY ConnectionsAssumption DEF NoCall
<1>2. NoCall \in CallRecord
  BY <1>1 DEF NoCall, CallRecord
<1> DEFINE k == [NoCall EXCEPT !.step = "done"]
<1>3. k \in CallRecord /\ k.step = "done"
  BY <1>2 DEF CallRecord
<1>4. call' = [call EXCEPT ![u] = k]
  BY DEF EndCall
<1> HIDE DEF k
<1> QED BY <1>3, <1>4, CallBecomes

LEMMA RequestBecomes ==
  ASSUME request \in Seq(RequestRecord), NEW q \in DOMAIN request, NEW k \in RequestRecord
  PROVE  LET g == [request EXCEPT ![q] = k] IN
           /\ g \in Seq(RequestRecord) /\ DOMAIN g = DOMAIN request
           /\ g[q] = k /\ \A r \in DOMAIN request \ {q} : g[r] = request[r]
  BY ExceptSeq

\* A waiter that goes away leaves nothing behind but an answer nobody took.
Released(g, q) ==
  /\ RequestsGrow(g) /\ DOMAIN g = DOMAIN request
  /\ \A r \in DOMAIN request : g[r].item \in {request[r].item, "none"}

LEMMA TakeReleases ==
  ASSUME request \in Seq(RequestRecord), NEW q \in DOMAIN request
  PROVE  Released(Take(q), q)
<1> DEFINE k == [request[q] EXCEPT !.registered = FALSE, !.item = "none"]
<1>1. \A r \in DOMAIN request : request[r] \in RequestRecord
  OBVIOUS
<1>2. /\ k \in RequestRecord /\ k.conn = request[q].conn /\ k.item = "none"
      /\ k.answered = request[q].answered
  BY <1>1 DEF RequestRecord
<1>3. Take(q) = [request EXCEPT ![q] = k]
  BY <1>1 DEF Take, RequestRecord
<1> HIDE DEF k
<1>4. LET g == Take(q) IN
        /\ g \in Seq(RequestRecord) /\ DOMAIN g = DOMAIN request
        /\ g[q] = k /\ \A r \in DOMAIN request \ {q} : g[r] = request[r]
  BY <1>2, <1>3, RequestBecomes
<1> QED BY <1>1, <1>2, <1>4 DEF Released, RequestsGrow

LEMMA UnregisterReleases ==
  ASSUME request \in Seq(RequestRecord), NEW q \in DOMAIN request
  PROVE  Released(Unregister(q), q)
<1> DEFINE k == [request[q] EXCEPT !.registered = FALSE]
<1>1. \A r \in DOMAIN request : request[r] \in RequestRecord
  OBVIOUS
<1>2. /\ k \in RequestRecord /\ k.conn = request[q].conn /\ k.item = request[q].item
      /\ k.answered = request[q].answered
  BY <1>1 DEF RequestRecord
<1>3. Unregister(q) = [request EXCEPT ![q] = k]
  BY <1>1 DEF Unregister, RequestRecord
<1> HIDE DEF k
<1>4. LET g == Unregister(q) IN
        /\ g \in Seq(RequestRecord) /\ DOMAIN g = DOMAIN request
        /\ g[q] = k /\ \A r \in DOMAIN request \ {q} : g[r] = request[r]
  BY <1>2, <1>3, RequestBecomes
<1> QED BY <1>1, <1>2, <1>4 DEF Released, RequestsGrow

\* Errors go to the waiters of one connection, each of which had room for it.
LEMMA FailWaitersFails ==
  ASSUME request \in Seq(RequestRecord), NEW i
  PROVE  LET g == FailWaiters(WaitersOf(i)) IN
           /\ RequestsGrow(g) /\ DOMAIN g = DOMAIN request
           /\ \A r \in DOMAIN request :
                \/ g[r].item = request[r].item
                \/ g[r].item = "error" /\ request[r].conn = i
<1> DEFINE g == FailWaiters(WaitersOf(i))
<1>1. \A r \in DOMAIN request : request[r] \in RequestRecord
  OBVIOUS
<1>2. DOMAIN g = DOMAIN request
  BY DEF FailWaiters
<1>3. ASSUME NEW r \in DOMAIN request
      PROVE  /\ g[r] \in RequestRecord /\ g[r].conn = request[r].conn
             /\ g[r].answered = request[r].answered
             /\ \/ g[r].item = request[r].item
                \/ g[r].item = "error" /\ request[r].conn = i
  <2>1. CASE r \in WaitersOf(i) /\ request[r].item = "none"
    <3>1. g[r] = [request[r] EXCEPT !.item = "error"]
      BY <2>1 DEF FailWaiters
    <3>2. request[r].conn = i
      BY <2>1 DEF WaitersOf
    <3> QED BY <1>1, <3>1, <3>2 DEF RequestRecord
  <2>2. CASE ~ (r \in WaitersOf(i) /\ request[r].item = "none")
    <3>1. g[r] = request[r]
      BY <2>2 DEF FailWaiters
    <3> QED BY <1>1, <3>1
  <2> QED BY <2>1, <2>2
<1>4. g \in Seq(RequestRecord)
  <2>1. DOMAIN g = 1 .. Len(request) /\ Len(request) \in Nat
    BY <1>2
  <2>2. g \in [1 .. Len(request) -> RequestRecord]
    <3>1. g = [r \in DOMAIN g |-> g[r]]
      BY DEF FailWaiters
    <3> HIDE DEF g
    <3> QED BY <1>2, <1>3, <2>1, <3>1
  <2> QED BY <2>1, <2>2 DEF Seq
<1> QED BY <1>2, <1>3, <1>4 DEF RequestsGrow

\* The steps that change nothing but where calls are.
LEMMA NothingFades ==
  ASSUME ConnectionsInv
  PROVE  Fades(connection) /\ RequestsGrow(request)
  BY DEF ConnectionsInv, RecordTypes, Fades, RequestsGrow, Connections, ConnectionRecord

\* What a step of a user may do to the lock.
LockPasses(u) ==
  \/ appLock' = appLock
  \/ appLock = NoUser /\ appLock' = u
  \/ appLock = u /\ appLock' = NoUser

\* What a user was creating it goes on creating, or the ledger is in doubt and a child that
\* was launched under the lock is told to end.
CreationKept(u) ==
  call[u].step \in {"initializing", "expired"} =>
    \/ /\ call'[u].conn = call[u].conn /\ call'[u].step \in {"initializing", "expired"}
       /\ appLock' = appLock
    \/ /\ gate'.unknown
       /\ \A i \in Connections : appLock = u /\ call[u].conn = i => ~ Unstopped(i)'

LEMMA CreationsKept ==
  ASSUME ConnectionsInv, NEW u \in Users, LockPasses(u), CreationKept(u),
         \A v \in Users \ {u} : call'[v] = call[v]
  PROVE  /\ \A i \in Connections : Creating(i) => Creating(i)' \/ ~ Unstopped(i)'
         /\ \A i \in Connections : BeingCreated(i) => BeingCreated(i)' \/ gate'.unknown
<1>1. ASSUME NEW i \in Connections, Creating(i), Unstopped(i)' PROVE Creating(i)'
  <2>1. PICK v \in Users :
          appLock = v /\ call[v].conn = i /\ call[v].step \in {"initializing", "expired"}
    BY <1>1 DEF Creating
  <2>2. CASE v = u
    BY <1>1, <2>1, <2>2 DEF CreationKept, Creating
  <2>3. CASE v # u
    <3>1. appLock' = v
      BY <2>1, <2>3, ConnectionsAssumption DEF LockPasses
    <3> QED BY <2>1, <2>3, <3>1 DEF Creating
  <2> QED BY <2>2, <2>3
<1>2. ASSUME NEW i \in Connections, BeingCreated(i), ~ gate'.unknown PROVE BeingCreated(i)'
  <2>1. PICK v \in Users : call[v].conn = i /\ call[v].step \in {"initializing", "expired"}
    BY <1>2 DEF BeingCreated
  <2>2. CASE v = u
    BY <1>2, <2>1, <2>2 DEF CreationKept, BeingCreated
  <2>3. CASE v # u
    BY <2>1, <2>3 DEF BeingCreated
  <2> QED BY <2>2, <2>3
<1> QED BY <1>1, <1>2

\* Steps of a user that let connections fade.
LEMMA UserMoves ==
  ASSUME ConnectionsInv, NEW u \in Users,
         call' \in [Users -> CallRecord], \A v \in Users \ {u} : call'[v] = call[v],
         Fades(connection'), RequestsGrow(request'),
         current' = current, owned' = owned, mode' = mode, stopped' = stopped,
         shutdown' = shutdown, drifted' = drifted,
         gate' \in [closed : BOOLEAN, unknown : BOOLEAN], gate.unknown => gate'.unknown,
         \A i \in Connections :
           connection'[i].closed \/ connection'[i].lost => gate'.unknown,
         \A i \in Connections : connection'[i].holds = connection[i].holds,
         LockPasses(u), CreationKept(u),
         call'[u].step \in {"locked", "initializing", "cleaning"} => appLock' = u,
         appLock' = u => call'[u].step \in {"locked", "initializing", "expired", "cleaning"},
         appLock' = u /\ call'[u].step # "locked" => appLock = u /\ call[u].step # "locked",
         CallKnows(u)',
         \A q \in DOMAIN request' : RequestKept(q)'
  PROVE  ConnectionsInv'
<1>1. Connections' = Connections
  BY DEF Fades, Connections
<1>2. /\ \A i \in Connections' : ConnectionKept(i)'
      /\ OneWorkerPerPlace' /\ NothingSurvivesClose'
  BY CreationsKept, FadedKept
<1>3. CloserWorks'
  BY CloserKept
<1>4. \A i \in Connections : /\ connection'[i].place = connection[i].place
                             /\ connection[i].closed => connection'[i].closed
                             /\ Unstopped(i)' => Unstopped(i)
  <2>1. \A i \in Connections :
          connection[i] \in ConnectionRecord /\ connection'[i] \in ConnectionRecord
    BY ConnectionIs DEF ConnectionsInv, RecordTypes, Fades, Connections
  <2> QED BY <2>1 DEF Fades, Unstopped, Alive, ConnectionRecord
<1>5. \A p \in Places : PlaceKept(p)'
  BY <1>1, <1>4, PlacesKept
<1>6. OwnerTypes' /\ RecordTypes'
  BY <1>1 DEF ConnectionsInv, OwnerTypes, RecordTypes, LockPasses, Fades, RequestsGrow
<1>7. ASSUME NEW v \in Users PROVE CallKnows(v)'
  <2>1. CASE v = u
    BY <2>1
  <2>2. CASE v # u
    <3>1. appLock' = v => appLock = v
      BY <2>2, ConnectionsAssumption DEF LockPasses
    <3>2. DOMAIN request \subseteq DOMAIN request'
      BY DEF RequestsGrow
    <3> QED BY <1>1, <1>4, <2>2, <3>1, <3>2, OtherCallsKnow
  <2> QED BY <2>1, <2>2
<1>8. LockHeld'
  <2>1. ASSUME NEW v \in Users
        PROVE  /\ call'[v].step \in {"locked", "initializing", "cleaning"} => appLock' = v
               /\ appLock' = v =>
                    call'[v].step \in {"locked", "initializing", "expired", "cleaning"}
    <3>1. CASE v = u
      BY <3>1
    <3>2. CASE v # u
      BY <3>2, ConnectionsAssumption DEF ConnectionsInv, LockHeld, LockPasses
    <3> QED BY <3>1, <3>2
  <2>2. appLock' = Closer <=> appLock = Closer
    BY ConnectionsAssumption DEF LockPasses
  <2> QED BY <2>1, <2>2 DEF ConnectionsInv, LockHeld
<1>9. AfterLock'
  <2>1. ASSUME NEW v \in Users, shutdown.step \in {"closing", "waiting", "closed"}, appLock' = v
        PROVE  call'[v].step = "locked"
    <3>1. CASE v = u
      BY <2>1, <3>1 DEF ConnectionsInv, AfterLock
    <3>2. CASE v # u
      BY <2>1, <3>2, ConnectionsAssumption DEF ConnectionsInv, AfterLock, LockPasses
    <3> QED BY <3>1, <3>2
  <2> QED BY <2>1 DEF AfterLock
<1> QED BY <1>2, <1>3, <1>5, <1>6, <1>7, <1>8, <1>9 DEF ConnectionsInv

\* Nothing of the connections changes, and the requests stay as they are.
LEMMA QuietMove ==
  ASSUME ConnectionsInv, NEW u \in Users, connection' = connection, request' = request
  PROVE  /\ Fades(connection') /\ RequestsGrow(request')
         /\ \A i \in Connections :
              /\ connection'[i].holds = connection[i].holds
              /\ connection'[i].closed \/ connection'[i].lost => gate.unknown
         /\ \A q \in DOMAIN request' : RequestKept(q)'
<1>1. Fades(connection') /\ RequestsGrow(request')
  BY NothingFades
<1>2. \A q \in DOMAIN request' : RequestKept(q)'
  BY DEF ConnectionsInv, RequestKept, Connections
<1> QED BY <1>1, <1>2 DEF ConnectionsInv, ConnectionKept

\* What the failures tell the ledger.
LEMMA DoubtTold ==
  ASSUME ConnectionsInv
  PROVE  /\ gate \in [closed : BOOLEAN, unknown : BOOLEAN]
         /\ GateLost \in [closed : BOOLEAN, unknown : BOOLEAN] /\ GateLost.unknown
         /\ GateFailed \in [closed : BOOLEAN, unknown : BOOLEAN] /\ GateFailed.unknown
  BY DEF ConnectionsInv, OwnerTypes, GateLost, GateFailed, Bound

LEMMA CallingKept ==
  ASSUME ConnectionsInv, NEW u \in Users,
         CallApp(u) \/ TakeAppLock(u) \/ RefuseApp(u) \/ FindApp(u) \/ LaunchFails(u)
  PROVE  ConnectionsInv'
<1>1. call \in [Users -> CallRecord] /\ call[u] \in CallRecord /\ u # NoUser /\ u # Closer
  BY ConnectionsAssumption DEF ConnectionsInv, RecordTypes
<1>2. CASE CallApp(u)
  <2>1. PICK p \in Places : call' = [call EXCEPT ![u].step = "queued", ![u].place = p]
    BY <1>2 DEF CallApp
  <2>2. /\ call' \in [Users -> CallRecord] /\ call'[u].step = "queued"
        /\ \A v \in Users \ {u} : call'[v] = call[v]
    BY <1>1, <2>1 DEF CallRecord
  <2>3. /\ connection' = connection /\ request' = request /\ call[u].step = "idle"
        /\ gate' = gate /\ stopped' = stopped /\ shutdown' = shutdown /\ drifted' = drifted
        /\ mode' = mode /\ appLock' = appLock /\ current' = current /\ owned' = owned
    BY <1>2 DEF CallApp, CallAt, ledgerVars, ownerVars
  <2>4. appLock # u
    BY <2>3 DEF ConnectionsInv, LockHeld
  <2>5. CallKnows(u)'
    BY <2>2, <2>3, <2>4 DEF CallKnows
  <2>6. LockPasses(u) /\ CreationKept(u)
    BY <2>2, <2>3 DEF LockPasses, CreationKept
  <2> QED BY <2>2, <2>3, <2>4, <2>5, <2>6, QuietMove, DoubtTold, UserMoves
<1>3. CASE TakeAppLock(u)
  <2>1. /\ call' \in [Users -> CallRecord] /\ call'[u].step = "locked"
        /\ \A v \in Users \ {u} : call'[v] = call[v]
    BY <1>1, <1>3, CallGoes DEF TakeAppLock
  <2>2. /\ connection' = connection /\ request' = request /\ call[u].step = "queued"
        /\ gate' = gate /\ stopped' = stopped /\ shutdown' = shutdown /\ drifted' = drifted
        /\ mode' = mode /\ current' = current /\ owned' = owned
        /\ appLock = NoUser /\ appLock' = u
    BY <1>3 DEF TakeAppLock, CallAt, ledgerVars, LockFree
  <2>3. CallKnows(u)'
    BY <2>1, <2>2 DEF CallKnows
  <2>4. LockPasses(u) /\ CreationKept(u)
    BY <2>1, <2>2 DEF LockPasses, CreationKept
  <2> QED BY <2>1, <2>2, <2>3, <2>4, QuietMove, DoubtTold, UserMoves
<1>4. CASE RefuseApp(u) \/ LaunchFails(u)
  <2>1. /\ EndCall(u) /\ connection' = connection /\ request' = request
        /\ call[u].step = "locked"
        /\ stopped' = stopped /\ shutdown' = shutdown /\ drifted' = drifted
        /\ mode' = mode /\ current' = current /\ owned' = owned /\ appLock' = NoUser
    BY <1>4 DEF RefuseApp, LaunchFails, CallAt
  <2>2. gate' = gate \/ gate' = GateFailed
    BY <1>4 DEF RefuseApp, LaunchFails
  <2>3. /\ gate' \in [closed : BOOLEAN, unknown : BOOLEAN] /\ (gate.unknown => gate'.unknown)
    BY <2>2, DoubtTold
  <2>4. /\ call' \in [Users -> CallRecord] /\ call'[u].step = "done"
        /\ \A v \in Users \ {u} : call'[v] = call[v]
    BY <1>1, <2>1, CallEnds
  <2>5. appLock = u
    BY <2>1 DEF ConnectionsInv, LockHeld
  <2>6. CallKnows(u)'
    BY <1>1, <2>1, <2>4 DEF CallKnows
  <2>7. LockPasses(u) /\ CreationKept(u)
    BY <2>1, <2>5 DEF LockPasses, CreationKept
  <2>8. appLock' # u
    BY <1>1, <2>1
  <2> QED BY <2>1, <2>3, <2>4, <2>6, <2>7, <2>8, QuietMove, UserMoves
<1>5. CASE FindApp(u)
  <2> DEFINE i == current[call[u].place]
             k == [call[u] EXCEPT !.step = "has", !.conn = i]
  <2>1. i # 0 /\ i \in Nat /\ i \in Connections
    BY <1>1, <1>5 DEF FindApp, ConnectionsInv, OwnerTypes, PlaceKept, CallRecord
  <2>2. k \in CallRecord /\ k.step = "has" /\ k.conn = i
    BY <1>1, <2>1 DEF CallRecord
  <2>3. call' = [call EXCEPT ![u] = k]
    BY <1>1, <1>5 DEF FindApp, CallRecord
  <2>4. /\ connection' = connection /\ request' = request /\ call[u].step = "locked"
        /\ gate' = gate /\ stopped' = stopped /\ shutdown' = shutdown /\ drifted' = drifted
        /\ mode' = mode /\ current' = current /\ owned' = owned /\ appLock' = NoUser
    BY <1>5 DEF FindApp, CallAt, ledgerVars
  <2> HIDE DEF k
  <2>5. /\ call' \in [Users -> CallRecord] /\ call'[u] = k
        /\ \A v \in Users \ {u} : call'[v] = call[v]
    BY <1>1, <2>2, <2>3, CallBecomes
  <2>6. appLock = u
    BY <2>4 DEF ConnectionsInv, LockHeld
  <2>7. CallKnows(u)'
    BY <1>1, <2>1, <2>2, <2>4, <2>5 DEF CallKnows, Connections
  <2>8. LockPasses(u) /\ CreationKept(u)
    BY <2>4, <2>6 DEF LockPasses, CreationKept
  <2>9. appLock' # u /\ call'[u].step = "has"
    BY <1>1, <2>2, <2>4, <2>5
  <2> QED BY <2>4, <2>5, <2>7, <2>8, <2>9, QuietMove, DoubtTold, UserMoves
<1> QED BY <1>2, <1>3, <1>4, <1>5

\* A waiter goes away while its connection fades or stays: the requests keep what they say.
LEMMA ReleasedKept ==
  ASSUME ConnectionsInv, Fades(connection'), NEW q, Released(request', q),
         \A i \in Connections : connection'[i].holds = connection[i].holds
  PROVE  \A r \in DOMAIN request' : RequestKept(r)'
  BY RequestsKept DEF Released

\* What the loss of one connection leaves of all of them.
LEMMA LostFlags ==
  ASSUME ConnectionsInv, NEW i \in Connections, NEW f, Fades(f), Only(i, f)
  PROVE  /\ \A j \in Connections : f[j].holds = connection[j].holds
         /\ \A j \in Connections \ {i} : f[j].closed \/ f[j].lost => gate.unknown
  BY DEF ConnectionsInv, ConnectionKept, Only

\* A step that ends a call under no lock, or leaves it waiting for nothing.
LEMMA AskFailsKept ==
  ASSUME ConnectionsInv, NEW u \in Users, AskFails(u) \/ Answered(u) \/ ForgetRequest(u)
  PROVE  ConnectionsInv'
<1>1. call \in [Users -> CallRecord] /\ call[u] \in CallRecord /\ u # NoUser /\ u # Closer
      /\ request \in Seq(RequestRecord) /\ connection \in Seq(ConnectionRecord)
  BY ConnectionsAssumption DEF ConnectionsInv, RecordTypes
<1>2. /\ EndCall(u) /\ appLock # u
      /\ stopped' = stopped /\ shutdown' = shutdown /\ drifted' = drifted
      /\ mode' = mode /\ current' = current /\ owned' = owned /\ appLock' = appLock
  BY DEF AskFails, Answered, ForgetRequest, ownerVars, CallAt, ConnectionsInv, LockHeld
<1>3. /\ call' \in [Users -> CallRecord] /\ call'[u].step = "done"
      /\ \A v \in Users \ {u} : call'[v] = call[v]
  BY <1>1, <1>2, CallEnds
<1>4. CallKnows(u)' /\ LockPasses(u)
  BY <1>2, <1>3 DEF CallKnows, LockPasses
<1>5. SUFFICES /\ Fades(connection') /\ RequestsGrow(request')
               /\ gate' \in [closed : BOOLEAN, unknown : BOOLEAN]
               /\ gate.unknown => gate'.unknown
               /\ \A i \in Connections :
                    connection'[i].closed \/ connection'[i].lost => gate'.unknown
               /\ \A i \in Connections : connection'[i].holds = connection[i].holds
               /\ CreationKept(u)
               /\ \A q \in DOMAIN request' : RequestKept(q)'
  BY <1>2, <1>3, <1>4, UserMoves
<1>6. CASE AskFails(u)
  <2>1. /\ call[u].conn \in Connections /\ connection' = Lose(call[u].conn)
        /\ gate' = GateFailed /\ request' = request /\ call[u].step = "has"
    BY <1>6 DEF AskFails, CallAt, ConnectionsInv, CallKnows
  <2>2. Fades(connection') /\ Only(call[u].conn, connection')
    BY <1>1, <2>1, LoseFades
  <2>3. \A i \in Connections : connection'[i].holds = connection[i].holds
    BY <2>1, <2>2, LostFlags
  <2>4. RequestsGrow(request') /\ \A q \in DOMAIN request' : RequestKept(q)'
    BY <2>1, <2>2, <2>3, NothingFades, RequestsKept
  <2> QED BY <2>1, <2>2, <2>3, <2>4, DoubtTold DEF CreationKept
<1>7. CASE ForgetRequest(u)
  <2>1. /\ call[u].rid \in DOMAIN request /\ request' = Unregister(call[u].rid)
        /\ gate' = GateFailed /\ connection' = connection
    BY <1>7 DEF ForgetRequest, CallAt, ConnectionsInv, CallKnows
  <2>2. Released(request', call[u].rid) /\ Fades(connection')
    BY <1>1, <2>1, UnregisterReleases, NothingFades
  <2>3. \A q \in DOMAIN request' : RequestKept(q)'
    BY <2>1, <2>2, ReleasedKept
  <2> QED BY <1>2, <2>1, <2>2, <2>3, DoubtTold DEF CreationKept, Released
<1>8. CASE Answered(u)
  <2>1. /\ call[u].rid \in DOMAIN request /\ request' = Take(call[u].rid)
        /\ call[u].conn \in Connections /\ call[u].step = "asking"
        /\ \/ connection' = Lose(call[u].conn) /\ gate' = GateFailed
           \/ connection' = connection /\ gate' = gate
    BY <1>8 DEF Answered, CallAt, ConnectionsInv, CallKnows
  <2>2. Released(request', call[u].rid) /\ Fades(connection')
    BY <1>1, <2>1, TakeReleases, NothingFades, LoseFades
  <2>3. \A i \in Connections : connection'[i].holds = connection[i].holds
    BY <1>1, <2>1, LoseFades, LostFlags
  <2>4. \A q \in DOMAIN request' : RequestKept(q)'
    BY <2>2, <2>3, ReleasedKept
  <2>5. \A i \in Connections :
          connection'[i].closed \/ connection'[i].lost => gate'.unknown
    BY <2>1, DoubtTold DEF ConnectionsInv, ConnectionKept
  <2> QED BY <2>1, <2>2, <2>3, <2>4, <2>5, DoubtTold DEF CreationKept, Released
<1> QED BY <1>6, <1>7, <1>8

LEMMA ExpiringKept ==
  ASSUME ConnectionsInv, NEW u \in Users, TimesOut(u)
  PROVE  ConnectionsInv'
<1>1. call \in [Users -> CallRecord] /\ call[u] \in CallRecord /\ u # NoUser /\ u # Closer
      /\ request \in Seq(RequestRecord) /\ connection \in Seq(ConnectionRecord)
  BY ConnectionsAssumption DEF ConnectionsInv, RecordTypes
<1>2. /\ call[u].step \in {"initializing", "asking"} /\ call[u].conn \in Connections
      /\ call[u].rid \in DOMAIN request
      /\ connection' = Lose(call[u].conn) /\ gate' = GateLost /\ request' = request
      /\ stopped' = stopped /\ shutdown' = shutdown /\ drifted' = drifted
      /\ mode' = mode /\ current' = current /\ owned' = owned /\ appLock' = appLock
  BY DEF TimesOut, Expire, ownerVars, ConnectionsInv, CallKnows
<1>3. /\ call' \in [Users -> CallRecord] /\ call'[u].step = "expired"
      /\ call'[u].place = call[u].place /\ call'[u].conn = call[u].conn
      /\ call'[u].rid = call[u].rid
      /\ \A v \in Users \ {u} : call'[v] = call[v]
  BY <1>1, CallGoes DEF TimesOut
<1>4. Fades(connection') /\ Only(call[u].conn, connection')
  BY <1>1, <1>2, LoseFades
<1>5. \A i \in Connections : connection'[i].holds = connection[i].holds
  BY <1>2, <1>4, LostFlags
<1>6. RequestsGrow(request') /\ \A q \in DOMAIN request' : RequestKept(q)'
  BY <1>2, <1>4, <1>5, NothingFades, RequestsKept
<1>7. CallKnows(u)'
  <2>1. CallKnows(u) /\ Connections' = Connections
    BY <1>4 DEF ConnectionsInv, Fades, Connections
  <2>2. connection'[call[u].conn].place = connection[call[u].conn].place
    BY <1>2, <1>4 DEF Fades
  <2> QED BY <1>2, <1>3, <2>1, <2>2, DoubtTold DEF CallKnows, Conn
<1>8. LockPasses(u) /\ CreationKept(u)
  BY <1>2, <1>3 DEF LockPasses, CreationKept
<1>9. appLock' = u => appLock = u /\ call[u].step # "locked"
  BY <1>2
<1> QED BY <1>2, <1>3, <1>4, <1>5, <1>6, <1>7, <1>8, <1>9, DoubtTold, UserMoves

LEMMA CleaningKept ==
  ASSUME ConnectionsInv, NEW u \in Users, InitializeFails(u)
  PROVE  ConnectionsInv'
<1>1. call \in [Users -> CallRecord] /\ call[u] \in CallRecord /\ u # NoUser /\ u # Closer
      /\ request \in Seq(RequestRecord) /\ connection \in Seq(ConnectionRecord)
  BY ConnectionsAssumption DEF ConnectionsInv, RecordTypes
<1>2. /\ call[u].step \in {"initializing", "expired"} /\ call[u].conn \in Connections
      /\ call[u].rid \in DOMAIN request /\ appLock = u
      /\ connection' = EndWorker(call[u].conn) /\ gate' = GateLost
      /\ request' = Unregister(call[u].rid) \/ request' = Take(call[u].rid)
      /\ stopped' = stopped /\ shutdown' = shutdown /\ drifted' = drifted
      /\ mode' = mode /\ current' = current /\ owned' = owned /\ appLock' = appLock
  BY DEF InitializeFails, CallAt, ownerVars, ConnectionsInv, CallKnows, LockHeld
<1>3. /\ call' \in [Users -> CallRecord] /\ call'[u].step = "cleaning"
      /\ call'[u].place = call[u].place /\ call'[u].conn = call[u].conn
      /\ \A v \in Users \ {u} : call'[v] = call[v]
  BY <1>1, CallGoes DEF InitializeFails
<1>4. /\ Fades(connection') /\ Only(call[u].conn, connection')
      /\ connection'[call[u].conn].closed
  BY <1>1, <1>2, EndWorkerFades
<1>5. \A i \in Connections : i = call[u].conn => ~ Unstopped(i)'
  BY <1>1, <1>2, EndWorkerFades DEF Unstopped, Alive
<1>6. Released(request', call[u].rid)
  BY <1>1, <1>2, UnregisterReleases, TakeReleases
<1>7. \A i \in Connections : connection'[i].holds = connection[i].holds
  BY <1>2, <1>4, LostFlags
<1>8. \A q \in DOMAIN request' : RequestKept(q)'
  BY <1>4, <1>6, <1>7, ReleasedKept
<1>9. CallKnows(u)'
  <2>1. CallKnows(u) /\ Connections' = Connections
    BY <1>4 DEF ConnectionsInv, Fades, Connections
  <2>2. connection'[call[u].conn].place = connection[call[u].conn].place
    BY <1>2, <1>4 DEF Fades
  <2>3. ~ Unstopped(call[u].conn)'
    <3> DEFINE i == call'[u].conn
    <3>1. i = call[u].conn /\ i \in Connections
      BY <1>2, <1>3
    <3> QED BY <1>3, <1>5, <3>1 DEF Unstopped, Alive
  <2> QED BY <1>2, <1>3, <1>4, <2>1, <2>2, <2>3, DoubtTold DEF CallKnows, Conn
<1>10. LockPasses(u) /\ CreationKept(u)
  BY <1>2, <1>3, <1>5, DoubtTold DEF LockPasses, CreationKept
<1> QED
  BY <1>2, <1>3, <1>4, <1>6, <1>7, <1>8, <1>9, <1>10, DoubtTold, UserMoves DEF Released

LEMMA CreationFailsKept ==
  ASSUME ConnectionsInv, NEW u \in Users, CreationFails(u)
  PROVE  ConnectionsInv'
<1>1. call \in [Users -> CallRecord] /\ call[u] \in CallRecord /\ u # NoUser /\ u # Closer
      /\ request \in Seq(RequestRecord) /\ connection \in Seq(ConnectionRecord)
  BY ConnectionsAssumption DEF ConnectionsInv, RecordTypes
<1>2. /\ call[u].step = "cleaning" /\ call[u].conn \in Connections
      /\ connection' = KillWorker(call[u].conn) /\ gate' = GateFailed /\ request' = request
      /\ stopped' = stopped /\ shutdown' = shutdown /\ drifted' = drifted
      /\ mode' = mode /\ current' = current /\ owned' = owned
      /\ appLock = u /\ appLock' = NoUser /\ EndCall(u)
  BY DEF CreationFails, CallAt, ConnectionsInv, CallKnows, LockHeld
<1>3. /\ call' \in [Users -> CallRecord] /\ call'[u].step = "done"
      /\ \A v \in Users \ {u} : call'[v] = call[v]
  BY <1>1, <1>2, CallEnds
<1>4. Fades(connection') /\ Only(call[u].conn, connection')
  BY <1>1, <1>2, KillWorkerFades
<1>5. \A i \in Connections : connection'[i].holds = connection[i].holds
  BY <1>2, <1>4, LostFlags
<1>6. RequestsGrow(request') /\ \A q \in DOMAIN request' : RequestKept(q)'
  BY <1>2, <1>4, <1>5, NothingFades, RequestsKept
<1>7. CallKnows(u)' /\ LockPasses(u) /\ CreationKept(u) /\ appLock' # u
  BY <1>1, <1>2, <1>3 DEF CallKnows, LockPasses, CreationKept
<1> QED BY <1>2, <1>3, <1>4, <1>5, <1>6, <1>7, DoubtTold, UserMoves

\* A new request is the last one: nobody holds it, and it was not answered.
NewlyAsked(g, i) ==
  /\ RequestsGrow(g) /\ DOMAIN g = DOMAIN request \cup {Len(request) + 1}
  /\ Len(request) + 1 \notin DOMAIN request
  /\ \A q \in DOMAIN request : g[q] = request[q]
  /\ g[Len(request) + 1] = NewRequest(i)

LEMMA AskedGrow ==
  ASSUME request \in Seq(RequestRecord), NEW i \in Nat
  PROVE  NewlyAsked(Append(request, NewRequest(i)), i)
<1>1. NewRequest(i) \in RequestRecord
  BY DEF NewRequest, RequestRecord
<1> QED BY <1>1, AppendProperties DEF NewlyAsked, RequestsGrow

LEMMA AskingKept ==
  ASSUME ConnectionsInv, NEW u \in Users, AskWorker(u)
  PROVE  ConnectionsInv'
<1>1. call \in [Users -> CallRecord] /\ call[u] \in CallRecord /\ u # NoUser /\ u # Closer
      /\ request \in Seq(RequestRecord) /\ connection \in Seq(ConnectionRecord)
  BY ConnectionsAssumption DEF ConnectionsInv, RecordTypes
<1> DEFINE i == call[u].conn
<1>2. /\ call[u].step = "has" /\ i \in Connections /\ i \in Nat
      /\ request' = Append(request, NewRequest(i))
      /\ connection' = connection /\ gate' = gate
      /\ stopped' = stopped /\ shutdown' = shutdown /\ drifted' = drifted
      /\ mode' = mode /\ current' = current /\ owned' = owned
      /\ appLock # u /\ appLock' = appLock
  BY <1>1 DEF AskWorker, CallAt, ConnectionsInv, CallKnows, LockHeld, ownerVars, ledgerVars,
              CallRecord
<1>3. NewlyAsked(request', i)
  BY <1>1, <1>2, AskedGrow
<1>4. /\ call' \in [Users -> CallRecord] /\ call'[u].step = "asking"
      /\ call'[u].conn = i /\ call'[u].rid = Len(request) + 1
      /\ \A v \in Users \ {u} : call'[v] = call[v]
  <2> DEFINE k == [call[u] EXCEPT !.step = "asking", !.rid = Len(request) + 1]
  <2>1. Len(request) + 1 \in Nat
    BY <1>1
  <2>2. /\ k \in CallRecord /\ k.step = "asking" /\ k.conn = i
        /\ k.rid = Len(request) + 1
    BY <1>1, <2>1 DEF CallRecord
  <2>3. call' = [call EXCEPT ![u] = k]
    BY <1>1 DEF AskWorker, CallRecord
  <2> HIDE DEF k
  <2> QED BY <1>1, <2>2, <2>3, CallBecomes
<1>5. ASSUME NEW q \in DOMAIN request' PROVE RequestKept(q)'
  <2>1. CASE q \in DOMAIN request
    BY <1>2, <1>3, <2>1 DEF ConnectionsInv, RequestKept, NewlyAsked, Connections
  <2>2. CASE q = Len(request) + 1
    BY <1>2, <1>3, <2>2 DEF RequestKept, NewlyAsked, NewRequest, Connections
  <2> QED BY <1>3, <2>1, <2>2 DEF NewlyAsked
<1>6. CallKnows(u)' /\ LockPasses(u) /\ CreationKept(u)
  BY <1>2, <1>3, <1>4 DEF CallKnows, LockPasses, CreationKept, NewlyAsked, Connections
<1>7. \A j \in Connections :
        connection'[j].closed \/ connection'[j].lost => gate'.unknown
  BY <1>2 DEF ConnectionsInv, ConnectionKept
<1> QED BY <1>2, <1>3, <1>4, <1>5, <1>6, <1>7, NothingFades, DoubtTold, UserMoves DEF NewlyAsked

\* A new connection comes last, with its child and its reader at work.
NewlyOpened(f, k) ==
  /\ f \in Seq(ConnectionRecord)
  /\ DOMAIN f = Connections \cup {Len(connection) + 1}
  /\ Len(connection) + 1 \notin Connections
  /\ \A i \in Connections : f[i] = connection[i]
  /\ f[Len(connection) + 1] = k

LEMMA OpenedGrow ==
  ASSUME connection \in Seq(ConnectionRecord), NEW place \in Places, NEW kind \in {"child", "socket"}
  PROVE  NewlyOpened(Append(connection, NewConnection(place, kind)), NewConnection(place, kind))
<1>1. NewConnection(place, kind) \in ConnectionRecord
  BY DEF NewConnection, ConnectionRecord
<1> QED BY <1>1, AppendProperties DEF NewlyOpened, Connections

\* A worker is launched by the thread that holds the lock, where no other works.
LEMMA OpeningKept ==
  ASSUME ConnectionsInv, NEW u \in Users, NEW kind \in {"child", "socket"}, OpenApp(u, kind),
         UNCHANGED <<ledgerVars, ownerVars>>, appLock = u, current[call[u].place] = 0,
         shutdown.step \in {"open", "locking"}, call[u].step \in {"locked", "cleaning"}
  PROVE  ConnectionsInv'
<1> DEFINE n == Len(connection) + 1
           r == Len(request) + 1
           new == NewConnection(call[u].place, kind)
<1>1. call \in [Users -> CallRecord] /\ call[u] \in CallRecord /\ u # NoUser /\ u # Closer
      /\ request \in Seq(RequestRecord) /\ connection \in Seq(ConnectionRecord)
      /\ n \in Nat \ {0} /\ r \in Nat \ {0} /\ call[u].place \in Places
  BY ConnectionsAssumption DEF ConnectionsInv, RecordTypes, CallRecord
<1>2. /\ connection' = Append(connection, new) /\ request' = Append(request, NewRequest(n))
      /\ gate' = gate /\ stopped' = stopped /\ shutdown' = shutdown /\ drifted' = drifted
      /\ mode' = mode /\ current' = current /\ owned' = owned /\ appLock' = appLock
  BY DEF OpenApp, ledgerVars, ownerVars
<1>3. NewlyOpened(connection', new)
  BY <1>1, <1>2, OpenedGrow
<1>4. NewlyAsked(request', n)
  BY <1>1, <1>2, AskedGrow
<1>5. /\ call' \in [Users -> CallRecord] /\ call'[u].step = "initializing"
      /\ call'[u].place = call[u].place /\ call'[u].conn = n /\ call'[u].rid = r
      /\ \A v \in Users \ {u} : call'[v] = call[v]
  <2> DEFINE k == [call[u] EXCEPT !.step = "initializing", !.conn = n, !.rid = r]
  <2>1. call' = [call EXCEPT ![u] = k]
    BY <1>1 DEF OpenApp, CallRecord
  <2> HIDE DEF n, r
  <2>2. /\ k \in CallRecord /\ k.step = "initializing" /\ k.conn = n
        /\ k.rid = r /\ k.place = call[u].place
    BY <1>1 DEF CallRecord
  <2> HIDE DEF k
  <2> QED BY <1>1, <2>1, <2>2, CallBecomes
<1>6. /\ new.place = call[u].place /\ ~ new.closed /\ ~ new.lost /\ new.holds = 0
  BY DEF NewConnection
<1> HIDE DEF n, r, new
<1>7. /\ Connections' = Connections \cup {n} /\ n \notin Connections
      /\ \A i \in Connections : connection'[i] = connection[i] /\ Unstopped(i)' = Unstopped(i)
                                /\ Alive(i)' = Alive(i)
      /\ connection'[n] = new
  BY <1>3 DEF NewlyOpened, Connections, n, Unstopped, Alive
<1>8. /\ DOMAIN request' = DOMAIN request \cup {r} /\ r \notin DOMAIN request
      /\ \A q \in DOMAIN request : request'[q] = request[q]
      /\ request'[r].conn = n /\ request'[r].item = "none"
  BY <1>4 DEF NewlyAsked, NewRequest, r
<1>9. OwnerTypes' /\ RecordTypes'
  BY <1>2, <1>3, <1>4, <1>5, <1>7
  DEF ConnectionsInv, OwnerTypes, RecordTypes, NewlyOpened, NewlyAsked, RequestsGrow
<1>10. LockHeld' /\ AfterLock'
  <2>1. LockHeld'
    BY <1>1, <1>2, <1>5 DEF ConnectionsInv, LockHeld
  <2>2. AfterLock'
    BY <1>2 DEF AfterLock
  <2> QED BY <2>1, <2>2
<1>11. ASSUME NEW v \in Users PROVE CallKnows(v)'
  <2>1. CASE v = u
    BY <1>1, <1>2, <1>5, <1>6, <1>7, <1>8, <2>1 DEF CallKnows, Conn
  <2>2. CASE v # u
    BY <1>1, <1>2, <1>5, <1>7, <1>8, <2>2, OtherCallsKnow
  <2> QED BY <2>1, <2>2
<1>12. \A p \in Places : PlaceKept(p)'
  BY <1>2, <1>7, PlacesKept
<1>13. \A i \in Connections : Unstopped(i) => connection[i].place # call[u].place
  <2> SUFFICES ASSUME NEW i \in Connections, Unstopped(i), connection[i].place = call[u].place
               PROVE FALSE
    OBVIOUS
  <2>1. current[connection[i].place] # i
    BY <1>1 DEF Connections
  <2>2. Creating(i)
    BY <2>1 DEF ConnectionsInv, ConnectionKept
  <2> QED BY <2>2 DEF Creating
<1>14. ASSUME NEW i \in Connections' PROVE ConnectionKept(i)'
  <2>1. CASE i = n
    <3>1. Creating(i)' /\ BeingCreated(i)'
      BY <1>2, <1>5, <2>1 DEF Creating, BeingCreated
    <3> QED BY <1>6, <1>7, <2>1, <3>1 DEF ConnectionKept
  <2>2. CASE i \in Connections
    <3>1. ConnectionKept(i) /\ connection'[i] = connection[i]
      BY <1>7, <2>2 DEF ConnectionsInv
    <3>2. Creating(i) => FALSE
      BY DEF Creating
    <3>3. BeingCreated(i) => BeingCreated(i)' \/ gate'.unknown
      <4> SUFFICES ASSUME NEW v \in Users, call[v].conn = i,
                          call[v].step \in {"initializing", "expired"}
                   PROVE BeingCreated(i)'
        BY DEF BeingCreated
      <4>1. v # u
        OBVIOUS
      <4> QED BY <1>5, <4>1 DEF BeingCreated
    <3>4. LET q == connection'[i].holds IN
            q # 0 => q \in DOMAIN request' /\ request'[q].conn = i /\ request'[q].answered
      BY <1>8, <3>1 DEF ConnectionKept
    <3>5. Unstopped(i)' = Unstopped(i) /\ Alive(i)' = Alive(i)
      BY <1>7, <2>2
    <3> QED BY <1>2, <3>1, <3>2, <3>3, <3>4, <3>5 DEF ConnectionKept
  <2> QED BY <1>7, <2>1, <2>2
<1>15. ASSUME NEW q \in DOMAIN request' PROVE RequestKept(q)'
  <2>1. CASE q = r
    BY <1>7, <1>8, <2>1 DEF RequestKept
  <2>2. CASE q \in DOMAIN request
    BY <1>7, <1>8, <2>2 DEF ConnectionsInv, RequestKept
  <2> QED BY <1>8, <2>1, <2>2
<1>16. CloserWorks' /\ NothingSurvivesClose'
  BY <1>2 DEF CloserWorks, NothingSurvivesClose
<1>17. OneWorkerPerPlace'
  <2> SUFFICES ASSUME NEW i \in Connections', NEW j \in Connections', i # j,
                      connection'[i].place = connection'[j].place,
                      Unstopped(i)', Unstopped(j)'
               PROVE FALSE
    BY DEF OneWorkerPerPlace
  <2>1. CASE i \in Connections /\ j \in Connections
    BY <1>7, <2>1 DEF ConnectionsInv, OneWorkerPerPlace
  <2>2. CASE i = n /\ j \in Connections
    BY <1>6, <1>7, <1>13, <2>2
  <2>3. CASE j = n /\ i \in Connections
    BY <1>6, <1>7, <1>13, <2>3
  <2> QED BY <1>7, <2>1, <2>2, <2>3
<1> QED
  BY <1>9, <1>10, <1>11, <1>12, <1>14, <1>15, <1>16, <1>17 DEF ConnectionsInv

LEMMA LaunchingKept ==
  ASSUME ConnectionsInv, NEW u \in Users, LaunchApp(u) \/ FallBack(u)
  PROVE  ConnectionsInv'
<1>1. CASE LaunchApp(u)
  <2>1. /\ appLock = u /\ shutdown.step = "open" /\ call[u].step = "locked"
        /\ current[call[u].place] = 0
    BY <1>1 DEF LaunchApp, CallAt, StillOpen, ConnectionsInv, LockHeld
  <2> QED BY <1>1, <2>1, OpeningKept DEF LaunchApp
<1>2. CASE FallBack(u)
  <2>1. appLock = u /\ call[u].step = "cleaning"
    BY <1>2 DEF FallBack, CallAt, ConnectionsInv, LockHeld
  <2>2. current[call[u].place] = 0
    BY <2>1 DEF ConnectionsInv, CallKnows
  <2>3. shutdown.step \in {"open", "locking"}
    BY <2>1 DEF ConnectionsInv, AfterLock, OwnerTypes, ShutdownRecord
  <2> QED BY <1>2, <2>1, <2>2, <2>3, OpeningKept DEF FallBack
<1> QED BY <1>1, <1>2

\* The connection that was created becomes everyone's.
LEMMA PublishingKept ==
  ASSUME ConnectionsInv, NEW u \in Users, Publish(u)
  PROVE  ConnectionsInv'
<1> DEFINE n == call[u].conn
           p == call[u].place
<1>1. call \in [Users -> CallRecord] /\ call[u] \in CallRecord /\ u # NoUser /\ u # Closer
      /\ request \in Seq(RequestRecord) /\ connection \in Seq(ConnectionRecord)
      /\ p \in Places
  BY ConnectionsAssumption DEF ConnectionsInv, RecordTypes, CallRecord
<1>2. /\ call[u].step = "initializing" /\ call[u].rid \in DOMAIN request
      /\ n \in Connections /\ n \in Nat \ {0} /\ appLock = u /\ appLock' = NoUser
      /\ connection[n].place = p /\ current[p] = 0
      /\ request' = Take(call[u].rid) /\ connection' = connection
      /\ current' = [current EXCEPT ![p] = n]
      /\ owned' = owned \cup (IF Bound THEN {n} ELSE {})
      /\ gate' = gate /\ stopped' = stopped /\ shutdown' = shutdown /\ drifted' = drifted
      /\ mode' = mode
  <2>1. call[u].step = "initializing" /\ appLock = u
    BY DEF Publish, CallAt, ConnectionsInv, LockHeld
  <2>2. n \in Connections /\ call[u].rid \in DOMAIN request
        /\ connection[n].place = p /\ current[p] = 0
    BY <2>1 DEF ConnectionsInv, CallKnows, Conn
  <2>3. n \in Nat \ {0}
    BY <1>1, <2>2 DEF Connections
  <2> QED BY <2>1, <2>2, <2>3 DEF Publish, ledgerVars
<1>3. /\ call' \in [Users -> CallRecord] /\ call'[u].step = "has" /\ call'[u].conn = n
      /\ \A v \in Users \ {u} : call'[v] = call[v]
  <2> DEFINE k == [call[u] EXCEPT !.step = "has", !.rid = 0]
  <2>1. call' = [call EXCEPT ![u] = k]
    BY <1>1 DEF Publish, CallRecord
  <2>2. k \in CallRecord /\ k.step = "has" /\ k.conn = n
    BY <1>1 DEF CallRecord
  <2> HIDE DEF k
  <2> QED BY <1>1, <2>1, <2>2, CallBecomes
<1> HIDE DEF n, p
<1>4. /\ current' \in [Places -> Nat] /\ current'[p] = n
      /\ \A o \in Places \ {p} : current'[o] = current[o]
  BY <1>1, <1>2 DEF ConnectionsInv, OwnerTypes
<1>5. Released(request', call[u].rid) /\ Fades(connection')
  BY <1>1, <1>2, TakeReleases, NothingFades
<1>6. /\ Connections' = Connections
      /\ \A i \in Connections : Unstopped(i)' = Unstopped(i) /\ Alive(i)' = Alive(i)
  BY <1>2 DEF Connections, Unstopped, Alive
<1>7. OwnerTypes' /\ RecordTypes'
  BY <1>2, <1>3, <1>4, <1>5, <1>6
  DEF ConnectionsInv, OwnerTypes, RecordTypes, Released, RequestsGrow
<1>8. LockHeld'
  <2>1. ASSUME NEW v \in Users
        PROVE  call'[v].step \notin {"locked", "initializing", "cleaning"} /\ appLock' # v
    BY <1>1, <1>2, <1>3, ConnectionsAssumption DEF ConnectionsInv, LockHeld
  <2>2. shutdown.step \notin {"closing", "waiting"} /\ appLock' # Closer
    BY <1>1, <1>2, ConnectionsAssumption DEF ConnectionsInv, LockHeld
  <2> QED BY <1>2, <2>1, <2>2 DEF ConnectionsInv, LockHeld
<1>9. AfterLock'
  BY <1>2, ConnectionsAssumption DEF AfterLock
<1>10. ASSUME NEW v \in Users PROVE CallKnows(v)'
  <2>1. appLock' # v
    BY <1>2, ConnectionsAssumption
  <2>2. CASE v = u
    BY <1>2, <1>3, <1>6, <2>1, <2>2 DEF CallKnows
  <2>3. CASE v # u
    BY <1>2, <1>3, <1>5, <1>6, <2>1, <2>3, OtherCallsKnow DEF Released, RequestsGrow
  <2> QED BY <2>2, <2>3
<1>11. ASSUME NEW o \in Places PROVE PlaceKept(o)'
  BY <1>2, <1>4, <1>6 DEF ConnectionsInv, PlaceKept, Bound
<1>12. ASSUME NEW i \in Connections PROVE ConnectionKept(i)'
  <2>1. ConnectionKept(i) /\ connection[i].place \in Places /\ i # 0
    BY <1>1, ConnectionIs DEF ConnectionsInv, ConnectionRecord, Connections
  <2>2. i # n /\ connection[i].place = p => current[connection[i].place] # i
    BY <1>2, <2>1
  <2>3. Creating(i) => i = n
    BY <1>2 DEF Creating, n
  <2>4. BeingCreated(i) => i = n \/ BeingCreated(i)'
    <3> SUFFICES ASSUME NEW v \in Users, call[v].conn = i,
                        call[v].step \in {"initializing", "expired"}, i # n
                 PROVE BeingCreated(i)'
      BY DEF BeingCreated
    <3>1. v # u
      BY DEF n
    <3> QED BY <1>3, <3>1 DEF BeingCreated
  <2>5. LET q == connection'[i].holds IN
          q # 0 => q \in DOMAIN request' /\ request'[q].conn = i /\ request'[q].answered
    BY <1>2, <1>5, <2>1 DEF ConnectionKept, Released, RequestsGrow
  <2>6. i = n => current'[connection'[i].place] = i
    BY <1>2, <1>4
  <2>7. current[connection[i].place] = i => current'[connection'[i].place] = i
    BY <1>2, <1>4, <2>1
  <2> QED BY <1>2, <1>6, <2>1, <2>3, <2>4, <2>5, <2>6, <2>7 DEF ConnectionKept
<1>13. \A q \in DOMAIN request' : RequestKept(q)'
  BY <1>2, <1>5, ReleasedKept
<1>14. shutdown.step \notin {"closing", "waiting", "closed"}
  BY <1>2 DEF ConnectionsInv, AfterLock
<1>15. CloserWorks' /\ NothingSurvivesClose' /\ OneWorkerPerPlace'
  BY <1>2, <1>6, <1>14
  DEF ConnectionsInv, CloserWorks, NothingSurvivesClose, OneWorkerPerPlace
<1> QED
  BY <1>6, <1>7, <1>8, <1>9, <1>10, <1>11, <1>12, <1>13, <1>15 DEF ConnectionsInv

\* Steps of workers, readers and the closer that let connections fade.
LEMMA WorkersMove ==
  ASSUME ConnectionsInv, Fades(connection'), RequestsGrow(request'),
         UNCHANGED <<ownerVars, call, mode, stopped>>, drifted' \in BOOLEAN,
         gate' \in [closed : BOOLEAN, unknown : BOOLEAN], gate.unknown => gate'.unknown,
         \A i \in Connections :
           connection'[i].closed \/ connection'[i].lost => gate'.unknown,
         \A i \in Connections :
           \/ connection'[i].holds = connection[i].holds
           \/ LET q == connection'[i].holds IN
                q # 0 => q \in DOMAIN request' /\ request'[q].conn = i /\ request'[q].answered,
         shutdown' \in ShutdownRecord,
         \/ shutdown' = shutdown
         \/ {shutdown.step, shutdown'.step} \subseteq {"closing", "waiting"},
         CloserWorks', \A q \in DOMAIN request' : RequestKept(q)'
  PROVE  ConnectionsInv'
<1>1. /\ current' = current /\ owned' = owned /\ appLock' = appLock /\ call' = call
      /\ mode' = mode /\ stopped' = stopped
  BY DEF ownerVars
<1>2. /\ shutdown.step = "closed" <=> shutdown'.step = "closed"
      /\ shutdown.step = "open" <=> shutdown'.step = "open"
      /\ shutdown.step \in {"closing", "waiting"} <=> shutdown'.step \in {"closing", "waiting"}
  OBVIOUS
<1>3. Connections' = Connections
  BY DEF Fades, Connections
<1>4. /\ \A i \in Connections : Creating(i) => Creating(i)'
      /\ \A i \in Connections : BeingCreated(i) => BeingCreated(i)'
  BY <1>1 DEF Creating, BeingCreated
<1>5. /\ \A i \in Connections' : ConnectionKept(i)'
      /\ OneWorkerPerPlace' /\ NothingSurvivesClose'
  BY <1>1, <1>2, <1>4, FadedKept
<1>6. \A i \in Connections : /\ connection'[i].place = connection[i].place
                             /\ connection[i].closed => connection'[i].closed
                             /\ Unstopped(i)' => Unstopped(i)
  <2>1. \A i \in Connections :
          connection[i] \in ConnectionRecord /\ connection'[i] \in ConnectionRecord
    BY ConnectionIs DEF ConnectionsInv, RecordTypes, Fades, Connections
  <2> QED BY <2>1 DEF Fades, Unstopped, Alive, ConnectionRecord
<1>7. \A p \in Places : PlaceKept(p)'
  BY <1>1, <1>3, <1>6, PlacesKept
<1>8. OwnerTypes' /\ RecordTypes'
  BY <1>1, <1>3 DEF ConnectionsInv, OwnerTypes, RecordTypes, Fades, RequestsGrow
<1>9. \A u \in Users : CallKnows(u)'
  BY <1>1, <1>3, <1>6, OtherCallsKnow DEF RequestsGrow
<1>10. LockHeld' /\ AfterLock'
  BY <1>1, <1>2 DEF ConnectionsInv, LockHeld, AfterLock
<1> QED BY <1>3, <1>5, <1>7, <1>8, <1>9, <1>10 DEF ConnectionsInv

\* A connection that only reads, or whose worker changes.
Holding(i, q) == [connection EXCEPT ![i].holds = q]

LEMMA HoldingFades ==
  ASSUME connection \in Seq(ConnectionRecord), NEW i \in Connections, NEW q \in Nat
  PROVE  LET f == Holding(i, q) IN
           /\ Fades(f) /\ f[i].holds = q
           /\ \A j \in Connections : f[j].closed = connection[j].closed
                                     /\ f[j].lost = connection[j].lost
           /\ \A j \in Connections \ {i} : f[j] = connection[j]
<1> DEFINE f == Holding(i, q)
           k == [connection[i] EXCEPT !.holds = q]
<1>1. connection[i] \in ConnectionRecord
  BY ConnectionIs
<1>2. /\ k \in ConnectionRecord /\ k.lost = connection[i].lost /\ k.place = connection[i].place
      /\ k.kind = connection[i].kind /\ k.peer = connection[i].peer /\ k.holds = q
      /\ k.signal = connection[i].signal /\ k.closed = connection[i].closed
  BY <1>1 DEF ConnectionRecord
<1>3. f = [connection EXCEPT ![i] = k]
  BY DEF Holding
<1> HIDE DEF k, f
<1>4. /\ f \in Seq(ConnectionRecord) /\ DOMAIN f = Connections
      /\ f[i] = k /\ \A j \in Connections \ {i} : f[j] = connection[j]
  BY <1>2, <1>3, RecordBecomes
<1>5. Fades(f)
  BY <1>1, <1>2, <1>4 DEF Fades, ConnectionRecord
<1>6. f[i].holds = q /\ \A j \in Connections : f[j].closed = connection[j].closed
                                               /\ f[j].lost = connection[j].lost
  BY <1>2, <1>4
<1> QED BY <1>4, <1>5, <1>6 DEF f

LEMMA PeerFades ==
  ASSUME connection \in Seq(ConnectionRecord), NEW i \in Connections,
         NEW peer \in {"mute", "gone"}, peer = "mute" => connection[i].peer = "running"
  PROVE  LET f == [connection EXCEPT ![i].peer = peer] IN
           /\ Fades(f) /\ Only(i, f)
           /\ \A j \in Connections : f[j].closed = connection[j].closed
                                     /\ f[j].lost = connection[j].lost
<1> DEFINE f == [connection EXCEPT ![i].peer = peer]
           k == [connection[i] EXCEPT !.peer = peer]
<1>1. connection[i] \in ConnectionRecord
  BY ConnectionIs
<1>2. /\ k \in ConnectionRecord /\ k.lost = connection[i].lost /\ k.place = connection[i].place
      /\ k.kind = connection[i].kind /\ k.peer = peer /\ k.holds = connection[i].holds
      /\ k.signal = connection[i].signal /\ k.closed = connection[i].closed
  BY <1>1 DEF ConnectionRecord
<1>3. f = [connection EXCEPT ![i] = k]
  OBVIOUS
<1> HIDE DEF k, f
<1>4. /\ f \in Seq(ConnectionRecord) /\ DOMAIN f = Connections
      /\ f[i] = k /\ \A j \in Connections \ {i} : f[j] = connection[j]
  BY <1>2, <1>3, RecordBecomes
<1>5. Fades(f) /\ Only(i, f)
  BY <1>1, <1>2, <1>4 DEF Fades, Only, ConnectionRecord
<1>6. \A j \in Connections : f[j].closed = connection[j].closed
                             /\ f[j].lost = connection[j].lost
  BY <1>2, <1>4
<1> QED BY <1>5, <1>6 DEF f

LEMMA MarkedFades ==
  ASSUME connection \in Seq(ConnectionRecord), NEW i \in Connections,
         connection[i].peer # "running" \/ connection[i].signal = "kill"
  PROVE  LET f == [connection EXCEPT ![i].closed = TRUE, ![i].lost = TRUE,
                                     ![i].reader = "ended"] IN
           Fades(f) /\ Only(i, f) /\ f[i].closed /\ f[i].lost
<1> DEFINE f == [connection EXCEPT ![i].closed = TRUE, ![i].lost = TRUE, ![i].reader = "ended"]
           k == [connection[i] EXCEPT !.closed = TRUE, !.lost = TRUE, !.reader = "ended"]
<1>1. connection[i] \in ConnectionRecord
  BY ConnectionIs
<1>2. /\ k \in ConnectionRecord /\ k.lost /\ k.closed /\ k.place = connection[i].place
      /\ k.kind = connection[i].kind /\ k.peer = connection[i].peer
      /\ k.holds = connection[i].holds /\ k.signal = connection[i].signal
  BY <1>1 DEF ConnectionRecord
<1>3. f = [connection EXCEPT ![i] = k]
  BY <1>1 DEF ConnectionRecord
<1> HIDE DEF k, f
<1>4. /\ f \in Seq(ConnectionRecord) /\ DOMAIN f = Connections
      /\ f[i] = k /\ \A j \in Connections \ {i} : f[j] = connection[j]
  BY <1>2, <1>3, RecordBecomes
<1>5. Only(i, f) /\ f[i].closed /\ f[i].lost
  BY <1>2, <1>4 DEF Only
<1>6. f[i].closed => f[i].kind = "socket" \/ f[i].signal # "none" \/ f[i].peer # "running"
  BY <1>2, <1>4
<1>7. Fades(f)
  BY <1>2, <1>4, <1>6 DEF Fades
<1> QED BY <1>5, <1>7 DEF f

\* Waiters are failed where the connection is closed.
LEMMA FailedKept ==
  ASSUME ConnectionsInv, Fades(connection'), NEW i \in Connections,
         request' = FailWaiters(WaitersOf(i)), connection'[i].closed, connection'[i].lost,
         \A j \in Connections : connection'[j].holds = connection[j].holds
  PROVE  RequestsGrow(request') /\ \A q \in DOMAIN request' : RequestKept(q)'
<1>1. /\ RequestsGrow(request') /\ DOMAIN request' = DOMAIN request
      /\ \A q \in DOMAIN request : \/ request'[q].item = request[q].item
                                   \/ request'[q].item = "error" /\ request[q].conn = i
  BY FailWaitersFails DEF ConnectionsInv, RecordTypes
<1>2. ASSUME NEW q \in DOMAIN request PROVE RequestKept(q)'
  <2>1. RequestKept(q) /\ request'[q].conn = request[q].conn
    BY <1>1 DEF ConnectionsInv, RequestsGrow
  <2>2. request'[q].conn \in Connections'
    BY <2>1 DEF RequestKept, Fades, Connections
  <2>3. request'[q].item \in {"reply", "refusal"} =>
          request'[q].answered /\ connection'[request'[q].conn].holds # q
    BY <1>1, <2>1 DEF RequestKept, RequestsGrow
  <2>4. request'[q].item = "error" =>
          connection'[request'[q].conn].closed /\ connection'[request'[q].conn].lost
    BY <1>1, <2>1 DEF RequestKept, Fades
  <2> QED BY <2>2, <2>3, <2>4 DEF RequestKept
<1> QED BY <1>1, <1>2

LEMMA ReadingKept ==
  ASSUME ConnectionsInv, NEW i \in Connections,
         TakeReply(i) \/ PutReply(i) \/ MarkClosed(i) \/ WorkerChanges(i)
  PROVE  ConnectionsInv'
<1>1. /\ request \in Seq(RequestRecord) /\ connection \in Seq(ConnectionRecord)
      /\ ConnectionKept(i) /\ shutdown \in ShutdownRecord /\ drifted \in BOOLEAN
      /\ \A q \in DOMAIN request : request[q] \in RequestRecord
  BY DEF ConnectionsInv, RecordTypes, OwnerTypes
<1>2. \A j \in Connections : connection[j].closed \/ connection[j].lost => gate.unknown
  BY DEF ConnectionsInv, ConnectionKept
<1>3. UNCHANGED <<ownerVars, call, mode, stopped>> /\ shutdown' = shutdown /\ drifted' = drifted
  BY DEF TakeReply, PutReply, MarkClosed, WorkerChanges, ledgerVars
<1>4. current' = current /\ mode' = mode
  BY <1>3 DEF ownerVars
<1>5. CASE TakeReply(i)
  <2>1. PICK q \in DOMAIN request :
          /\ request[q].conn = i /\ ~ request[q].answered
          /\ request' = [request EXCEPT ![q].answered = TRUE]
          /\ connection' =
               [connection EXCEPT ![i].holds = IF request[q].registered THEN q ELSE 0]
    BY <1>5 DEF TakeReply
  <2> DEFINE h == IF request[q].registered THEN q ELSE 0
             k == [request[q] EXCEPT !.answered = TRUE]
  <2>2. h \in Nat /\ (h = q \/ h = 0)
    BY <1>1
  <2>3. /\ k \in RequestRecord /\ k.conn = i /\ k.item = request[q].item /\ k.answered
    BY <1>1, <2>1 DEF RequestRecord
  <2>4. request' = [request EXCEPT ![q] = k] /\ connection' = Holding(i, h)
    BY <2>1 DEF Holding
  <2> HIDE DEF h, k
  <2>5. /\ request' \in Seq(RequestRecord) /\ DOMAIN request' = DOMAIN request
        /\ request'[q] = k /\ \A r \in DOMAIN request \ {q} : request'[r] = request[r]
    BY <1>1, <2>3, <2>4, RequestBecomes
  <2>6. /\ Fades(connection') /\ connection'[i].holds = h
        /\ \A j \in Connections : connection'[j].closed = connection[j].closed
                                  /\ connection'[j].lost = connection[j].lost
        /\ \A j \in Connections \ {i} : connection'[j] = connection[j]
    BY <1>1, <2>2, <2>4, HoldingFades
  <2>7. RequestsGrow(request')
    BY <2>1, <2>3, <2>5 DEF RequestsGrow
  <2>8. ASSUME NEW r \in DOMAIN request PROVE RequestKept(r)'
    <3>1. RequestKept(r) /\ Connections' = Connections /\ r # 0
      BY <1>1, <2>6 DEF ConnectionsInv, Fades, Connections
    <3>2. CASE r = q
      <4>1. /\ request'[r].conn = i /\ request'[r].item = request[r].item
            /\ request[r].item \notin {"reply", "refusal"}
            /\ request[r].item = "error" => connection[i].closed /\ connection[i].lost
        BY <2>1, <2>3, <2>5, <3>1, <3>2 DEF RequestKept
      <4>2. connection'[i].closed = connection[i].closed /\ connection'[i].lost = connection[i].lost
        BY <2>6
      <4> QED BY <3>1, <4>1, <4>2 DEF RequestKept
    <3>3. CASE r # q
      BY <2>2, <2>5, <2>6, <3>1, <3>3 DEF RequestKept
    <3> QED BY <3>2, <3>3
  <2>9. \A j \in Connections :
          \/ connection'[j].holds = connection[j].holds
          \/ LET o == connection'[j].holds IN
               o # 0 => o \in DOMAIN request' /\ request'[o].conn = j /\ request'[o].answered
    BY <2>2, <2>3, <2>5, <2>6
  <2>10. gate' = gate
    BY <1>5 DEF TakeReply, ledgerVars
  <2>11. CloserWorks'
    BY <1>3, <1>4, <2>6, <2>10, CloserKept
  <2>12. \A j \in Connections :
           connection'[j].closed \/ connection'[j].lost => gate'.unknown
    BY <1>2, <2>6, <2>10
  <2> QED
    BY <1>1, <1>3, <2>5, <2>6, <2>7, <2>8, <2>9, <2>10, <2>11, <2>12, DoubtTold, WorkersMove
<1>6. CASE PutReply(i)
  <2> DEFINE q == connection[i].holds
  <2>1. PICK item \in {"reply", "refusal"} : request' = [request EXCEPT ![q].item = item]
    BY <1>6 DEF PutReply
  <2>2. /\ q # 0 /\ request[q].item = "none" /\ q \in DOMAIN request /\ request[q].conn = i
        /\ request[q].answered /\ connection' = Holding(i, 0)
        /\ gate' = gate
    BY <1>1, <1>6 DEF PutReply, ConnectionKept, ledgerVars, Holding
  <2> HIDE DEF q
  <2> DEFINE k == [request[q] EXCEPT !.item = item]
  <2>3. /\ k \in RequestRecord /\ k.conn = i /\ k.item = item /\ k.answered
    BY <1>1, <2>2 DEF RequestRecord
  <2>4. request' = [request EXCEPT ![q] = k]
    BY <2>1
  <2> HIDE DEF k
  <2>5. /\ request' \in Seq(RequestRecord) /\ DOMAIN request' = DOMAIN request
        /\ request'[q] = k /\ \A r \in DOMAIN request \ {q} : request'[r] = request[r]
    BY <1>1, <2>2, <2>3, <2>4, RequestBecomes
  <2>6. /\ Fades(connection') /\ connection'[i].holds = 0
        /\ \A j \in Connections : connection'[j].closed = connection[j].closed
                                  /\ connection'[j].lost = connection[j].lost
        /\ \A j \in Connections \ {i} : connection'[j] = connection[j]
    BY <1>1, <2>2, HoldingFades
  <2>7. RequestsGrow(request')
    BY <2>2, <2>3, <2>5 DEF RequestsGrow
  <2>8. ASSUME NEW r \in DOMAIN request PROVE RequestKept(r)'
    <3>1. RequestKept(r) /\ Connections' = Connections /\ r # 0
      BY <1>1, <2>6 DEF ConnectionsInv, Fades, Connections
    <3>2. CASE r = q
      BY <2>2, <2>3, <2>5, <2>6, <3>1, <3>2 DEF RequestKept
    <3>3. CASE r # q
      BY <2>5, <2>6, <3>1, <3>3 DEF RequestKept
    <3> QED BY <3>2, <3>3
  <2>9. \A j \in Connections :
          connection'[j].holds = connection[j].holds \/ connection'[j].holds = 0
    BY <2>6
  <2>10. CloserWorks'
    BY <1>3, <1>4, <2>2, <2>6, CloserKept
  <2>11. \A j \in Connections :
           connection'[j].closed \/ connection'[j].lost => gate'.unknown
    BY <1>2, <2>2, <2>6
  <2> QED
    BY <1>1, <1>3, <2>2, <2>5, <2>6, <2>7, <2>8, <2>9, <2>10, <2>11, DoubtTold, WorkersMove
<1>7. CASE MarkClosed(i)
  <2>1. /\ connection' = [connection EXCEPT ![i].closed = TRUE, ![i].lost = TRUE,
                                            ![i].reader = "ended"]
        /\ connection[i].peer # "running" \/ connection[i].signal = "kill"
        /\ request' = FailWaiters(WaitersOf(i)) /\ gate' = GateLost
    BY <1>7 DEF MarkClosed, MarkedGate
  <2>2. /\ Fades(connection') /\ Only(i, connection')
        /\ connection'[i].closed /\ connection'[i].lost
    BY <1>1, <2>1, MarkedFades
  <2>3. \A j \in Connections : connection'[j].holds = connection[j].holds
    BY <2>2, LostFlags
  <2>4. RequestsGrow(request') /\ \A q \in DOMAIN request' : RequestKept(q)'
    BY <2>1, <2>2, <2>3, FailedKept
  <2>5. CloserWorks'
    BY <1>3, <1>4, <2>1, <2>2, DoubtTold, CloserKept
  <2> QED BY <1>1, <1>3, <2>1, <2>2, <2>3, <2>4, <2>5, DoubtTold, WorkersMove
<1>8. CASE WorkerChanges(i)
  <2>1. PICK peer \in {"mute", "gone"} :
          /\ connection' = [connection EXCEPT ![i].peer = peer]
          /\ peer = "mute" => connection[i].peer = "running"
    BY <1>8 DEF WorkerChanges
  <2>2. request' = request /\ gate' = gate
    BY <1>8 DEF WorkerChanges, ledgerVars
  <2>3. /\ Fades(connection') /\ Only(i, connection')
        /\ \A j \in Connections : connection'[j].closed = connection[j].closed
                                  /\ connection'[j].lost = connection[j].lost
    BY <1>1, <2>1, PeerFades
  <2>4. \A j \in Connections : connection'[j].holds = connection[j].holds
    BY <2>3, LostFlags
  <2>5. RequestsGrow(request') /\ \A q \in DOMAIN request' : RequestKept(q)'
    BY <2>2, <2>3, <2>4, NothingFades, RequestsKept
  <2>6. CloserWorks'
    BY <1>3, <1>4, <2>2, <2>3, CloserKept
  <2>7. \A j \in Connections :
          connection'[j].closed \/ connection'[j].lost => gate'.unknown
    BY <1>2, <2>2, <2>3
  <2> QED BY <1>1, <1>3, <2>2, <2>3, <2>4, <2>5, <2>6, <2>7, DoubtTold, WorkersMove
<1> QED BY <1>5, <1>6, <1>7, <1>8

\* The closer, and what else may happen to the controller.
LEMMA DriftKept ==
  ASSUME ConnectionsInv, Drift
  PROVE  ConnectionsInv'
<1>1. /\ UNCHANGED <<ownerVars, call, mode, stopped>> /\ shutdown' = shutdown
      /\ drifted' = TRUE /\ connection' = connection /\ request' = request /\ gate' = gate
      /\ current' = current
  BY DEF Drift, ownerVars
<1>2. Fades(connection') /\ RequestsGrow(request')
  BY <1>1, NothingFades
<1>3. /\ \A q \in DOMAIN request' : RequestKept(q)'
      /\ \A j \in Connections : connection'[j].closed \/ connection'[j].lost => gate'.unknown
  BY <1>1 DEF ConnectionsInv, RequestKept, ConnectionKept, Connections
<1>4. CloserWorks'
  BY <1>1, <1>2, CloserKept
<1>5. shutdown \in ShutdownRecord
  BY DEF ConnectionsInv, OwnerTypes
<1> QED BY <1>1, <1>2, <1>3, <1>4, <1>5, DoubtTold, WorkersMove

\* Steps of the closer that change nothing but its own state.
LEMMA ClosingFacts ==
  ASSUME ConnectionsInv, connection' = connection, request' = request, call' = call,
         mode' = mode, gate'.unknown = gate.unknown
  PROVE  /\ RecordTypes' /\ Connections' = Connections
         /\ \A q \in DOMAIN request' : RequestKept(q)'
         /\ OneWorkerPerPlace'
         /\ \A i \in Connections : Unstopped(i)' = Unstopped(i) /\ Alive(i)' = Alive(i)
         /\ \A i \in Connections : BeingCreated(i)' = BeingCreated(i)
<1>1. /\ Connections' = Connections
      /\ \A i \in Connections : Unstopped(i)' = Unstopped(i) /\ Alive(i)' = Alive(i)
  BY DEF Connections, Unstopped, Alive
<1>2. RecordTypes'
  BY DEF ConnectionsInv, RecordTypes
<1>3. \A q \in DOMAIN request' : RequestKept(q)'
  BY <1>1 DEF ConnectionsInv, RequestKept
<1>4. OneWorkerPerPlace'
  BY <1>1 DEF ConnectionsInv, OneWorkerPerPlace
<1>5. \A i \in Connections : BeingCreated(i)' = BeingCreated(i)
  BY DEF BeingCreated
<1> QED BY <1>1, <1>2, <1>3, <1>4, <1>5

LEMMA StoppingKept ==
  ASSUME ConnectionsInv, StopController
  PROVE  ConnectionsInv'
<1> DEFINE s == [shutdown EXCEPT !.step = "locking"]
           g == [gate EXCEPT !.closed = TRUE]
<1>1. /\ shutdown.step = "open" /\ gate' = g /\ stopped' = TRUE /\ shutdown' = s
      /\ mode' = mode /\ drifted' = drifted /\ appLock' = appLock /\ current' = current
      /\ owned' = owned /\ connection' = connection /\ request' = request /\ call' = call
  BY DEF StopController, ownerVars
<1>2. /\ s \in ShutdownRecord /\ s.step = "locking"
      /\ g \in [closed : BOOLEAN, unknown : BOOLEAN] /\ g.unknown = gate.unknown
  BY DEF ConnectionsInv, OwnerTypes, ShutdownRecord
<1> HIDE DEF s, g
<1>3. /\ RecordTypes' /\ Connections' = Connections
      /\ \A q \in DOMAIN request' : RequestKept(q)'
      /\ OneWorkerPerPlace'
      /\ \A i \in Connections : Unstopped(i)' = Unstopped(i) /\ Alive(i)' = Alive(i)
      /\ \A i \in Connections : BeingCreated(i)' = BeingCreated(i)
  BY <1>1, <1>2, ClosingFacts
<1>4. OwnerTypes'
  BY <1>1, <1>2, <1>3 DEF ConnectionsInv, OwnerTypes
<1>5. LockHeld' /\ AfterLock' /\ CloserWorks' /\ NothingSurvivesClose'
  BY <1>1, <1>2 DEF ConnectionsInv, LockHeld, AfterLock, CloserWorks, NothingSurvivesClose
<1>6. \A u \in Users : CallKnows(u)'
  BY <1>1, <1>2, <1>3 DEF ConnectionsInv, CallKnows, Conn
<1>7. \A p \in Places : PlaceKept(p)'
  BY <1>1, <1>3 DEF ConnectionsInv, PlaceKept, Bound
<1>8. ASSUME NEW i \in Connections PROVE ConnectionKept(i)'
  <2>1. ConnectionKept(i) /\ Creating(i)' = Creating(i)
    BY <1>1 DEF ConnectionsInv, Creating
  <2> QED BY <1>1, <1>2, <1>3, <2>1 DEF ConnectionKept
<1> QED BY <1>3, <1>4, <1>5, <1>6, <1>7, <1>8 DEF ConnectionsInv

\* The lock was free, so nothing is being created: every child is the one of its place.
LEMMA LockingKept ==
  ASSUME ConnectionsInv, CloserLocks
  PROVE  ConnectionsInv'
<1> DEFINE left == IF Bound THEN owned ELSE {current[p] : p \in Places} \ {0}
           s == [shutdown EXCEPT !.step = "closing", !.left = left]
<1>1. /\ shutdown.step = "locking" /\ appLock = NoUser /\ appLock' = Closer /\ shutdown' = s
      /\ gate' = gate /\ stopped' = stopped /\ mode' = mode /\ drifted' = drifted
      /\ current' = current /\ owned' = owned
      /\ connection' = connection /\ request' = request /\ call' = call
  BY DEF CloserLocks, LockFree
<1>2. left \subseteq Connections /\ left \subseteq Nat
  BY DEF ConnectionsInv, OwnerTypes, RecordTypes, PlaceKept, Connections
<1>3. \A p \in Places : current[p] # 0 => current[p] \in left
  BY DEF ConnectionsInv, PlaceKept
<1> HIDE DEF left
<1>4. s \in ShutdownRecord /\ s.step = "closing" /\ s.left = left
  BY <1>2 DEF ConnectionsInv, OwnerTypes, ShutdownRecord
<1> HIDE DEF s
<1>5. /\ RecordTypes' /\ Connections' = Connections
      /\ \A q \in DOMAIN request' : RequestKept(q)'
      /\ OneWorkerPerPlace'
      /\ \A i \in Connections : Unstopped(i)' = Unstopped(i) /\ Alive(i)' = Alive(i)
      /\ \A i \in Connections : BeingCreated(i)' = BeingCreated(i)
  BY <1>1, ClosingFacts
<1>6. OwnerTypes'
  BY <1>1, <1>4, <1>5 DEF ConnectionsInv, OwnerTypes
<1>7. \A u \in Users : appLock # u /\ appLock' # u
  BY <1>1, ConnectionsAssumption
<1>8. \A i \in Connections : ~ Creating(i)
  BY <1>7 DEF Creating
<1>9. LockHeld' /\ AfterLock' /\ NothingSurvivesClose'
  BY <1>1, <1>4, <1>7 DEF ConnectionsInv, LockHeld, AfterLock, NothingSurvivesClose
<1>10. CloserWorks'
  <2>1. ASSUME NEW i \in Connections, Unstopped(i) PROVE i \in left
    <3>1. connection[i].place \in Places /\ current[connection[i].place] = i /\ i # 0
      BY <1>1, <1>8, <2>1, ConnectionIs
      DEF ConnectionsInv, ConnectionKept, RecordTypes, ConnectionRecord, Connections
    <3> QED BY <1>3, <3>1
  <2> QED BY <1>1, <1>2, <1>3, <1>4, <1>5, <2>1 DEF CloserWorks
<1>11. \A u \in Users : CallKnows(u)'
  BY <1>1, <1>5, <1>7 DEF ConnectionsInv, CallKnows, Conn
<1>12. \A p \in Places : PlaceKept(p)'
  BY <1>1, <1>5 DEF ConnectionsInv, PlaceKept, Bound
<1>13. ASSUME NEW i \in Connections PROVE ConnectionKept(i)'
  <2>1. ConnectionKept(i) /\ ~ Creating(i)
    BY <1>8 DEF ConnectionsInv
  <2> QED BY <1>1, <1>4, <1>5, <2>1 DEF ConnectionKept
<1> QED BY <1>5, <1>6, <1>9, <1>10, <1>11, <1>12, <1>13 DEF ConnectionsInv

LEMMA ClosingAppKept ==
  ASSUME ConnectionsInv, NEW i \in Connections, CloseApp(i)
  PROVE  ConnectionsInv'
<1>1. /\ request \in Seq(RequestRecord) /\ connection \in Seq(ConnectionRecord)
      /\ shutdown \in ShutdownRecord /\ drifted \in BOOLEAN /\ i \in Nat
  BY DEF ConnectionsInv, RecordTypes, OwnerTypes, Connections
<1>2. /\ UNCHANGED <<ownerVars, call, mode, stopped>> /\ drifted' = drifted
      /\ current' = current /\ mode' = mode
      /\ gate' = GateLost /\ shutdown.step = "closing" /\ i \in shutdown.left
  BY DEF CloseApp, ownerVars
<1>3. /\ Fades(connection') /\ Only(i, connection')
      /\ RequestsGrow(request') /\ \A q \in DOMAIN request' : RequestKept(q)'
  <2>1. CASE connection[i].closed /\ ~ Bound
    <3>1. connection' = Lose(i) /\ request' = request
      BY <2>1 DEF CloseApp
    <3>2. Fades(connection') /\ Only(i, connection')
      BY <1>1, <3>1, LoseFades
    <3> QED BY <3>1, <3>2, LostFlags, NothingFades, RequestsKept
  <2>2. CASE ~ (connection[i].closed /\ ~ Bound)
    <3>1. connection' = EndWorker(i) /\ request' = FailWaiters(WaitersOf(i))
      BY <2>2 DEF CloseApp
    <3>2. /\ Fades(connection') /\ Only(i, connection')
          /\ connection'[i].closed /\ connection'[i].lost
      BY <1>1, <3>1, EndWorkerFades
    <3> QED BY <3>1, <3>2, LostFlags, FailedKept
  <2> QED BY <2>1, <2>2
<1>4. Unstopped(i)' => ~ Bound /\ connection'[i].peer = "mute" /\ connection'[i].closed
  <2>1. CASE connection[i].closed /\ ~ Bound
    <3>1. connection'[i].closed
      BY <1>3, <2>1 DEF Fades
    <3>2. Unstopped(i)' => connection[i].peer = "mute"
      <4>1. Unstopped(i)' => Unstopped(i)
        BY <1>1, <1>3, ConnectionIs DEF Fades, Unstopped, Alive, ConnectionRecord
      <4> QED BY <2>1, <4>1 DEF ConnectionsInv, ConnectionKept
    <3>3. Unstopped(i)' /\ connection[i].peer = "mute" => connection'[i].peer = "mute"
      BY <1>3 DEF Fades, Unstopped, Alive
    <3> QED BY <2>1, <3>1, <3>2, <3>3
  <2>2. CASE ~ (connection[i].closed /\ ~ Bound)
    <3>1. connection' = EndWorker(i)
      BY <2>2 DEF CloseApp
    <3> QED BY <1>1, <3>1, EndWorkerFades DEF Unstopped, Alive
  <2> QED BY <2>1, <2>2
<1>5. /\ shutdown' \in ShutdownRecord /\ shutdown'.step \in {"closing", "waiting"}
      /\ shutdown'.left = shutdown.left \ {i}
      /\ shutdown'.step = "waiting" => shutdown'.at = i
  <2>1. CASE connection[i].closed /\ ~ Bound
    <3>1. shutdown' = [shutdown EXCEPT !.left = shutdown.left \ {i}]
      BY <2>1 DEF CloseApp
    <3> QED BY <1>1, <1>2, <3>1 DEF ShutdownRecord
  <2>2. CASE ~ (connection[i].closed /\ ~ Bound)
    <3>1. shutdown' = [shutdown EXCEPT !.left = shutdown.left \ {i}, !.step = "waiting", !.at = i]
      BY <2>2 DEF CloseApp
    <3> QED BY <1>1, <3>1 DEF ShutdownRecord
  <2> QED BY <2>1, <2>2
<1>6. CloserWorks'
  <2>1. Connections' = Connections
    BY <1>3 DEF Fades, Connections
  <2>2. \A j \in Connections :
          connection[j] \in ConnectionRecord /\ connection'[j] \in ConnectionRecord
    BY <1>1, <1>3, ConnectionIs DEF Fades, Connections
  <2>3. \A j \in Connections :
          /\ Unstopped(j)' => Unstopped(j)
          /\ Unstopped(j)' /\ connection[j].peer = "mute" => connection'[j].peer = "mute"
          /\ connection[j].closed => connection'[j].closed
    BY <1>3, <2>2 DEF Fades, Unstopped, Alive, ConnectionRecord
  <2>4. \A j \in Connections \ shutdown.left :
          Unstopped(j) => ~ Bound /\ connection[j].peer = "mute" /\ connection[j].closed
    BY <1>2 DEF ConnectionsInv, CloserWorks
  <2>5. \A j \in Connections \ shutdown'.left :
          Unstopped(j)' => ~ Bound /\ connection'[j].peer = "mute" /\ connection'[j].closed
    BY <1>4, <1>5, <2>3, <2>4
  <2>6. shutdown'.left \subseteq Connections
    BY <1>2, <1>5 DEF ConnectionsInv, CloserWorks
  <2> QED BY <1>2, <1>5, <2>1, <2>5, <2>6, DoubtTold DEF CloserWorks, Bound
<1>7. \A j \in Connections : connection'[j].holds = connection[j].holds
  BY <1>3, LostFlags
<1>8. {shutdown.step, shutdown'.step} \subseteq {"closing", "waiting"}
  BY <1>2, <1>5
<1> QED BY <1>1, <1>2, <1>3, <1>5, <1>6, <1>7, <1>8, DoubtTold, WorkersMove

LEMMA WaitingKept ==
  ASSUME ConnectionsInv, CloserWaits
  PROVE  ConnectionsInv'
<1> DEFINE i == shutdown.at
           s == [shutdown EXCEPT !.step = "closing", !.at = 0]
<1>1. /\ request \in Seq(RequestRecord) /\ connection \in Seq(ConnectionRecord)
      /\ shutdown \in ShutdownRecord /\ drifted \in BOOLEAN
  BY DEF ConnectionsInv, RecordTypes, OwnerTypes
<1>2. /\ UNCHANGED <<ownerVars, call, mode, stopped>> /\ drifted' = drifted
      /\ current' = current /\ mode' = mode /\ gate' = gate /\ request' = request
      /\ shutdown.step = "waiting" /\ i \in Connections
      /\ connection' = KillWorker(i) /\ shutdown' = s
  BY DEF CloserWaits, ownerVars, ConnectionsInv, CloserWorks
<1>3. /\ s \in ShutdownRecord /\ s.step = "closing" /\ s.left = shutdown.left
  BY <1>1 DEF ShutdownRecord
<1> HIDE DEF s, i
<1>4. /\ Fades(connection') /\ Only(i, connection')
      /\ connection'[i].closed = connection[i].closed
      /\ connection'[i].lost = connection[i].lost
  BY <1>1, <1>2, KillWorkerFades
<1>5. \A j \in Connections : connection'[j].holds = connection[j].holds
  BY <1>2, <1>4, LostFlags
<1>6. RequestsGrow(request') /\ \A q \in DOMAIN request' : RequestKept(q)'
  BY <1>2, <1>4, <1>5, NothingFades, RequestsKept
<1>7. \A j \in Connections : connection'[j].closed \/ connection'[j].lost => gate'.unknown
  BY <1>2, <1>4 DEF ConnectionsInv, ConnectionKept, Only
<1>8. CloserWorks'
  <2>1. Connections' = Connections
    BY <1>4 DEF Fades, Connections
  <2>2. \A j \in Connections :
          connection[j] \in ConnectionRecord /\ connection'[j] \in ConnectionRecord
    BY <1>1, <1>4, ConnectionIs DEF Fades, Connections
  <2>3. \A j \in Connections :
          /\ Unstopped(j)' => Unstopped(j)
          /\ Unstopped(j)' /\ connection[j].peer = "mute" => connection'[j].peer = "mute"
          /\ connection[j].closed => connection'[j].closed
    BY <1>4, <2>2 DEF Fades, Unstopped, Alive, ConnectionRecord
  <2> QED BY <1>2, <1>3, <2>1, <2>3 DEF ConnectionsInv, CloserWorks, Bound
<1>9. {shutdown.step, shutdown'.step} \subseteq {"closing", "waiting"}
  BY <1>2, <1>3
<1> QED
  BY <1>1, <1>2, <1>3, <1>4, <1>5, <1>6, <1>7, <1>8, <1>9, DoubtTold, WorkersMove

\* Everything the ledger counts on was closed before the closer lets go of it.
LEMMA ClosedKept ==
  ASSUME ConnectionsInv, ControllerCloses
  PROVE  ConnectionsInv'
<1> DEFINE s == [shutdown EXCEPT !.step = "closed"]
<1>1. /\ shutdown.step = "closing" /\ shutdown.left = {} /\ shutdown' = s
      /\ current' = [p \in Places |-> 0] /\ owned' = {}
      /\ appLock = Closer /\ appLock' = NoUser
      /\ gate' = gate /\ stopped' = stopped /\ mode' = mode /\ drifted' = drifted
      /\ connection' = connection /\ request' = request /\ call' = call
  BY DEF ControllerCloses, ConnectionsInv, LockHeld
<1>2. s \in ShutdownRecord /\ s.step = "closed"
  BY DEF ConnectionsInv, OwnerTypes, ShutdownRecord
<1> HIDE DEF s
<1>3. /\ RecordTypes' /\ Connections' = Connections
      /\ \A q \in DOMAIN request' : RequestKept(q)'
      /\ OneWorkerPerPlace'
      /\ \A i \in Connections : Unstopped(i)' = Unstopped(i) /\ Alive(i)' = Alive(i)
      /\ \A i \in Connections : BeingCreated(i)' = BeingCreated(i)
  BY <1>1, ClosingFacts
<1>4. OwnerTypes'
  BY <1>1, <1>2, <1>3 DEF ConnectionsInv, OwnerTypes
<1>5. \A u \in Users : appLock # u /\ appLock' # u
  BY <1>1, ConnectionsAssumption
<1>6. LockHeld' /\ AfterLock' /\ CloserWorks'
  BY <1>1, <1>2, <1>5, ConnectionsAssumption DEF ConnectionsInv, LockHeld, AfterLock, CloserWorks
<1>7. NothingSurvivesClose'
  BY <1>1, <1>3 DEF ConnectionsInv, CloserWorks, NothingSurvivesClose, Bound
<1>8. \A u \in Users : CallKnows(u)'
  BY <1>1, <1>3, <1>5 DEF ConnectionsInv, CallKnows, Conn
<1>9. \A p \in Places : PlaceKept(p)'
  BY <1>1 DEF PlaceKept
<1>10. ASSUME NEW i \in Connections PROVE ConnectionKept(i)'
  <2>1. ConnectionKept(i) /\ connection[i].place \in Places /\ i # 0
    BY ConnectionIs DEF ConnectionsInv, RecordTypes, ConnectionRecord, Connections
  <2>2. ~ gate.unknown => current[connection[i].place] = 0
    BY <1>1, <2>1 DEF ConnectionsInv, CloserWorks
  <2> QED BY <1>1, <1>2, <1>3, <2>1, <2>2 DEF ConnectionKept
<1> QED BY <1>3, <1>4, <1>6, <1>7, <1>8, <1>9, <1>10 DEF ConnectionsInv

LEMMA ConnectionsInitially == ConnectionsInit => ConnectionsInv
<1> SUFFICES ASSUME ConnectionsInit PROVE ConnectionsInv
  OBVIOUS
<1>1. NoCall \in CallRecord /\ NoCall.step = "idle"
  BY ConnectionsAssumption DEF NoCall, CallRecord
<1>2. Connections = {} /\ DOMAIN request = {}
  BY DEF ConnectionsInit, Connections
<1>3. RecordTypes
  BY <1>1 DEF ConnectionsInit, RecordTypes
<1>4. OwnerTypes
  BY <1>2 DEF ConnectionsInit, OwnerTypes, ShutdownRecord
<1>5. \A u \in Users : call[u].step = "idle" /\ appLock # u
  BY <1>1, ConnectionsAssumption DEF ConnectionsInit
<1>6. LockHeld /\ AfterLock /\ CloserWorks /\ NothingSurvivesClose
  BY <1>5, ConnectionsAssumption
  DEF ConnectionsInit, LockHeld, AfterLock, CloserWorks, NothingSurvivesClose
<1>7. /\ \A u \in Users : CallKnows(u)
      /\ \A p \in Places : PlaceKept(p)
  BY <1>5 DEF ConnectionsInit, CallKnows, PlaceKept
<1> QED BY <1>2, <1>3, <1>4, <1>6, <1>7 DEF ConnectionsInv, OneWorkerPerPlace

LEMMA ConnectionsPreserved ==
  ASSUME ConnectionsInv, [ConnectionsNext]_connectionsVars
  PROVE  ConnectionsInv'
<1>1. ASSUME NEW u \in Users, UserStep(u) PROVE ConnectionsInv'
  BY <1>1, CallingKept, AskFailsKept, ExpiringKept, CleaningKept, CreationFailsKept, AskingKept,
     LaunchingKept, PublishingKept
  DEF UserStep, UnderLock
<1>2. ASSUME NEW i \in Connections,
             TakeReply(i) \/ PutReply(i) \/ MarkClosed(i) \/ WorkerChanges(i)
      PROVE  ConnectionsInv'
  BY <1>2, ReadingKept
<1>3. CASE Drift \/ StopController \/ CloserStep
  BY <1>3, DriftKept, StoppingKept, LockingKept, ClosingAppKept, WaitingKept, ClosedKept
  DEF CloserStep
<1>4. CASE UNCHANGED connectionsVars
  BY <1>4 DEF connectionsVars, ConnectionsInv, OwnerTypes, RecordTypes, LockHeld, AfterLock,
              CallKnows, PlaceKept, ConnectionKept, RequestKept, CloserWorks, OneWorkerPerPlace,
              NothingSurvivesClose, Connections, Conn, Unstopped, Alive, Creating, BeingCreated,
              Bound
<1> QED BY <1>1, <1>2, <1>3, <1>4 DEF ConnectionsNext

LEMMA ConnectionsStaySound ==
  ConnectionsInit /\ [][ConnectionsNext]_connectionsVars => []ConnectionsSound
<1>1. ConnectionsInit => ConnectionsInv
  BY ConnectionsInitially
<1>2. ConnectionsInv /\ [ConnectionsNext]_connectionsVars => ConnectionsInv'
  BY ConnectionsPreserved
<1>3. ConnectionsInv => ConnectionsSound
  <2> SUFFICES ASSUME ConnectionsInv PROVE ConnectionsSound
    OBVIOUS
  <2>1. QuietIsAccounted
    BY DEF ConnectionsInv, ConnectionKept, QuietIsAccounted
  <2>2. StuckReaderIsClosed
    <3> SUFFICES ASSUME NEW i \in Connections, Stuck(i)
                 PROVE  connection[i].closed /\ connection[i].lost /\ gate.unknown
      BY DEF StuckReaderIsClosed
    <3> DEFINE q == connection[i].holds
    <3>1. /\ q \in DOMAIN request /\ request[q].conn = i /\ request[q].item # "none"
          /\ request[q] \in RequestRecord
      BY DEF ConnectionsInv, ConnectionKept, Stuck, RecordTypes
    <3>2. RequestKept(q) /\ ConnectionKept(i)
      BY <3>1 DEF ConnectionsInv
    <3>3. request[q].item = "error"
      BY <3>1, <3>2 DEF RequestKept, RequestRecord
    <3> QED BY <3>1, <3>2, <3>3 DEF RequestKept, ConnectionKept
  <2> QED BY <2>1, <2>2 DEF ConnectionsInv, ConnectionsSound
<1> QED BY <1>1, <1>2, <1>3, PTL

\* However calls, readers, workers and the shutdown interleave: a quiet ledger means that
\* every living worker is one the controller uses or creates; a reader that waits for ever
\* is one of a connection whose loss was told; in one place one child works at a time; and
\* when close() has returned, no child is left that was not told to end, but for one that
\* had ended its own output before (controller.py _get_app() and close(),
\* codex_app_server.py _mark_closed() and close()).
THEOREM ConnectionsAreSound == ConnectionsSpec => []ConnectionsSound
  BY ConnectionsStaySound, PTL DEF ConnectionsSpec

-----------------------------------------------------------------------------
(***************************************************************************)
(* Side by side: the subjects share no variable, so a behaviour of all is  *)
(* one of each.                                                            *)
(***************************************************************************)
LEMMA SubjectsApart ==
  ASSUME [WorkersNext]_workersVars
  PROVE  [ApprovalNext]_allVars /\ [ConnectionsNext]_connectionsVars /\ [PolicyNext]_policyVars
  BY DEF WorkersNext, workersVars

LEMMA SubjectsBehave ==
  WorkersSpec => /\ ApprovalSpec /\ PolicySpec
                 /\ ConnectionsInit /\ [][ConnectionsNext]_connectionsVars
<1>1. WorkersInit => ApprovalInit /\ ConnectionsInit /\ PolicyInit
  BY DEF WorkersInit
<1>2. [WorkersNext]_workersVars =>
        [ApprovalNext]_allVars /\ [ConnectionsNext]_connectionsVars /\ [PolicyNext]_policyVars
  BY SubjectsApart
<1> QED
  BY <1>1, <1>2, PTL DEF WorkersSpec, ApprovalSpec, PolicySpec

\* Beside each other: the worker hears what people granted, as was promised, a quiet ledger
\* accounts for every living worker, and no call goes to a thread that is not as the
\* controller asked for it.
THEOREM WorkersAreSound ==
  WorkersSpec => /\ [](AnswersFaithful /\ ConnectionsSound)
                 /\ PolicyKept /\ ImplementsPromise
  BY SubjectsBehave, WorkerHearsPeople, PromiseImplemented, ConnectionsStaySound,
     ThreadsKeepPolicy, PTL

=============================================================================
