--------------------------- MODULE ManagedStartup ---------------------------
(***************************************************************************)
(* One disposable start of a managed Bridge: probe_disposable of           *)
(* upgrade/startup_managed.py with the challenge of startup_protocol and   *)
(* the framed pipes of startup_channel.                                    *)
(*                                                                         *)
(* The supervisor reserves the listener, starts the child of a prepared    *)
(* runtime with the listener and two pipes, challenges it, checks the one  *)
(* reply, has a helper list the tools over the wire, and then stops both   *)
(* and reports.  The child, the helper, whoever cancels, and whoever       *)
(* rewrites the runtime on disk go on meanwhile; both processes may die,   *)
(* hang or ignore a signal.  The listener is one socket of two processes:  *)
(* it stays in the listening state when the child is gone.                 *)
(***************************************************************************)
EXTENDS Naturals, FiniteSets

CONSTANTS
  RuntimeBound,   \* how often the runtime on disk is rewritten
  NoReply,        \* nothing complete is in the reply's pipe
  Mismatch        \* a reply of another process, launch or configuration

ASSUME RuntimeBoundAssumption == RuntimeBound \in Nat
ASSUME ReplyAssumption == NoReply \notin Nat /\ Mismatch \notin Nat /\ NoReply # Mismatch

VARIABLES
  probeStep,    \* where probe_disposable is
  child,        \* "none", "booting", "challenged", "serving" or "gone"
  childExit,    \* how it ended: "", "clean", "unclean", "failed" or "killed"
  stopAsked,    \* it was sent SIGTERM or SIGINT
  challenge,    \* the pipe to it: "empty" or "sent"
  challengeUse, \* PendingStartupChallenge._state
  reply,        \* the pipe from it
  listener,     \* "none", "bound", "listening" or "closed"
  helper,       \* "none", "running" or "gone"
  helperExit,   \* "", "good", "bad" or "unclean"
  owned,        \* what the supervisor still holds
  late,         \* the deadline of the launch, then of the catalogue, is over
  cancelSet,    \* the caller's cancel event
  diskRuntime,  \* the version of the runtime on disk
  selected,     \* the version selected before the launch
  verified,     \* endpoint_catalog_verified
  probeError, cleanError, probeOk

processVars == <<child, childExit, stopAsked>>
wireVars == <<challenge, challengeUse, reply>>
helperVars == <<helper, helperExit>>
worldVars == <<late, cancelSet, diskRuntime>>
reportVars == <<verified, probeError, cleanError, probeOk>>
startupVars == <<probeStep, processVars, wireVars, listener, helperVars, owned,
                 worldVars, selected, reportVars>>

Resources == {"socket", "fixture", "pipes"}

StartupInit ==
  /\ probeStep = "idle"
  /\ child = "none" /\ childExit = "" /\ stopAsked = FALSE
  /\ challenge = "empty" /\ challengeUse = "none" /\ reply = NoReply
  /\ listener = "none"
  /\ helper = "none" /\ helperExit = ""
  /\ owned = {}
  /\ late = FALSE /\ cancelSet = FALSE /\ diskRuntime = 0
  /\ selected = 0
  /\ verified = FALSE /\ probeError = FALSE /\ cleanError = FALSE /\ probeOk = FALSE

Alive == child # "gone"

FaultyInBudget == ~cancelSet /\ Alive

\* _Budget.check and _check_budget, before every read, write and step.
InBudget == ~late /\ ~cancelSet /\ Alive

FaultyChildLives == TRUE

\* The listener's state says nothing of the child: is_alive is asked too.
ChildLives == Alive

\* Any failure ends the attempt; its challenge is never used again.
GiveUp(next) ==
  /\ probeStep' = next
  /\ probeError' = TRUE
  /\ UNCHANGED <<verified, cleanError, probeOk>>

-----------------------------------------------------------------------------
(* The supervisor.                                                         *)

\* The runtime is selected, the port bound and never released in between, the
\* configuration written to a directory of its own, and the pipes made.
Reserve ==
  /\ probeStep = "idle"
  /\ \E got \in {{}, {"socket"}, {"socket", "fixture"}, Resources} :
       /\ owned' = got
       /\ listener' = IF "socket" \in got THEN "bound" ELSE "none"
       /\ IF got = Resources /\ ~cancelSet
            THEN probeStep' = "launch" /\ UNCHANGED reportVars
            ELSE GiveUp("release")
  /\ selected' = diskRuntime
  /\ UNCHANGED <<processVars, wireVars, helperVars, worldVars>>

Launch ==
  /\ probeStep = "launch"
  /\ \/ /\ ~late /\ ~cancelSet
        /\ child' = "booting" /\ challengeUse' = "pending"
        /\ probeStep' = "challenge"
        /\ UNCHANGED reportVars
     \/ GiveUp("release") /\ UNCHANGED <<child, challengeUse>>
  /\ UNCHANGED <<childExit, stopAsked, challenge, reply, listener, helperVars, owned,
                 worldVars, selected>>

\* write_frame; a partial frame is never completed.
SendChallenge ==
  /\ probeStep = "challenge"
  /\ \/ /\ InBudget
        /\ challenge' = "sent" /\ challengeUse' = "awaiting_reply"
        /\ probeStep' = "reply"
        /\ UNCHANGED reportVars
     \/ /\ GiveUp("stopChild")
        /\ challengeUse' = "consumed"
        /\ UNCHANGED challenge
  /\ UNCHANGED <<processVars, reply, listener, helperVars, owned, worldVars, selected>>

FaultyReplyMatches == reply # NoReply

\* read_frame waits for the frame and the end of the pipe; finish compares.
ReplyMatches == reply = selected

TakeReply ==
  /\ probeStep = "reply"
  /\ challengeUse' = "consumed"
  /\ \/ /\ reply # NoReply /\ ReplyMatches /\ InBudget
        /\ listener = "listening"
        /\ probeStep' = "catalog"
        /\ UNCHANGED reportVars
     \/ /\ (~InBudget \/ (reply # NoReply /\ ~ReplyMatches))
        /\ GiveUp("stopChild")
  /\ UNCHANGED <<processVars, challenge, reply, listener, helperVars, owned, worldVars, selected>>

\* _probe_catalog, on a deadline of its own.
StartHelper ==
  /\ probeStep = "catalog"
  /\ \/ /\ ~cancelSet /\ Alive
        /\ helper' = "running" /\ late' = FALSE
        /\ probeStep' = "listing"
        /\ UNCHANGED reportVars
     \/ GiveUp("stopChild") /\ UNCHANGED <<helper, late>>
  /\ UNCHANGED <<processVars, wireVars, listener, helperExit, owned, cancelSet,
                 diskRuntime, selected>>

TakeListing ==
  /\ probeStep = "listing"
  /\ \/ /\ helper = "gone" /\ helperExit = "good" /\ InBudget
        /\ probeStep' = "recheck"
        /\ UNCHANGED reportVars
     \/ /\ helper = "gone" /\ helperExit # "good"
        /\ GiveUp("stopHelper")
     \/ /\ ~InBudget
        /\ GiveUp("stopHelper")
  /\ UNCHANGED <<processVars, wireVars, listener, helperVars, owned, worldVars, selected>>

\* SIGTERM, two seconds, SIGKILL, two seconds.
StopHelper ==
  /\ probeStep = "stopHelper"
  /\ probeStep' = "stopChild"
  /\ \/ /\ helper = "gone"
        /\ cleanError' = (cleanError \/ helperExit = "unclean")
        /\ UNCHANGED helperVars
     \/ /\ helper = "running"
        /\ helper' = "gone"
        /\ helperExit' \in {"bad", "unclean"}
        /\ cleanError' = (helperExit' = "unclean")
     \/ /\ helper = "running"       \* killed, and perhaps not reaped
        /\ cleanError' = TRUE
        /\ helper' \in {"running", "gone"}
        /\ UNCHANGED helperExit
  /\ UNCHANGED <<processVars, wireVars, listener, owned, worldVars, selected,
                 verified, probeError, probeOk>>

Recheck ==
  /\ probeStep = "recheck"
  /\ \/ /\ ~cancelSet /\ listener = "listening" /\ ChildLives
        /\ verified' = TRUE
        /\ probeStep' = "stopChild"
        /\ UNCHANGED <<probeError, cleanError, probeOk>>
     \/ /\ cancelSet \/ listener # "listening" \/ ~Alive
        /\ GiveUp("stopChild")
  /\ UNCHANGED <<processVars, wireVars, listener, helperVars, owned, worldVars, selected>>

\* A child that has ended by itself is an error, whatever its exit code says.
StopChild ==
  /\ probeStep = "stopChild"
  /\ challengeUse' = "consumed"
  /\ \/ /\ Alive
        /\ stopAsked' = TRUE
        /\ probeStep' = "reap"
        /\ UNCHANGED <<probeError, cleanError>>
     \/ /\ ~Alive
        /\ probeStep' = "release"
        /\ probeError' = TRUE
        /\ cleanError' = (cleanError \/ childExit = "unclean")
        /\ UNCHANGED stopAsked
  /\ UNCHANGED <<child, childExit, challenge, reply, listener, helperVars, owned,
                 worldVars, selected, verified, probeOk>>

\* The wait of four seconds, and SIGKILL when it was not enough.
Reap ==
  /\ probeStep = "reap"
  /\ probeStep' = "release"
  /\ \/ /\ ~Alive
        /\ probeError' = (probeError \/ childExit # "clean")
        /\ cleanError' = (cleanError \/ childExit = "unclean")
        /\ UNCHANGED <<child, childExit>>
     \/ /\ Alive
        /\ probeError' = TRUE /\ cleanError' = TRUE
        /\ \/ child' = "gone" /\ childExit' = "killed"
           \/ UNCHANGED <<child, childExit>>
  /\ UNCHANGED <<stopAsked, wireVars, listener, helperVars, owned, worldVars,
                 selected, verified, probeOk>>

\* Each of what is left is given back by itself.
Release ==
  /\ probeStep = "release"
  /\ probeStep' = "report"
  /\ \E kept \in SUBSET owned :
       /\ owned' = kept
       /\ cleanError' = (cleanError \/ kept # {})
       /\ listener' = IF listener = "none" \/ "socket" \in kept THEN listener ELSE "closed"
  /\ UNCHANGED <<processVars, wireVars, helperVars, worldVars, selected,
                 verified, probeError, probeOk>>

\* The runtime is selected again.
Drifted == diskRuntime # selected

Report ==
  /\ probeStep = "report"
  /\ probeStep' = "ended"
  /\ probeError' = (probeError \/ Drifted \/ cancelSet)
  /\ probeOk' = (~probeError' /\ ~cleanError /\ verified /\ childExit = "clean")
  /\ UNCHANGED <<processVars, wireVars, listener, helperVars, owned, worldVars,
                 selected, verified, cleanError>>

-----------------------------------------------------------------------------
(* The child: _child and _serve_child.                                     *)

ChildUnchanged ==
  UNCHANGED <<probeStep, challengeUse, helperVars, owned, worldVars, selected, reportVars>>

ChildReads ==
  /\ child = "booting"
  /\ challenge = "sent"
  /\ child' = "challenged"
  /\ UNCHANGED <<childExit, stopAsked, challenge, reply, listener>>
  /\ ChildUnchanged

\* The reply says what the child finds it runs from, once its server listens
\* on the inherited socket.
ChildServes ==
  /\ child = "challenged" /\ ~late
  /\ child' = "serving"
  /\ listener' = "listening"
  /\ reply' \in {diskRuntime, Mismatch}
  /\ UNCHANGED <<childExit, stopAsked, challenge>>
  /\ ChildUnchanged

ChildEnds ==
  /\ child \in {"booting", "challenged", "serving"}
  /\ child' = "gone"
  /\ childExit' \in (IF child = "serving" /\ stopAsked
                       THEN {"clean", "unclean", "failed"}
                       ELSE {"failed", "unclean"})
  /\ UNCHANGED <<stopAsked, challenge, reply, listener>>
  /\ ChildUnchanged

\* A terminal's interrupt reaches the child as well.
ForeignSignal ==
  /\ child \in {"booting", "challenged", "serving"}
  /\ ~stopAsked
  /\ stopAsked' = TRUE
  /\ UNCHANGED <<child, childExit, challenge, reply, listener>>
  /\ ChildUnchanged

\* The catalogue is only right when it was listed from a serving child.
HelperEnds ==
  /\ helper = "running"
  /\ helper' = "gone"
  /\ helperExit' \in (IF child = "serving" THEN {"good", "bad", "unclean"}
                                           ELSE {"bad", "unclean"})
  /\ UNCHANGED <<probeStep, processVars, wireVars, listener, owned, worldVars,
                 selected, reportVars>>

-----------------------------------------------------------------------------
DeadlinePasses ==
  /\ probeStep \in {"launch", "challenge", "reply", "listing"}
  /\ ~late
  /\ late' = TRUE
  /\ UNCHANGED <<probeStep, processVars, wireVars, listener, helperVars, owned,
                 cancelSet, diskRuntime, selected, reportVars>>

CancelProbe ==
  /\ ~cancelSet /\ probeStep # "ended"
  /\ cancelSet' = TRUE
  /\ UNCHANGED <<probeStep, processVars, wireVars, listener, helperVars, owned,
                 late, diskRuntime, selected, reportVars>>

RewriteRuntime ==
  /\ diskRuntime < RuntimeBound
  /\ diskRuntime' = diskRuntime + 1
  /\ UNCHANGED <<probeStep, processVars, wireVars, listener, helperVars, owned,
                 late, cancelSet, selected, reportVars>>

SupervisorStep ==
  \/ Reserve \/ Launch \/ SendChallenge \/ TakeReply
  \/ StartHelper \/ TakeListing \/ StopHelper \/ Recheck
  \/ StopChild \/ Reap \/ Release \/ Report

StartupNext ==
  \/ SupervisorStep
  \/ ChildReads \/ ChildServes \/ ChildEnds \/ ForeignSignal
  \/ HelperEnds
  \/ DeadlinePasses \/ CancelProbe \/ RewriteRuntime

\* Once begun, the supervisor runs and time passes; the child and the helper owe
\* nothing.
StartupFairness ==
  WF_startupVars(probeStep # "idle" /\ SupervisorStep) /\ WF_startupVars(DeadlinePasses)

StartupSpec == StartupInit /\ [][StartupNext]_startupVars /\ StartupFairness

-----------------------------------------------------------------------------
\* Types.
StartupTypeOK ==
  /\ probeStep \in {"idle", "launch", "challenge", "reply", "catalog", "listing",
                    "stopHelper", "recheck", "stopChild", "reap", "release",
                    "report", "ended"}
  /\ child \in {"none", "booting", "challenged", "serving", "gone"}
  /\ childExit \in {"", "clean", "unclean", "failed", "killed"}
  /\ {stopAsked, late, cancelSet, verified, probeError, cleanError, probeOk} \subseteq BOOLEAN
  /\ challenge \in {"empty", "sent"}
  /\ challengeUse \in {"none", "pending", "awaiting_reply", "consumed"}
  /\ reply \in {NoReply, Mismatch} \cup (0..RuntimeBound)
  /\ listener \in {"none", "bound", "listening", "closed"}
  /\ helper \in {"none", "running", "gone"}
  /\ helperExit \in {"", "good", "bad", "unclean"}
  /\ owned \subseteq Resources
  /\ {diskRuntime, selected} \subseteq 0..RuntimeBound

\* A report that is ok stands for one start from beginning to end: the reply
\* named the runtime that was selected, which was still on disk at the end; the
\* tools were listed from the serving child; the child closed its controller
\* when it was asked to and not before; and nothing is left.
OkMeansStarted ==
  probeOk => /\ reply = selected
             /\ helper = "gone" /\ helperExit = "good"
             /\ stopAsked /\ childExit = "clean"
             /\ owned = {}

\* Whatever went wrong, a report without a cleanup error leaves no process,
\* no socket, no pipe and no directory behind.
NothingLeftUnsaid ==
  (probeStep = "ended" /\ ~cleanError) =>
    /\ child \in {"none", "gone"} /\ helper \in {"none", "gone"}
    /\ owned = {} /\ listener \in {"none", "closed"}

\* What a report may be relied on for.
StartupSound == OkMeansStarted /\ NothingLeftUnsaid

\* A runtime that was rewritten during the probe is never reported ok; the
\* catalogue is believed only while the child that answered is there, for the
\* listener alone would not tell; and a challenge is used once.
StartupSteps ==
  [][ /\ (probeOk' /\ ~probeOk => diskRuntime' = selected)
      /\ (~verified /\ verified' => child = "serving")
      /\ (challengeUse = "consumed" => challengeUse' = "consumed")
    ]_startupVars

\* Every probe ends, whatever the child and the helper do.
ProbeEnds == (probeStep = "launch") ~> (probeStep = "ended")

=============================================================================
