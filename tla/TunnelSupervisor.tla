------------------------- MODULE TunnelSupervisor -------------------------
(***************************************************************************)
(* tunnel_lifecycle.py: the foreground supervision of a stdio tunnel.      *)
(* Owners are processes of the start and restart commands, Clients those   *)
(* of stop, and one configure command may change the saved settings.  They *)
(* share the lock files, the control sockets, the saved settings and the   *)
(* process groups of the runtimes, and any owner may be killed.            *)
(***************************************************************************)
EXTENDS Naturals, FiniteSets

CONSTANTS
  Owners,       \* processes of start and restart
  Restarters,   \* those of them that restart
  Clients,      \* processes of stop
  Profiles,     \* tunnel profiles
  TunnelOf,     \* the tunnel identity each profile names
  NoOwner        \* no process

\* The lock of a profile and that of a tunnel are files of different names.
ASSUME TunnelAssumption ==
  /\ Restarters \subseteq Owners
  /\ Owners \cap Clients = {}
  /\ NoOwner \notin Owners \cup Clients
  /\ Profiles \cap {TunnelOf[p] : p \in Profiles} = {}

VARIABLES
  owner,     \* owner -> where it stands, the profile it read
  group,     \* owner -> the process group it spawned last
  flock,     \* lock file -> the process that holds it
  endpoint,  \* profile -> the owner that bound its control socket file
  stopping,  \* process running stop() -> where it stands
  saved,     \* the profile the saved settings name
  setter     \* the configure command

tunnelVars == <<owner, group, flock, endpoint, stopping, saved, setter>>

Stoppers == Clients \cup Restarters
LockFiles == Profiles \cup {TunnelOf[p] : p \in Profiles}
HostProcesses == Owners \cup Clients

NoGroup == [kind |-> "none", leader |-> "none", rest |-> FALSE]
IdleStop == [step |-> "idle", profile |-> NoOwner, expected |-> NoOwner,
             target |-> NoOwner]

OwnerSteps == {"new", "stopping", "locking", "tunnelLocking", "doctor", "binding",
               "serving", "terminating", "grace", "closing", "releasing", "done",
               "killed"}

TunnelInit ==
  /\ owner = [o \in Owners |-> [step |-> "new", profile |-> NoOwner,
                                stop |-> FALSE, announced |-> FALSE]]
  /\ group = [o \in Owners |-> NoGroup]
  /\ flock = [l \in LockFiles |-> NoOwner]
  /\ endpoint = [p \in Profiles |-> NoOwner]
  /\ stopping = [c \in Stoppers |-> IdleStop]
  /\ saved \in Profiles
  /\ setter = "new"

At(o, step) == owner[o].step = step
Goto(o, step) == owner' = [owner EXCEPT ![o].step = step]
Ended(o) == owner[o].step \in {"done", "killed"}
Members(o) == group[o].leader = "alive" \/ group[o].rest
Runtime(o) == group[o].kind = "runtime" /\ Members(o)

\* control(): the owner whose accept loop answers on the profile's socket, or
\* nobody when the file is missing, stale, or the three seconds pass.
Replies(p) ==
  {NoOwner} \cup {o \in Owners : endpoint[p] = o /\ At(o, "serving")}

\* port_busy(): a runtime of the profile may listen already, or not yet.
PortAnswers(p) ==
  {FALSE} \cup {TRUE : o \in {r \in Owners : owner[r].profile = p /\ Runtime(r)}}

(***************************************************************************)
(* start(): what it reads before it takes a lock.                          *)
(***************************************************************************)
BeginStart(o) ==
  /\ At(o, "new")
  /\ \E live \in Replies(saved), busy \in PortAnswers(saved) :
       LET restarting == o \in Restarters
           next == IF live # NoOwner /\ ~restarting THEN "done"
                   ELSE IF live = NoOwner /\ busy THEN "done"
                   ELSE IF restarting THEN "stopping" ELSE "locking"
       IN /\ owner' = [owner EXCEPT ![o].step = next, ![o].profile = saved]
          /\ IF next = "stopping"
             THEN stopping' = [stopping EXCEPT ![o] =
                    [step |-> "look", profile |-> saved, expected |-> live,
                     target |-> NoOwner]]
             ELSE UNCHANGED stopping
  /\ UNCHANGED <<group, flock, endpoint, saved, setter>>

\* A restart goes on when its stop() returned, and ends when that failed.
StopReturned(o) ==
  /\ At(o, "stopping")
  /\ stopping[o].step \in {"stopped", "refused"}
  /\ Goto(o, IF stopping[o].step = "stopped" THEN "locking" ELSE "done")
  /\ UNCHANGED <<group, flock, endpoint, stopping, saved, setter>>

FaultyAcquireLock(o) ==
  /\ owner[o].step \in {"locking", "tunnelLocking"}
  /\ LET first == At(o, "locking")
         file == IF first THEN owner[o].profile ELSE TunnelOf[owner[o].profile]
     IN /\ flock' = IF first THEN [flock EXCEPT ![file] = o] ELSE flock
        /\ Goto(o, IF first THEN "tunnelLocking" ELSE "doctor")
        /\ group' = IF first THEN group ELSE [group EXCEPT ![o] =
             [kind |-> "doctor", leader |-> "alive", rest |-> FALSE]]
  /\ UNCHANGED <<endpoint, stopping, saved, setter>>

\* The profile's lock, then the tunnel's: neither waits.  With both the port is
\* looked at once more and the doctor is spawned.
AcquireLock(o) ==
  /\ owner[o].step \in {"locking", "tunnelLocking"}
  /\ LET p == owner[o].profile
         file == IF At(o, "locking") THEN p ELSE TunnelOf[p]
     IN \/ /\ flock[file] # NoOwner
           /\ Goto(o, "releasing")
           /\ UNCHANGED <<flock, group>>
        \/ /\ flock[file] = NoOwner
           /\ flock' = [flock EXCEPT ![file] = o]
           /\ \/ /\ At(o, "locking")
                 /\ Goto(o, "tunnelLocking")
                 /\ UNCHANGED group
              \/ /\ At(o, "tunnelLocking")
                 /\ \E busy \in PortAnswers(p) :
                      /\ Goto(o, IF busy THEN "releasing" ELSE "doctor")
                      /\ group' = IF busy THEN group ELSE [group EXCEPT ![o] =
                           [kind |-> "doctor", leader |-> "alive", rest |-> FALSE]]
  /\ UNCHANGED <<endpoint, stopping, saved, setter>>

\* The doctor's minute: a signal or the deadline ends it, a failing doctor, an
\* edited profile or a listener that appeared ends the start, poll() reaps it.
DoctorEnds(o) ==
  /\ At(o, "doctor")
  /\ \/ /\ owner[o].stop \/ group[o].leader = "alive"
        /\ Goto(o, "terminating")
        /\ UNCHANGED group
     \/ /\ group[o].leader = "zombie"
        /\ group' = [group EXCEPT ![o].leader = "reaped"]
        /\ \E passed \in BOOLEAN, busy \in PortAnswers(owner[o].profile) :
             Goto(o, IF passed /\ ~busy THEN "binding" ELSE "terminating")
  /\ UNCHANGED <<flock, endpoint, stopping, saved, setter>>

\* The stale socket is unlinked, the new one bound and the runtime spawned, which
\* starts the server behind it or not.
BindAndSpawn(o) ==
  /\ At(o, "binding")
  /\ endpoint' = [endpoint EXCEPT ![owner[o].profile] = o]
  /\ \E children \in BOOLEAN :
       group' = [group EXCEPT ![o] = [kind |-> "runtime", leader |-> "alive",
                                      rest |-> children]]
  /\ Goto(o, "serving")
  /\ UNCHANGED <<flock, stopping, saved, setter>>

(***************************************************************************)
(* The accept loop: poll the child, take a probe's sample, expire.         *)
(***************************************************************************)
Announce(o) ==
  /\ At(o, "serving") /\ ~owner[o].stop /\ ~owner[o].announced
  /\ group[o].leader = "alive"
  /\ owner' = [owner EXCEPT ![o].announced = TRUE]
  /\ UNCHANGED <<group, flock, endpoint, stopping, saved, setter>>

FaultyLeaveLoop(o) ==
  /\ At(o, "serving")
  /\ \/ /\ group[o].leader = "zombie"
        /\ group' = [group EXCEPT ![o].leader = "reaped"]
     \/ ~owner[o].announced /\ UNCHANGED group
  /\ Goto(o, "terminating")
  /\ UNCHANGED <<flock, endpoint, stopping, saved, setter>>

\* A requested stop, the child's end, or a runtime that never announced itself.
LeaveLoop(o) ==
  /\ At(o, "serving")
  /\ \/ owner[o].stop /\ UNCHANGED group
     \/ /\ ~owner[o].stop /\ group[o].leader = "zombie"
        /\ group' = [group EXCEPT ![o].leader = "reaped"]
     \/ ~owner[o].stop /\ ~owner[o].announced /\ UNCHANGED group
  /\ Goto(o, "terminating")
  /\ UNCHANGED <<flock, endpoint, stopping, saved, setter>>

FaultyTermGroup(o) ==
  /\ At(o, "terminating")
  /\ Goto(o, "grace")
  /\ UNCHANGED <<group, flock, endpoint, stopping, saved, setter>>

\* terminate_owned(): no signal once the leader was reaped; a group of nothing
\* but a zombie is waited for; otherwise TERM and the grace period.
TermGroup(o) ==
  /\ At(o, "terminating")
  /\ \/ /\ group[o].leader \in {"none", "reaped"}
        /\ Goto(o, "closing")
        /\ UNCHANGED group
     \/ /\ group[o].leader = "zombie" /\ ~group[o].rest
        /\ group' = [group EXCEPT ![o].leader = "reaped"]
        /\ Goto(o, "closing")
     \/ /\ group[o].leader = "alive" \/ (group[o].leader = "zombie" /\ group[o].rest)
        /\ Goto(o, "grace")
        /\ UNCHANGED group
  /\ UNCHANGED <<flock, endpoint, stopping, saved, setter>>

FaultyKillGroup(o) ==
  /\ At(o, "grace")
  /\ group' = [group EXCEPT ![o].leader = "reaped"]
  /\ Goto(o, "closing")
  /\ UNCHANGED <<flock, endpoint, stopping, saved, setter>>

\* After the full grace the whole group is killed and only then reaped.
KillGroup(o) ==
  /\ At(o, "grace")
  /\ group' = [group EXCEPT ![o].leader = "reaped", ![o].rest = FALSE]
  /\ Goto(o, "closing")
  /\ UNCHANGED <<flock, endpoint, stopping, saved, setter>>

\* The listener is closed and its file unlinked if it is still this owner's.
CloseSocket(o) ==
  /\ At(o, "closing")
  /\ endpoint' = [p \in Profiles |->
       IF p = owner[o].profile /\ endpoint[p] = o THEN NoOwner ELSE endpoint[p]]
  /\ Goto(o, "releasing")
  /\ UNCHANGED <<group, flock, stopping, saved, setter>>

\* The exit stack closes the tunnel's lock file, then the profile's.
ReleaseLock(o) ==
  /\ At(o, "releasing")
  /\ LET p == owner[o].profile
         file == IF flock[TunnelOf[p]] = o THEN TunnelOf[p] ELSE p
     IN /\ flock' = [flock EXCEPT ![file] = IF @ = o THEN NoOwner ELSE @]
        /\ owner' = IF file # p THEN owner
                    ELSE [owner EXCEPT ![o] = [@ EXCEPT !.step = "done",
                            !.stop = FALSE, !.announced = FALSE]]
  /\ UNCHANGED <<group, endpoint, stopping, saved, setter>>

(***************************************************************************)
(* stop(), by a client or inside a restart.                                *)
(***************************************************************************)
StopGoto(c, step) ==
  stopping' = [stopping EXCEPT ![c] = IF step = "refused"
    THEN [IdleStop EXCEPT !.step = step] ELSE [@ EXCEPT !.step = step]]

StopCalled(c) ==
  /\ c \in Clients /\ stopping[c].step = "idle"
  /\ stopping' = [stopping EXCEPT ![c] = [step |-> "look", profile |-> saved,
                    expected |-> NoOwner, target |-> NoOwner]]
  /\ UNCHANGED <<owner, group, flock, endpoint, saved, setter>>

\* The first look names the instance; with no answer status() looks again.
StopLook(c) ==
  /\ stopping[c].step \in {"look", "again"}
  /\ \E live \in Replies(stopping[c].profile) :
       IF live = NoOwner
       THEN StopGoto(c, IF stopping[c].step = "look" THEN "again" ELSE "probing")
       ELSE IF \/ stopping[c].step = "again"
               \/ stopping[c].expected \notin {NoOwner, live}
       THEN StopGoto(c, "refused")
       ELSE stopping' = [stopping EXCEPT ![c].step = "ask", ![c].target = live]
  /\ UNCHANGED <<owner, group, flock, endpoint, saved, setter>>

FaultyAskStop(c) ==
  /\ stopping[c].step = "ask"
  /\ \E live \in Replies(stopping[c].profile) :
       /\ live # NoOwner
       /\ owner' = [owner EXCEPT ![live].stop = TRUE]
       /\ StopGoto(c, "waiting")
  /\ UNCHANGED <<group, flock, endpoint, saved, setter>>

\* The request carries the instance; the answer to it may be lost.
AskStop(c) ==
  /\ stopping[c].step = "ask"
  /\ \E live \in Replies(stopping[c].profile), lost \in BOOLEAN :
       /\ owner' = IF live = stopping[c].target
                   THEN [owner EXCEPT ![live].stop = TRUE] ELSE owner
       /\ StopGoto(c, IF live = stopping[c].target /\ ~lost THEN "waiting"
                      ELSE "refused")
  /\ UNCHANGED <<group, flock, endpoint, saved, setter>>

\* For fifteen seconds: another instance, the lock, or the time ends the wait.
StopPoll(c) ==
  /\ stopping[c].step = "waiting"
  /\ \/ StopGoto(c, "refused")
     \/ \E live \in Replies(stopping[c].profile) :
          /\ live # stopping[c].target
          /\ StopGoto(c, IF live = NoOwner THEN "probing" ELSE "refused")
  /\ UNCHANGED <<owner, group, flock, endpoint, saved, setter>>

\* lock_held() takes the lock for a moment when nobody has it.
ProbeLock(c) ==
  /\ stopping[c].step = "probing"
  /\ LET p == stopping[c].profile
     IN IF flock[p] = NoOwner
        THEN flock' = [flock EXCEPT ![p] = c] /\ StopGoto(c, "probed")
        ELSE /\ UNCHANGED flock
             /\ StopGoto(c, IF stopping[c].target = NoOwner THEN "refused" ELSE "waiting")
  /\ UNCHANGED <<owner, group, endpoint, saved, setter>>

\* The lock is free: the awaited owner stopped, or none runs unless the port says so.
EndProbe(c) ==
  /\ stopping[c].step = "probed"
  /\ flock' = [flock EXCEPT ![stopping[c].profile] = NoOwner]
  /\ \E busy \in PortAnswers(stopping[c].profile) :
       StopGoto(c, IF stopping[c].target = NoOwner /\ busy THEN "refused" ELSE "stopped")
  /\ UNCHANGED <<owner, group, endpoint, saved, setter>>

(***************************************************************************)
(* configure: refused while an owner of the saved profile is seen.         *)
(***************************************************************************)
ConfigureCheck ==
  /\ setter = "new"
  /\ \E live \in Replies(saved) :
       setter' = IF live = NoOwner /\ flock[saved] = NoOwner THEN "writing" ELSE "done"
  /\ UNCHANGED <<owner, group, flock, endpoint, stopping, saved>>

ConfigureWrite ==
  /\ setter = "writing"
  /\ setter' = "done"
  /\ saved' \in Profiles \ {saved}
  /\ UNCHANGED <<owner, group, flock, endpoint, stopping>>

(***************************************************************************)
(* What the machine and the people do.                                     *)
(***************************************************************************)
\* A leader that ends stays a zombie until its living owner reaps it.
LeaderExits(o) ==
  /\ group[o].leader = "alive"
  /\ group' = [group EXCEPT ![o].leader =
                 IF At(o, "killed") THEN "reaped" ELSE "zombie"]
  /\ UNCHANGED <<owner, flock, endpoint, stopping, saved, setter>>

SignalOwner(o) ==
  /\ owner[o].step \in {"doctor", "serving"} /\ ~owner[o].stop
  /\ owner' = [owner EXCEPT ![o].stop = TRUE]
  /\ UNCHANGED <<group, flock, endpoint, stopping, saved, setter>>

\* Killed, or ended by an error of its clean-up: the kernel drops its locks.
OwnerKilled(o) ==
  /\ owner[o].step \notin {"new", "stopping", "done", "killed"}
  /\ Goto(o, "killed")
  /\ flock' = [l \in LockFiles |-> IF flock[l] = o THEN NoOwner ELSE flock[l]]
  /\ group' = [group EXCEPT ![o].leader = IF @ = "zombie" THEN "reaped" ELSE @]
  /\ UNCHANGED <<endpoint, stopping, saved, setter>>

OwnerStep(o) ==
  \/ BeginStart(o) \/ StopReturned(o) \/ AcquireLock(o) \/ DoctorEnds(o)
  \/ BindAndSpawn(o) \/ LeaveLoop(o) \/ TermGroup(o) \/ KillGroup(o)
  \/ CloseSocket(o) \/ ReleaseLock(o)

StopStep(c) ==
  \/ StopLook(c) \/ AskStop(c) \/ StopPoll(c) \/ ProbeLock(c) \/ EndProbe(c)

TunnelNext ==
  \/ \E o \in Owners : OwnerStep(o) \/ Announce(o)
                       \/ LeaderExits(o) \/ SignalOwner(o) \/ OwnerKilled(o)
  \/ \E c \in Clients : StopCalled(c)
  \/ \E c \in Stoppers : StopStep(c)
  \/ ConfigureCheck \/ ConfigureWrite

TunnelFairness ==
  /\ \A o \in Owners : WF_tunnelVars(OwnerStep(o) /\ owner[o].step # "new")
  /\ \A c \in Stoppers : WF_tunnelVars(StopStep(c))

TunnelSpec == TunnelInit /\ [][TunnelNext]_tunnelVars /\ TunnelFairness

(***************************************************************************)
(* Properties.                                                             *)
(***************************************************************************)
TunnelTypeOK ==
  /\ owner \in [Owners -> [step : OwnerSteps, profile : Profiles \cup {NoOwner},
                           stop : BOOLEAN, announced : BOOLEAN]]
  /\ group \in [Owners -> [kind : {"none", "doctor", "runtime"}, rest : BOOLEAN,
                           leader : {"none", "alive", "zombie", "reaped"}]]
  /\ flock \in [LockFiles -> HostProcesses \cup {NoOwner}]
  /\ endpoint \in [Profiles -> Owners \cup {NoOwner}]
  /\ \A c \in Stoppers : stopping[c].target \in Owners \cup {NoOwner}
  /\ saved \in Profiles

\* An owner that lost its runtime without killing the group: it was killed
\* itself, or poll() reaped a leader whose descendants live on.
LeftBehind(o) == At(o, "killed") \/ (group[o].leader = "reaped" /\ group[o].rest)

\* Two groups of one tunnel run at the same time only if one was left behind
\* by its owner: a runtime is gone before its owner's locks are.
OneRuntimePerTunnel ==
  \A o, r \in Owners :
    ( /\ o # r /\ Runtime(o) /\ Runtime(r)
      /\ TunnelOf[owner[o].profile] = TunnelOf[owner[r].profile] )
    => LeftBehind(o) \/ LeftBehind(r)

\* A serving owner is the one its profile's control socket leads to.
ServingOwnerReachable ==
  \A o \in Owners : At(o, "serving") => endpoint[owner[o].profile] = o

\* stop() that waited for an instance and reports it stopped: that owner has
\* ended, and unless it was killed no process of its group is left.
StoppedMeansGone ==
  \A c \in Stoppers :
    (stopping[c].step = "stopped" /\ stopping[c].target # NoOwner) =>
      /\ Ended(stopping[c].target)
      /\ At(stopping[c].target, "done") => ~Members(stopping[c].target)

\* What a supervised tunnel is: at most one runtime of it that somebody answers for, a
\* control socket that leads to the owner that serves, and a stop that tells the truth.
TunnelSupervised == OneRuntimePerTunnel /\ ServingOwnerReachable /\ StoppedMeansGone

\* The group is never signalled after its leader was reaped, when the process
\* number may be somebody else's.
NeverSignalsReapedGroup ==
  [][\A o \in Owners :
       (At(o, "terminating") /\ owner'[o].step = "grace")
         => group[o].leader \notin {"none", "reaped"}]_tunnelVars

\* A stop that was requested, by a client or a signal, ends the owner.
StopIsHonoured ==
  \A o \in Owners : owner[o].stop ~> Ended(o)
=============================================================================
