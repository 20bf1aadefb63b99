------------------------------ MODULE HostProofs ------------------------------
(***************************************************************************)
(* Safety of the file lock, the tunnel's supervision and the endpoint      *)
(* migration, for every number of processes and threads, of owners,        *)
(* stoppers, profiles, migrators and files, and every depth of nesting.    *)
(*                                                                         *)
(* The three records of who has a file's lock (the RLock of the process,   *)
(* _HELD, the lock of the operating system) are never read together by the *)
(* code: LockInv says how far apart they may be at each step.              *)
(*                                                                         *)
(* No process of the tunnel reads what another one does: an owner learns   *)
(* from a lock that nobody else serves, a stop() learns from the same lock *)
(* that its owner has gone.  TunnelInv says what each step of an owner     *)
(* holds (Locked), what has become of its process group (Grouped) and what *)
(* a stop() that is under way may already conclude (Stopped).              *)
(***************************************************************************)
EXTENDS MCHost, TLAPS

-----------------------------------------------------------------------------
(***************************************************************************)
(* The file lock.                                                          *)
(***************************************************************************)
\* A thread has entered its process's lock once for each body it is in, and once
\* more between acquire and release.
Between == {"find", "os", "register", "leave", "unlock", "free"}
Entered(t) == depth[t] + (IF step[t] \in Between THEN 1 ELSE 0)

LocalExact(t) ==
  /\ Entered(t) > 0 <=> LocalOf(t).owner = t
  /\ LocalOf(t).owner = t => LocalOf(t).count = Entered(t)

\* _HELD counts the bodies, except between their end and the finally clause.
HeldExact(t) ==
  /\ step[t] # "leave" => held[t] = depth[t]
  /\ step[t] = "leave" => held[t] = depth[t] + 1 \/ (held[t] = 0 /\ depth[t] = 0)
  /\ step[t] \in {"os", "register", "unlock"} => depth[t] = 0

\* The handle of a thread has the file's lock exactly while the thread is in the
\* table, or on its way into it or out of it.
OsExact(t) == os = t <=> held[t] > 0 \/ step[t] \in {"register", "unlock"}

LockInv ==
  /\ LockTypeOK
  /\ \A p \in Processes : local[p].owner = Nobody => local[p].count = 0
  /\ \A t \in Threads : LocalExact(t) /\ HeldExact(t) /\ OsExact(t)

-----------------------------------------------------------------------------
\* Nothing is held when a process starts.
LEMMA LockInitially == Init => LockInv
<1> SUFFICES ASSUME Init PROVE LockInv
  OBVIOUS
<1> USE FileLockAssumption DEF Init
<1>1. LockTypeOK
  BY DEF LockTypeOK, Steps, Unlocked
<1>2. \A p \in Processes : local[p].owner = Nobody => local[p].count = 0
  BY DEF Unlocked
<1>3. \A t \in Threads : LocalExact(t) /\ HeldExact(t) /\ OsExact(t)
  BY DEF LocalExact, HeldExact, OsExact, Entered, Between, LocalOf, Unlocked
<1> QED
  BY <1>1, <1>2, <1>3 DEF LockInv

\* What a thread does keeps the invariant, for itself and for the others.
LEMMA ThreadPreserves ==
  ASSUME LockInv, NEW t \in Threads, Begin(t) \/ LockStep(t) \/ Exit(t)
  PROVE  LockInv'
<1> USE FileLockAssumption DEF LockInv, LockTypeOK, Move, Steps, LocalOf, LocalExact,
                               HeldExact, OsExact, Entered, Between
<1>1. CASE Begin(t)
  BY <1>1 DEF Begin
<1>2. CASE AcquireLocal(t)
  BY <1>2 DEF AcquireLocal
<1>3. CASE LocalBusy(t)
  BY <1>3 DEF LocalBusy
<1>4. CASE Reenter(t)
  BY <1>4 DEF Reenter
<1>5. CASE Open(t)
  BY <1>5 DEF Open
<1>6. CASE AcquireOs(t)
  BY <1>6 DEF AcquireOs
<1>7. CASE OsBusy(t)
  BY <1>7 DEF OsBusy
<1>8. CASE Register(t)
  BY <1>8 DEF Register
<1>9. CASE Exit(t)
  BY <1>9 DEF Exit
<1>10. CASE Leave(t)
  BY <1>10 DEF Leave
<1>11. CASE Unlock(t)
  BY <1>11 DEF Unlock
<1>12. CASE Free(t)
  BY <1>12 DEF Free, Unlocked
<1> QED
  BY <1>1, <1>2, <1>3, <1>4, <1>5, <1>6, <1>7, <1>8, <1>9, <1>10, <1>11, <1>12
  DEF LockStep

\* The end of a process takes everything its threads held and nothing else.
LEMMA EndPreserves ==
  ASSUME LockInv, NEW p \in Processes, End(p)
  PROVE  LockInv'
<1> USE FileLockAssumption DEF LockInv, LockTypeOK, Steps, LocalOf, LocalExact,
                               HeldExact, OsExact, Entered, Between, End, Unlocked
<1>1. LockTypeOK'
  OBVIOUS
<1>2. \A q \in Processes : local'[q].owner = Nobody => local'[q].count = 0
  OBVIOUS
<1>3. ASSUME NEW t \in Threads, ProcessOf[t] = p
      PROVE  (LocalExact(t) /\ HeldExact(t) /\ OsExact(t))'
  BY <1>3
<1>4. ASSUME NEW t \in Threads, ProcessOf[t] # p
      PROVE  (LocalExact(t) /\ HeldExact(t) /\ OsExact(t))'
  BY <1>4
<1> QED
  BY <1>1, <1>2, <1>3, <1>4

\* A step that changes nothing of the lock.
LEMMA StutterPreserves == LockInv /\ UNCHANGED lockVars => LockInv'
  BY DEF lockVars, LockInv, LockTypeOK, LocalOf, LocalExact, HeldExact, OsExact,
         Entered, Between

LEMMA LockInvariant == Spec => []LockInv
<1>1. LockInv /\ [Next]_lockVars => LockInv'
  BY ThreadPreserves, EndPreserves, StutterPreserves DEF Next
<1> QED
  BY LockInitially, <1>1, PTL DEF Spec

-----------------------------------------------------------------------------
\* Every variable of file_lock keeps its type.
THEOREM LockTypeCorrect == Spec => []LockTypeOK
<1>1. LockInv => LockTypeOK
  BY DEF LockInv
<1> QED
  BY <1>1, LockInvariant, PTL

\* No two threads, of one process or of several, are inside the lock at once.
THEOREM LockExcludes == Spec => []MutualExclusion
<1>1. ASSUME LockInv PROVE MutualExclusion
  <2> SUFFICES ASSUME NEW t \in Threads, NEW u \in Threads,
                      depth[t] > 0, depth[u] > 0
               PROVE  t = u
    BY DEF MutualExclusion, Inside
  <2>1. held[t] > 0 /\ held[u] > 0
    BY <1>1 DEF LockInv, LockTypeOK, HeldExact
  <2> QED
    BY <1>1, <2>1 DEF LockInv, OsExact
<1> QED
  BY <1>1, LockInvariant, PTL

\* A thread that is in no body and in no call holds nothing.
THEOREM LockLeavesNothing == Spec => []NothingLeaked
<1>1. ASSUME LockInv PROVE NothingLeaked
  <2> SUFFICES ASSUME NEW t \in Threads, step[t] = "idle", ~(depth[t] > 0)
               PROVE  held[t] = 0 /\ os # t /\ LocalOf(t).owner # t
    BY DEF NothingLeaked, Inside
  <2>1. depth[t] = 0 /\ held[t] = 0
    BY <1>1 DEF LockInv, LockTypeOK, HeldExact
  <2>2. os # t
    BY <1>1, <2>1 DEF LockInv, OsExact
  <2>3. LocalOf(t).owner # t
    BY <1>1, <2>1 DEF LockInv, LocalExact, Entered, Between
  <2> QED
    BY <2>1, <2>2, <2>3
<1> QED
  BY <1>1, LockInvariant, PTL

\* A thread inside the lock waits for neither lock when it nests.
THEOREM LockNests == Spec => []NestingSucceeds
<1>1. ASSUME LockInv PROVE NestingSucceeds
  <2> SUFFICES ASSUME NEW t \in Threads, depth[t] > 0
               PROVE  /\ LocalOf(t).owner = t
                      /\ step[t] = "find" => held[t] > 0
                      /\ step[t] # "os"
    BY DEF NestingSucceeds, Inside
  <2>1. LocalOf(t).owner = t
    BY <1>1 DEF LockInv, LockTypeOK, LocalExact, Entered
  <2>2. step[t] = "find" => held[t] > 0
    BY <1>1 DEF LockInv, LockTypeOK, HeldExact
  <2>3. step[t] # "os"
    BY <1>1 DEF LockInv, LockTypeOK, HeldExact
  <2> QED
    BY <2>1, <2>2, <2>3
<1> QED
  BY <1>1, LockInvariant, PTL

\* One thread at most is inside, the others hold nothing, and the one inside can nest.
THEOREM LockCorrect == Spec => []LockSound
  BY LockExcludes, LockLeavesNothing, LockNests, PTL DEF LockSound

-----------------------------------------------------------------------------
(***************************************************************************)
(* The tunnel.                                                             *)
(***************************************************************************)
OwnerRecord == [step : OwnerSteps, profile : Profiles \cup {NoOwner},
                stop : BOOLEAN, announced : BOOLEAN]
GroupRecord == [kind : {"none", "doctor", "runtime"}, rest : BOOLEAN,
                leader : {"none", "alive", "zombie", "reaped"}]
StopSteps == {"idle", "look", "again", "ask", "waiting", "probing", "probed",
              "stopped", "refused"}
StopRecord == [step : StopSteps, profile : Profiles \cup {NoOwner},
               expected : Owners \cup {NoOwner}, target : Owners \cup {NoOwner}]

TunnelRecords ==
  /\ owner \in [Owners -> OwnerRecord]
  /\ group \in [Owners -> GroupRecord]
  /\ stopping \in [Stoppers -> StopRecord]
  /\ flock \in [LockFiles -> HostProcesses \cup {NoOwner}]
  /\ endpoint \in [Profiles -> Owners \cup {NoOwner}]
  /\ saved \in Profiles

BeforeSpawn == {"new", "stopping", "locking", "tunnelLocking"}
WithBoth == {"doctor", "binding", "serving", "terminating", "grace", "closing"}
AfterBind == {"serving", "terminating", "grace", "closing", "releasing", "done",
              "killed"}

\* The locks an owner has at each of its steps.
Locked(o) ==
  /\ ~At(o, "new") => owner[o].profile \in Profiles
  /\ owner[o].step \in WithBoth \cup {"tunnelLocking"} => flock[owner[o].profile] = o
  /\ owner[o].step \in WithBoth => flock[TunnelOf[owner[o].profile]] = o
  /\ At(o, "releasing") /\ group[o].kind # "none" => flock[owner[o].profile] = o

\* The process group an owner spawned, at each of its steps.
Grouped(o) ==
  /\ group[o].kind = "none" => group[o].leader = "none" /\ ~group[o].rest
  /\ group[o].kind # "none" => group[o].leader # "none"
  /\ group[o].kind = "doctor" => ~group[o].rest
  /\ group[o].kind = "runtime" => owner[o].step \in AfterBind
  /\ owner[o].step \in BeforeSpawn => group[o].kind = "none"
  /\ owner[o].step \in {"doctor", "binding"} => group[o].kind = "doctor"
  /\ At(o, "serving") => group[o].kind = "runtime"
  /\ owner[o].step \in {"serving", "grace"} => group[o].leader \in {"alive", "zombie"}
  /\ owner[o].step \in {"closing", "releasing", "done"} =>
       group[o].leader \in {"none", "reaped"}

\* The control socket of a profile leads to the owner that serves the profile, and
\* to none of another profile.
Reachable(o) ==
  /\ At(o, "serving") => endpoint[owner[o].profile] = o
  /\ \A p \in Profiles : endpoint[p] = o => ~At(o, "new") /\ owner[o].profile = p

\* An owner that was told to stop while it served leaves no process behind.
Tended(o) ==
  /\ At(o, "serving") => owner[o].stop
  /\ ~At(o, "killed") => ~(group[o].leader = "reaped" /\ group[o].rest)

\* What stop() knows at each of its steps.
Stopped(c) ==
  LET s == stopping[c]
  IN /\ c \in Restarters /\ s.step \notin {"idle", "stopped", "refused"} => At(c, "stopping")
     /\ s.step \notin {"idle", "refused"} => s.profile \in Profiles
     /\ s.step \in {"idle", "look", "again", "refused"} => s.target = NoOwner
     /\ s.step = "ask" => s.target # NoOwner
     /\ s.step = "probed" => flock[s.profile] = c
     /\ s.target # NoOwner => /\ group[s.target].kind = "runtime"
                              /\ owner[s.target].profile = s.profile
     /\ s.target # NoOwner /\ s.step # "ask" => Tended(s.target)
     /\ s.target # NoOwner /\ s.step = "stopped" => Ended(s.target)

TunnelInv ==
  /\ TunnelRecords
  /\ \A o \in Owners : Locked(o) /\ Grouped(o) /\ Reachable(o)
  /\ \A c \in Stoppers : Stopped(c)

-----------------------------------------------------------------------------
\* What an owner, the machine or a person does to one owner.
OwnerAct(o) ==
  \/ OwnerStep(o) \/ Announce(o) \/ LeaderExits(o) \/ SignalOwner(o) \/ OwnerKilled(o)

\* Nobody has been started.
LEMMA TunnelInitially == TunnelInit => TunnelInv
<1> SUFFICES ASSUME TunnelInit PROVE TunnelInv
  OBVIOUS
<1> USE TunnelAssumption DEF TunnelInit
<1>1. TunnelRecords
  BY DEF TunnelRecords, OwnerRecord, GroupRecord, StopRecord, StopSteps, OwnerSteps, NoGroup,
         IdleStop
<1>2. \A o \in Owners : Locked(o) /\ Grouped(o) /\ Reachable(o)
  BY DEF Locked, Grouped, Reachable, At, NoGroup, WithBoth, BeforeSpawn
<1>3. \A c \in Stoppers : Stopped(c)
  BY DEF Stopped, IdleStop
<1> QED
  BY <1>1, <1>2, <1>3 DEF TunnelInv

\* The records of an owner stay records.
LEMMA OwnersStayRecords ==
  ASSUME TunnelInv, NEW o \in Owners, OwnerAct(o)
  PROVE  TunnelRecords'
<1> USE DEF TunnelRecords, OwnerSteps
<1> TunnelRecords /\ o \in HostProcesses
  BY DEF TunnelInv, HostProcesses
<1>1. ASSUME NEW s \in OwnerSteps
      PROVE  [owner EXCEPT ![o].step = s] \in [Owners -> OwnerRecord]
  BY DEF OwnerRecord
<1>2. ASSUME NEW l \in {"none", "alive", "zombie", "reaped"}
      PROVE  [group EXCEPT ![o].leader = l] \in [Owners -> GroupRecord]
  BY DEF GroupRecord
<1>3. CASE BeginStart(o)
  <2>1. PICK live \in Replies(saved), s \in {"done", "stopping", "locking"} :
          /\ owner' = [owner EXCEPT ![o].step = s, ![o].profile = saved]
          /\ \/ stopping' = [stopping EXCEPT ![o] = [step |-> "look", profile |-> saved,
                    expected |-> live, target |-> NoOwner]]
             \/ stopping' = stopping
    BY <1>3 DEF BeginStart
  <2>2. owner' \in [Owners -> OwnerRecord]
    <3>1. [owner[o] EXCEPT !.step = s, !.profile = saved] \in OwnerRecord
      BY DEF OwnerRecord
    <3> QED
      BY <2>1, <3>1
  <2>3. live \in Owners \cup {NoOwner}
    BY DEF Replies
  <2>4. stopping' \in [Stoppers -> StopRecord]
    BY <2>1, <2>3 DEF StopRecord, StopSteps
  <2> QED
    BY <1>3, <2>2, <2>4 DEF BeginStart
<1>4. CASE StopReturned(o)
  BY <1>4, <1>1 DEF StopReturned, Goto
<1>5. CASE AcquireLock(o)
  <2>1. group' \in [Owners -> GroupRecord]
    <3>1. [kind |-> "doctor", leader |-> "alive", rest |-> FALSE] \in GroupRecord
      BY DEF GroupRecord
    <3> QED
      BY <1>5, <3>1 DEF AcquireLock
  <2>2. owner' \in [Owners -> OwnerRecord]
    BY <1>5, <1>1 DEF AcquireLock, Goto
  <2>3. flock' \in [LockFiles -> HostProcesses \cup {NoOwner}]
    BY <1>5 DEF AcquireLock
  <2> QED
    BY <1>5, <2>1, <2>2, <2>3 DEF AcquireLock
<1>6. CASE DoctorEnds(o)
  BY <1>6, <1>1, <1>2 DEF DoctorEnds, Goto
<1>7. CASE BindAndSpawn(o)
  <2>1. group' \in [Owners -> GroupRecord]
    <3>1. \A children \in BOOLEAN :
            [kind |-> "runtime", leader |-> "alive", rest |-> children] \in GroupRecord
      BY DEF GroupRecord
    <3> QED
      BY <1>7, <3>1 DEF BindAndSpawn
  <2>2. owner' \in [Owners -> OwnerRecord]
    BY <1>7, <1>1 DEF BindAndSpawn, Goto
  <2> QED
    BY <1>7, <2>1, <2>2 DEF BindAndSpawn
<1>8. CASE LeaveLoop(o)
  BY <1>8, <1>1, <1>2 DEF LeaveLoop, Goto
<1>9. CASE TermGroup(o)
  BY <1>9, <1>1, <1>2 DEF TermGroup, Goto
<1>10. CASE KillGroup(o)
  <2>1. group' \in [Owners -> GroupRecord]
    BY <1>10 DEF KillGroup, GroupRecord
  <2> QED
    BY <1>10, <1>1, <2>1 DEF KillGroup, Goto
<1>11. CASE CloseSocket(o)
  BY <1>11, <1>1 DEF CloseSocket, Goto
<1>12. CASE ReleaseLock(o)
  BY <1>12 DEF ReleaseLock, OwnerRecord
<1>13. CASE Announce(o)
  BY <1>13 DEF Announce, OwnerRecord
<1>14. CASE LeaderExits(o)
  BY <1>14, <1>2 DEF LeaderExits
<1>15. CASE SignalOwner(o)
  BY <1>15 DEF SignalOwner, OwnerRecord
<1>16. CASE OwnerKilled(o)
  <2>1. group' \in [Owners -> GroupRecord]
    BY <1>16 DEF OwnerKilled, GroupRecord
  <2> QED
    BY <1>16, <1>1, <2>1 DEF OwnerKilled, Goto
<1> QED
  BY <1>3, <1>4, <1>5, <1>6, <1>7, <1>8, <1>9, <1>10, <1>11, <1>12, <1>13, <1>14, <1>15, <1>16
     DEF OwnerAct, OwnerStep

\* What is done to one owner leaves the others alone.
LEMMA OthersStay ==
  ASSUME TunnelInv, NEW o \in Owners, OwnerAct(o)
  PROVE  /\ \A r \in Owners \ {o} : owner'[r] = owner[r] /\ group'[r] = group[r]
         /\ \A l \in LockFiles : flock'[l] # flock[l] =>
              (flock[l] = NoOwner /\ flock'[l] = o) \/ (flock[l] = o /\ flock'[l] = NoOwner)
         /\ \A p \in Profiles : endpoint'[p] # endpoint[p] =>
              /\ p = owner[o].profile /\ owner[o].step \in {"binding", "closing"}
              /\ endpoint'[p] \in {o, NoOwner}
         /\ \A c \in Stoppers : stopping'[c] # stopping[c] => c = o /\ BeginStart(o)
<1> USE DEF TunnelRecords
<1> TunnelRecords
  BY DEF TunnelInv
<1>1. CASE BeginStart(o)
  BY <1>1 DEF BeginStart
<1>2. CASE AcquireLock(o)
  BY <1>2 DEF AcquireLock, Goto
<1>3. CASE ReleaseLock(o)
  BY <1>3 DEF ReleaseLock
<1>4. CASE OwnerKilled(o)
  BY <1>4 DEF OwnerKilled, Goto
<1>5. CASE BindAndSpawn(o) \/ CloseSocket(o)
  BY <1>5 DEF BindAndSpawn, CloseSocket, Goto, At
<1>6. CASE StopReturned(o) \/ DoctorEnds(o) \/ LeaveLoop(o) \/ TermGroup(o) \/ KillGroup(o)
  BY <1>6 DEF StopReturned, DoctorEnds, LeaveLoop, TermGroup, KillGroup, Goto
<1>7. CASE Announce(o) \/ LeaderExits(o) \/ SignalOwner(o)
  BY <1>7 DEF Announce, LeaderExits, SignalOwner
<1> QED
  BY <1>1, <1>2, <1>3, <1>4, <1>5, <1>6, <1>7 DEF OwnerAct, OwnerStep

\* What an owner's own step makes of its locks, its group and its socket.
LEMMA OwnerKeepsItself ==
  ASSUME TunnelInv, NEW o \in Owners, OwnerAct(o)
  PROVE  Locked(o)' /\ Grouped(o)' /\ Reachable(o)'
<1> USE TunnelAssumption DEF TunnelRecords, At
<1> TunnelRecords /\ TunnelRecords' /\ Locked(o) /\ Grouped(o) /\ Reachable(o)
  BY OwnersStayRecords DEF TunnelInv
<1>0. /\ \A p \in Profiles : p \in LockFiles /\ TunnelOf[p] \in LockFiles
      /\ \A p, q \in Profiles : TunnelOf[p] # q
  BY DEF LockFiles
<1> USE DEF Locked, Grouped, Reachable, WithBoth, BeforeSpawn, AfterBind
<1>1. CASE BeginStart(o)
  <2>1. /\ owner'[o].step \in {"done", "stopping", "locking"}
        /\ owner'[o].profile \in Profiles
    BY <1>1 DEF BeginStart, OwnerRecord
  <2> QED
    BY <1>1, <2>1 DEF BeginStart, GroupRecord
<1>2. CASE StopReturned(o)
  <2>1. owner'[o].step \in {"locking", "done"} /\ owner'[o].profile = owner[o].profile
    BY <1>2 DEF StopReturned, Goto, OwnerRecord
  <2> QED
    BY <1>2, <2>1 DEF StopReturned, GroupRecord
<1>3. CASE AcquireLock(o)
  <2> DEFINE p == owner[o].profile
  <2>1. owner'[o].profile = p /\ p \in Profiles /\ endpoint' = endpoint
    BY <1>3 DEF AcquireLock, Goto, OwnerRecord
  <2>2. \/ /\ owner'[o].step = "releasing"
           /\ group'[o] = group[o] /\ group[o].kind = "none"
        \/ /\ owner[o].step = "locking" /\ owner'[o].step = "tunnelLocking"
           /\ flock'[p] = o /\ group' = group
        \/ /\ owner[o].step = "tunnelLocking" /\ owner'[o].step = "doctor"
           /\ flock'[TunnelOf[p]] = o /\ flock'[p] = o
           /\ group'[o] = [kind |-> "doctor", leader |-> "alive", rest |-> FALSE]
    BY <1>3, <1>0, <2>1 DEF AcquireLock, Goto, OwnerRecord
  <2> QED
    BY <2>1, <2>2
<1>4. CASE DoctorEnds(o)
  <2>1. /\ owner'[o].profile = owner[o].profile /\ flock' = flock
        /\ owner'[o].step \in {"binding", "terminating"}
        /\ group'[o].kind = group[o].kind /\ group'[o].rest = group[o].rest
        /\ group'[o].leader # "none"
    BY <1>4 DEF DoctorEnds, Goto, OwnerRecord, GroupRecord
  <2> QED
    BY <1>4, <2>1 DEF DoctorEnds
<1>5. CASE BindAndSpawn(o)
  <2>1. /\ owner'[o].profile = owner[o].profile /\ flock' = flock
        /\ owner'[o].step = "serving" /\ endpoint'[owner[o].profile] = o
        /\ group'[o].kind = "runtime" /\ group'[o].leader = "alive"
    BY <1>5 DEF BindAndSpawn, Goto, OwnerRecord, GroupRecord
  <2>2. \A p \in Profiles : p # owner[o].profile => endpoint'[p] = endpoint[p]
    BY <1>5 DEF BindAndSpawn
  <2>3. owner[o].step = "binding"
    BY <1>5 DEF BindAndSpawn
  <2>4. Locked(o)'
    BY <2>1, <2>3
  <2>5. Grouped(o)'
    BY <2>1
  <2>6. Reachable(o)'
    <3>1. ASSUME NEW p \in Profiles, endpoint'[p] = o PROVE owner'[o].profile = p
      BY <2>1, <2>2, <3>1
    <3> QED
      BY <2>1, <3>1
  <2> QED
    BY <2>4, <2>5, <2>6
<1>6. CASE LeaveLoop(o)
  <2>1. /\ owner'[o].profile = owner[o].profile /\ flock' = flock
        /\ owner'[o].step = "terminating"
        /\ group'[o].kind = group[o].kind /\ group'[o].leader # "none"
    BY <1>6 DEF LeaveLoop, Goto, OwnerRecord, GroupRecord
  <2> QED
    BY <1>6, <2>1 DEF LeaveLoop
<1>7. CASE TermGroup(o)
  <2>1. /\ owner'[o].profile = owner[o].profile /\ flock' = flock
        /\ group'[o].kind = group[o].kind /\ group'[o].rest = group[o].rest
        /\ \/ owner'[o].step = "closing" /\ group'[o].leader \in {"none", "reaped"}
           \/ owner'[o].step = "grace" /\ group'[o].leader \in {"alive", "zombie"}
        /\ group'[o].leader = "none" => group[o].leader = "none"
    BY <1>7 DEF TermGroup, Goto, OwnerRecord, GroupRecord
  <2> QED
    BY <1>7, <2>1 DEF TermGroup
<1>8. CASE KillGroup(o)
  <2>1. /\ owner'[o].profile = owner[o].profile /\ flock' = flock
        /\ group'[o].kind = group[o].kind /\ ~group'[o].rest
        /\ owner'[o].step = "closing" /\ group'[o].leader = "reaped"
    BY <1>8 DEF KillGroup, Goto, OwnerRecord, GroupRecord
  <2> QED
    BY <1>8, <2>1 DEF KillGroup
<1>9. CASE CloseSocket(o)
  <2>1. /\ owner'[o].profile = owner[o].profile /\ flock' = flock /\ group' = group
        /\ owner'[o].step = "releasing"
    BY <1>9 DEF CloseSocket, Goto, OwnerRecord
  <2> QED
    BY <1>9, <2>1 DEF CloseSocket
<1>10. CASE ReleaseLock(o)
  <2> DEFINE p == owner[o].profile
  <2>1. p \in Profiles
    BY <1>10 DEF ReleaseLock
  <2>2. CASE flock[TunnelOf[p]] = o
    <3>1. owner' = owner /\ group' = group /\ flock'[p] = flock[p]
      BY <1>10, <1>0, <2>1, <2>2 DEF ReleaseLock
    <3> QED
      BY <1>10, <2>1, <3>1 DEF ReleaseLock
  <2>3. CASE flock[TunnelOf[p]] # o
    <3>1. group' = group /\ owner'[o].step = "done" /\ owner'[o].profile = p
      BY <1>10, <1>0, <2>1, <2>3 DEF ReleaseLock, OwnerRecord
    <3> QED
      BY <1>10, <2>1, <3>1 DEF ReleaseLock
  <2> QED
    BY <2>2, <2>3
<1>11. CASE Announce(o) \/ SignalOwner(o)
  <2>1. /\ owner'[o].profile = owner[o].profile /\ owner'[o].step = owner[o].step
        /\ flock' = flock /\ group' = group /\ endpoint' = endpoint
    BY <1>11 DEF Announce, SignalOwner, OwnerRecord
  <2> QED
    BY <2>1
<1>12. CASE LeaderExits(o)
  <2>1. /\ owner' = owner /\ flock' = flock /\ endpoint' = endpoint
        /\ group[o].leader = "alive"
        /\ group'[o].leader \in {"zombie", "reaped"}
        /\ group'[o].leader = "reaped" => owner[o].step = "killed"
        /\ group'[o].kind = group[o].kind /\ group'[o].rest = group[o].rest
    BY <1>12 DEF LeaderExits, GroupRecord
  <2> QED
    BY <2>1
<1>13. CASE OwnerKilled(o)
  <2>1. /\ owner'[o].profile = owner[o].profile /\ owner'[o].step = "killed"
        /\ group'[o].kind = group[o].kind /\ group'[o].rest = group[o].rest
        /\ group'[o].leader = "none" <=> group[o].leader = "none"
    BY <1>13 DEF OwnerKilled, Goto, OwnerRecord, GroupRecord
  <2> QED
    BY <1>13, <2>1 DEF OwnerKilled
<1> QED
  BY <1>1, <1>2, <1>3, <1>4, <1>5, <1>6, <1>7, <1>8, <1>9, <1>10, <1>11, <1>12, <1>13
     DEF OwnerAct, OwnerStep

\* An owner has the locks of its profile and its tunnel to itself.
LEMMA OwnerKeepsOthers ==
  ASSUME TunnelInv, NEW o \in Owners, OwnerAct(o), NEW r \in Owners, r # o
  PROVE  Locked(r)' /\ Grouped(r)' /\ Reachable(r)'
<1> USE TunnelAssumption
<1>1. /\ TunnelRecords /\ Locked(o) /\ Locked(r) /\ Grouped(r) /\ Reachable(r)
  BY DEF TunnelInv
<1>2. owner'[r] = owner[r] /\ group'[r] = group[r]
  BY OthersStay
<1>3. \A l \in LockFiles : flock[l] = r => flock'[l] = r
  BY OthersStay
<1>4. owner[r].profile \in Profiles =>
        owner[r].profile \in LockFiles /\ TunnelOf[owner[r].profile] \in LockFiles
  BY DEF LockFiles
<1>5. Locked(r)'
  BY <1>1, <1>2, <1>3, <1>4 DEF Locked, At, WithBoth
<1>6. Grouped(r)'
  BY <1>1, <1>2 DEF Grouped, At
<1>7. Reachable(r)'
  <2>1. ASSUME At(r, "serving") PROVE endpoint'[owner[r].profile] = r
    <3>1. owner[r].profile \in Profiles /\ flock[owner[r].profile] = r
      BY <1>1, <2>1 DEF Locked, At, WithBoth
    <3>2. owner[o].step \in {"binding", "closing"} => flock[owner[o].profile] = o
      BY <1>1 DEF Locked, WithBoth
    <3>3. endpoint'[owner[r].profile] = endpoint[owner[r].profile]
      BY <3>1, <3>2, OthersStay
    <3> QED
      BY <1>1, <2>1, <3>3 DEF Reachable
  <2>2. ASSUME NEW p \in Profiles, endpoint'[p] = r PROVE endpoint[p] = r
    BY <2>2, OthersStay
  <2> QED
    BY <1>1, <1>2, <2>1, <2>2 DEF Reachable, At
<1> QED
  BY <1>5, <1>6, <1>7

\* An owner that has bound its socket has nothing else in hand until it ends, and
\* does not lose hold of its runtime once it has been told to stop.
LEMMA OwnerStaysTended ==
  ASSUME TunnelInv, NEW o \in Owners, OwnerAct(o), group[o].kind = "runtime"
  PROVE  /\ group'[o].kind = "runtime" /\ owner'[o].profile = owner[o].profile
         /\ Tended(o) => Tended(o)'
         /\ Ended(o) => Ended(o)'
<1> USE DEF TunnelRecords, At, AfterBind, Tended, Ended
<1> TunnelRecords /\ TunnelRecords' /\ Grouped(o) /\ owner[o].step \in AfterBind
  BY OwnersStayRecords DEF TunnelInv, Grouped
<1>1. CASE owner[o].step = "serving" /\ LeaveLoop(o)
  <2>1. /\ group'[o].kind = group[o].kind /\ owner'[o].profile = owner[o].profile
        /\ owner'[o].step = "terminating"
        /\ owner[o].stop => group'[o] = group[o]
    BY <1>1 DEF LeaveLoop, Goto, OwnerRecord, GroupRecord
  <2> QED
    BY <1>1, <2>1 DEF Grouped
<1>2. CASE TermGroup(o)
  <2>1. /\ group'[o].kind = group[o].kind /\ owner'[o].profile = owner[o].profile
        /\ group'[o].rest = group[o].rest
        /\ \/ group'[o].leader = group[o].leader
           \/ ~group[o].rest
        /\ owner[o].step = "terminating" /\ owner'[o].step \in {"closing", "grace"}
    BY <1>2 DEF TermGroup, Goto, OwnerRecord, GroupRecord
  <2> QED
    BY <2>1
<1>3. CASE KillGroup(o)
  <2>1. /\ group'[o].kind = group[o].kind /\ owner'[o].profile = owner[o].profile
        /\ ~group'[o].rest /\ owner[o].step = "grace" /\ owner'[o].step = "closing"
    BY <1>3 DEF KillGroup, Goto, OwnerRecord, GroupRecord
  <2> QED
    BY <2>1
<1>4. CASE CloseSocket(o)
  <2>1. /\ group' = group /\ owner'[o].profile = owner[o].profile
        /\ owner[o].step = "closing" /\ owner'[o].step = "releasing"
    BY <1>4 DEF CloseSocket, Goto, OwnerRecord
  <2> QED
    BY <2>1
<1>5. CASE ReleaseLock(o)
  <2>1. /\ group' = group /\ owner'[o].profile = owner[o].profile
        /\ owner[o].step = "releasing" /\ owner'[o].step \in {"releasing", "done"}
    BY <1>5 DEF ReleaseLock, OwnerRecord
  <2> QED
    BY <2>1
<1>6. CASE Announce(o) \/ SignalOwner(o)
  <2>1. /\ group' = group /\ owner'[o].profile = owner[o].profile
        /\ owner'[o].step = owner[o].step /\ owner[o].stop => owner'[o].stop
    BY <1>6 DEF Announce, SignalOwner, OwnerRecord
  <2> QED
    BY <1>6, <2>1 DEF Announce, SignalOwner, OwnerRecord
<1>7. CASE LeaderExits(o)
  <2>1. /\ owner' = owner /\ group[o].leader = "alive"
        /\ group'[o].kind = group[o].kind /\ group'[o].rest = group[o].rest
        /\ group'[o].leader = "reaped" => owner[o].step = "killed"
    BY <1>7 DEF LeaderExits, GroupRecord
  <2> QED
    BY <2>1 DEF Grouped
<1>8. CASE OwnerKilled(o)
  <2>1. /\ group'[o].kind = group[o].kind /\ owner'[o].profile = owner[o].profile
        /\ owner'[o].step = "killed"
    BY <1>8 DEF OwnerKilled, Goto, OwnerRecord, GroupRecord
  <2> QED
    BY <2>1
<1> QED
  BY <1>1, <1>2, <1>3, <1>4, <1>5, <1>6, <1>7, <1>8
     DEF OwnerAct, OwnerStep, BeginStart, StopReturned, AcquireLock, DoctorEnds, BindAndSpawn,
         LeaveLoop

\* What a stop() knows stays true while an owner moves.
LEMMA OwnerKeepsStops ==
  ASSUME TunnelInv, NEW o \in Owners, OwnerAct(o), NEW c \in Stoppers
  PROVE  Stopped(c)'
<1> USE TunnelAssumption DEF At
<1>1. TunnelRecords /\ TunnelRecords' /\ Stopped(c) /\ stopping[c] \in StopRecord
  BY OwnersStayRecords DEF TunnelInv, TunnelRecords
<1>2. CASE stopping'[c] # stopping[c]
  <2>1. c = o /\ BeginStart(o)
    BY <1>2, OthersStay
  <2>2. /\ stopping'[c].step = "look" /\ stopping'[c].target = NoOwner
        /\ stopping'[c].profile \in Profiles /\ owner'[c].step = "stopping"
    BY <1>1, <1>2, <2>1 DEF BeginStart, TunnelRecords, OwnerRecord
  <2> QED
    BY <2>2 DEF Stopped
<1>3. CASE stopping'[c] = stopping[c]
  <2> DEFINE s == stopping[c]
  <2>1. c \in Restarters /\ s.step \notin {"idle", "stopped", "refused"} =>
          owner'[c].step = "stopping"
    <3> SUFFICES ASSUME c \in Restarters, s.step \notin {"idle", "stopped", "refused"}
                 PROVE  owner'[c].step = "stopping"
      OBVIOUS
    <3>1. owner[c].step = "stopping"
      BY <1>1 DEF Stopped
    <3>2. CASE c = o
      BY <3>1, <3>2 DEF OwnerAct, OwnerStep, BeginStart, StopReturned, AcquireLock,
         DoctorEnds, BindAndSpawn, LeaveLoop, TermGroup, KillGroup, CloseSocket,
         ReleaseLock, Announce, LeaderExits, SignalOwner, OwnerKilled
    <3>3. CASE c # o
      BY <3>1, <3>3, OthersStay
    <3> QED
      BY <3>2, <3>3
  <2>2. s.step = "probed" => flock'[s.profile] = c
    <3> SUFFICES ASSUME s.step = "probed" PROVE flock'[s.profile] = c
      OBVIOUS
    <3>1. flock[s.profile] = c /\ s.profile \in LockFiles /\ c # NoOwner
      BY <1>1 DEF Stopped, LockFiles, Stoppers
    <3>2. CASE c = o
      <4>1. c \in Restarters
        BY <3>2 DEF Stoppers
      <4>2. owner[c].step = "stopping"
        BY <1>1, <4>1 DEF Stopped
      <4>3. flock' = flock
        BY <3>2, <4>2 DEF OwnerAct, OwnerStep, BeginStart, StopReturned, AcquireLock,
           DoctorEnds, BindAndSpawn, LeaveLoop, TermGroup, KillGroup, CloseSocket,
           ReleaseLock, Announce, LeaderExits, SignalOwner, OwnerKilled
      <4> QED
        BY <3>1, <4>3
    <3>3. CASE c # o
      BY <3>1, <3>3, OthersStay
    <3> QED
      BY <3>2, <3>3
  <2>3. s.target # NoOwner =>
          /\ group'[s.target].kind = "runtime" /\ owner'[s.target].profile = s.profile
          /\ s.step # "ask" => Tended(s.target)'
          /\ s.step = "stopped" => Ended(s.target)'
    <3> SUFFICES ASSUME s.target # NoOwner
                 PROVE  /\ group'[s.target].kind = "runtime"
                        /\ owner'[s.target].profile = s.profile
                        /\ s.step # "ask" => Tended(s.target)'
                        /\ s.step = "stopped" => Ended(s.target)'
      OBVIOUS
    <3> DEFINE r == s.target
    <3>1. /\ r \in Owners
          /\ group[r].kind = "runtime" /\ owner[r].profile = s.profile
          /\ s.step # "ask" => Tended(r)
          /\ s.step = "stopped" => Ended(r)
      BY <1>1 DEF Stopped, StopRecord
    <3> HIDE DEF r
    <3>2. CASE r = o
      BY <3>1, <3>2, <1>3, OwnerStaysTended DEF r
    <3>3. CASE r # o
      <4>1. owner'[r] = owner[r] /\ group'[r] = group[r]
        BY <3>1, <3>3, OthersStay
      <4> QED
        BY <3>1, <4>1, <1>3 DEF Tended, Ended, r
    <3> QED
      BY <3>2, <3>3 DEF r
  <2> QED
    BY <1>1, <1>3, <2>1, <2>2, <2>3 DEF Stopped, Tended, Ended
<1> QED
  BY <1>2, <1>3

\* What a stop() touches: its own progress, the request to stop, a free lock.
LEMMA StopTouches ==
  ASSUME TunnelInv, NEW c \in Stoppers, StopCalled(c) \/ StopStep(c)
  PROVE  /\ TunnelRecords'
         /\ UNCHANGED <<group, endpoint, saved, setter>>
         /\ \A o \in Owners : /\ owner'[o].step = owner[o].step
                              /\ owner'[o].profile = owner[o].profile
                              /\ owner[o].stop => owner'[o].stop
         /\ \A d \in Stoppers \ {c} : stopping'[d] = stopping[d]
         /\ \A l \in LockFiles : flock'[l] # flock[l] =>
              \/ flock[l] = NoOwner
              \/ stopping[c].step = "probed" /\ l = stopping[c].profile
<1> USE DEF TunnelRecords
<1> TunnelRecords /\ c \in HostProcesses
  BY TunnelAssumption DEF TunnelInv, Stoppers, HostProcesses
<1>1. ASSUME NEW s \in StopSteps, StopGoto(c, s)
      PROVE  /\ stopping' \in [Stoppers -> StopRecord]
             /\ \A d \in Stoppers \ {c} : stopping'[d] = stopping[d]
  <2>1. [IdleStop EXCEPT !.step = s] \in StopRecord
    BY DEF IdleStop, StopRecord, StopSteps
  <2>2. [stopping[c] EXCEPT !.step = s] \in StopRecord
    BY DEF StopRecord
  <2> QED
    BY <1>1, <2>1, <2>2 DEF StopGoto
<1> USE DEF StopSteps
<1>2. CASE StopCalled(c)
  <2>1. [step |-> "look", profile |-> saved, expected |-> NoOwner, target |-> NoOwner]
          \in StopRecord
    BY DEF StopRecord
  <2> QED
    BY <1>2, <2>1 DEF StopCalled
<1>3. CASE StopLook(c)
  <2>1. \/ \E s \in StopSteps : StopGoto(c, s)
        \/ \E live \in Owners :
             stopping' = [stopping EXCEPT ![c] = [@ EXCEPT !.step = "ask", !.target = live]]
    BY <1>3 DEF StopLook, Replies
  <2>2. \A live \in Owners : [stopping[c] EXCEPT !.step = "ask", !.target = live] \in StopRecord
    BY DEF StopRecord
  <2>3. /\ stopping' \in [Stoppers -> StopRecord]
        /\ \A d \in Stoppers \ {c} : stopping'[d] = stopping[d]
    BY <2>1, <2>2, <1>1
  <2> QED
    BY <1>3, <2>3 DEF StopLook
<1>4. CASE AskStop(c)
  <2>1. \/ owner' = owner
        \/ \E live \in Owners : owner' = [owner EXCEPT ![live].stop = TRUE]
    <3>1. stopping[c].target # NoOwner
      BY <1>4 DEF AskStop, TunnelInv, Stopped
    <3> QED
      BY <1>4, <3>1 DEF AskStop, Replies
  <2>2. /\ owner' \in [Owners -> OwnerRecord]
        /\ \A o \in Owners : /\ owner'[o].step = owner[o].step
                             /\ owner'[o].profile = owner[o].profile
                             /\ owner[o].stop => owner'[o].stop
    <3>1. CASE owner' = owner
      BY <3>1
    <3>2. ASSUME NEW live \in Owners, owner' = [owner EXCEPT ![live].stop = TRUE]
          PROVE  /\ owner' \in [Owners -> OwnerRecord]
                 /\ \A o \in Owners : /\ owner'[o].step = owner[o].step
                                      /\ owner'[o].profile = owner[o].profile
                                      /\ owner[o].stop => owner'[o].stop
      <4>1. [owner[live] EXCEPT !.stop = TRUE] \in OwnerRecord
        BY DEF OwnerRecord
      <4>2. \A o \in Owners : owner[o] \in OwnerRecord
        OBVIOUS
      <4>3. owner' \in [Owners -> OwnerRecord]
        BY <3>2, <4>1
      <4> QED
        BY <3>2, <4>2, <4>3 DEF OwnerRecord
    <3> QED
      BY <2>1, <3>1, <3>2
  <2>3. \E s \in StopSteps : StopGoto(c, s)
    BY <1>4 DEF AskStop
  <2> QED
    BY <1>4, <1>1, <2>2, <2>3 DEF AskStop
<1>5. CASE StopPoll(c)
  <2>1. \E s \in StopSteps : StopGoto(c, s)
    BY <1>5 DEF StopPoll
  <2> QED
    BY <1>5, <1>1, <2>1 DEF StopPoll
<1>6. CASE ProbeLock(c)
  <2>1. \E s \in StopSteps : StopGoto(c, s)
    BY <1>6 DEF ProbeLock
  <2> QED
    BY <1>6, <1>1, <2>1 DEF ProbeLock
<1>7. CASE EndProbe(c)
  <2>1. \E s \in StopSteps : StopGoto(c, s)
    BY <1>7 DEF EndProbe
  <2> QED
    BY <1>7, <1>1, <2>1 DEF EndProbe
<1> QED
  BY <1>2, <1>3, <1>4, <1>5, <1>6, <1>7 DEF StopStep

\* A stop() takes no lock from an owner that has it.
LEMMA StopKeepsOwners ==
  ASSUME TunnelInv, NEW c \in Stoppers, StopCalled(c) \/ StopStep(c), NEW o \in Owners
  PROVE  Locked(o)' /\ Grouped(o)' /\ Reachable(o)'
<1> USE TunnelAssumption DEF At
<1>1. TunnelRecords /\ Locked(o) /\ Grouped(o) /\ Reachable(o) /\ Stopped(c)
  BY DEF TunnelInv
<1>2. owner'[o].step = owner[o].step /\ owner'[o].profile = owner[o].profile
  BY StopTouches
<1>3. group' = group /\ endpoint' = endpoint
  BY StopTouches
<1>4. ASSUME NEW l \in LockFiles, flock[l] = o,
             owner[o].step \in WithBoth \cup {"tunnelLocking", "releasing"}
      PROVE  flock'[l] = o
  <2>1. CASE stopping[c].step = "probed" /\ l = stopping[c].profile
    <3>1. c = o /\ c \in Restarters
      BY <1>1, <1>4, <2>1 DEF Stopped, Stoppers
    <3> QED
      BY <1>1, <1>4, <2>1, <3>1 DEF Stopped, WithBoth
  <2>2. CASE ~(stopping[c].step = "probed" /\ l = stopping[c].profile)
    BY <1>4, <2>2, StopTouches
  <2> QED
    BY <2>1, <2>2
<1>5. owner[o].profile \in Profiles =>
        owner[o].profile \in LockFiles /\ TunnelOf[owner[o].profile] \in LockFiles
  BY DEF LockFiles
<1>6. Locked(o)'
  BY <1>1, <1>2, <1>3, <1>4, <1>5 DEF Locked, WithBoth
<1> QED
  BY <1>1, <1>2, <1>3, <1>6 DEF Grouped, Reachable

\* What one stop() does takes nothing from what another one knows.
LEMMA StopKeepsOtherStops ==
  ASSUME TunnelInv, NEW c \in Stoppers, StopCalled(c) \/ StopStep(c),
         NEW d \in Stoppers, d # c
  PROVE  Stopped(d)'
<1> USE TunnelAssumption DEF At
<1>1. TunnelRecords /\ Stopped(c) /\ Stopped(d) /\ stopping[d] \in StopRecord
  BY DEF TunnelInv, TunnelRecords
<1>2. stopping'[d] = stopping[d] /\ group' = group
  BY StopTouches
<1>3. \A o \in Owners : /\ owner'[o].step = owner[o].step
                        /\ owner'[o].profile = owner[o].profile
                        /\ owner[o].stop => owner'[o].stop
  BY StopTouches
<1>4. stopping[d].step = "probed" => flock'[stopping[d].profile] = d
  <2> SUFFICES ASSUME stopping[d].step = "probed"
               PROVE  flock'[stopping[d].profile] = d
    OBVIOUS
  <2>1. /\ flock[stopping[d].profile] = d /\ d # NoOwner
        /\ stopping[d].profile \in LockFiles
    BY <1>1 DEF Stopped, LockFiles, Stoppers
  <2>2. ~(stopping[c].step = "probed" /\ stopping[d].profile = stopping[c].profile)
    BY <1>1, <2>1 DEF Stopped
  <2> QED
    BY <2>1, <2>2, StopTouches
<1>5. stopping[d].target \in Owners \cup {NoOwner} /\ Restarters \subseteq Owners
  BY <1>1 DEF StopRecord
<1> QED
  BY <1>1, <1>2, <1>3, <1>4, <1>5 DEF Stopped, Tended, Ended

\* An instance is named while it serves, asked by name, and believed to have ended
\* only by whoever has taken its profile's lock.
LEMMA StopKeepsItself ==
  ASSUME TunnelInv, NEW c \in Stoppers, StopCalled(c) \/ StopStep(c)
  PROVE  Stopped(c)'
<1> USE TunnelAssumption DEF At
<1>1. TunnelRecords /\ TunnelRecords' /\ Stopped(c) /\ stopping[c] \in StopRecord
  BY StopTouches DEF TunnelInv, TunnelRecords
<1> DEFINE s == stopping[c]
<1>2. group' = group
  BY StopTouches
<1>3. \A o \in Owners : /\ owner'[o].step = owner[o].step
                        /\ owner'[o].profile = owner[o].profile
                        /\ owner[o].stop => owner'[o].stop
  BY StopTouches
<1>4. c \in Restarters /\ s.step \notin {"idle", "stopped", "refused"} =>
        owner'[c].step = "stopping"
  BY <1>1, <1>3 DEF Stopped
<1>5. ASSUME StopGoto(c, "refused") PROVE Stopped(c)'
  <2>1. stopping'[c] = [IdleStop EXCEPT !.step = "refused"]
    BY <1>1, <1>5 DEF StopGoto, TunnelRecords
  <2> QED
    BY <2>1 DEF Stopped, IdleStop
<1>6. ASSUME NEW x \in StopSteps \ {"refused"}, StopGoto(c, x)
      PROVE  /\ stopping'[c].step = x /\ stopping'[c].profile = s.profile
             /\ stopping'[c].target = s.target
  BY <1>1, <1>6 DEF StopGoto, TunnelRecords, StopRecord
<1>7. PICK r, q : r = s.target /\ q = s.profile
  OBVIOUS
<1> r \in Owners \cup {NoOwner}
  BY <1>1, <1>7 DEF StopRecord
<1>8. r # NoOwner => /\ group'[r].kind = "runtime" /\ owner'[r].profile = q
                     /\ s.step # "ask" => Tended(r)'
  BY <1>1, <1>2, <1>3, <1>7 DEF Stopped, Tended
<1>9. CASE StopCalled(c)
  <2>1. stopping'[c] = [step |-> "look", profile |-> saved, expected |-> NoOwner,
                        target |-> NoOwner]
    BY <1>1, <1>9 DEF StopCalled, TunnelRecords
  <2>2. c \notin Restarters
    BY <1>9 DEF StopCalled
  <2> QED
    BY <1>1, <2>1, <2>2 DEF Stopped, TunnelRecords
<1>10. CASE StopLook(c)
  <2>1. s.target = NoOwner /\ s.profile \in Profiles /\ s.step \in {"look", "again"}
    BY <1>1, <1>10 DEF StopLook, Stopped
  <2>2. CASE StopGoto(c, "refused")
    BY <1>5, <2>2
  <2>3. ASSUME NEW x \in {"again", "probing"}, StopGoto(c, x) PROVE Stopped(c)'
    <3>1. x \in StopSteps \ {"refused"}
      BY DEF StopSteps
    <3>2. /\ stopping'[c].step = x /\ stopping'[c].profile = s.profile
          /\ stopping'[c].target = s.target
      BY <1>6, <2>3, <3>1
    <3> QED
      BY <1>4, <2>1, <3>2 DEF Stopped
  <2>4. ASSUME NEW live \in Owners, endpoint[s.profile] = live, At(live, "serving"),
               stopping' = [stopping EXCEPT ![c].step = "ask", ![c].target = live]
        PROVE  Stopped(c)'
    <3>1. /\ stopping'[c].step = "ask" /\ stopping'[c].profile = s.profile
          /\ stopping'[c].target = live
      BY <1>1, <2>4 DEF TunnelRecords, StopRecord
    <3>2. group[live].kind = "runtime"
      BY <2>4 DEF TunnelInv, Grouped
    <3>3. owner[live].profile = s.profile
      BY <1>1, <2>1, <2>4 DEF TunnelInv, Reachable
    <3> QED
      BY <1>2, <1>3, <1>4, <2>1, <3>1, <3>2, <3>3 DEF Stopped
  <2> QED
    BY <1>10, <2>1, <2>2, <2>3, <2>4 DEF StopLook, Replies
<1>11. CASE AskStop(c)
  <2>1. s.step = "ask" /\ r # NoOwner /\ q \in Profiles
    BY <1>1, <1>7, <1>11 DEF AskStop, Stopped
  <2>2. CASE StopGoto(c, "refused")
    BY <1>5, <2>2
  <2>3. CASE StopGoto(c, "waiting") /\ owner' = [owner EXCEPT ![r].stop = TRUE]
                                  /\ At(r, "serving")
    <3>1. /\ stopping'[c].step = "waiting" /\ stopping'[c].profile = q
          /\ stopping'[c].target = r
      BY <1>6, <1>7, <2>3 DEF StopSteps
    <3>2. owner'[r].stop /\ group[r].leader \in {"alive", "zombie"}
      BY <1>1, <2>1, <2>3 DEF TunnelRecords, OwnerRecord, TunnelInv, Grouped
    <3>3. Tended(r)'
      BY <1>2, <3>2 DEF Tended
    <3> QED
      BY <1>4, <1>8, <2>1, <3>1, <3>3 DEF Stopped, Tended
  <2> QED
    BY <1>7, <1>11, <2>1, <2>2, <2>3 DEF AskStop, Replies
<1>12. CASE StopPoll(c)
  <2>1. s.step = "waiting" /\ q \in Profiles
    BY <1>1, <1>7, <1>12 DEF StopPoll, Stopped
  <2>2. CASE StopGoto(c, "refused")
    BY <1>5, <2>2
  <2>3. CASE StopGoto(c, "probing")
    <3>1. /\ stopping'[c].step = "probing" /\ stopping'[c].profile = q
          /\ stopping'[c].target = r
      BY <1>6, <1>7, <2>3 DEF StopSteps
    <3> QED
      BY <1>4, <1>8, <2>1, <3>1 DEF Stopped, Tended
  <2> QED
    BY <1>12, <2>2, <2>3 DEF StopPoll
<1>13. CASE ProbeLock(c)
  <2>1. s.step = "probing" /\ q \in Profiles
    BY <1>1, <1>7, <1>13 DEF ProbeLock, Stopped
  <2>2. CASE StopGoto(c, "refused")
    BY <1>5, <2>2
  <2>3. ASSUME NEW x \in {"waiting", "probed"}, StopGoto(c, x),
               x = "probed" => flock'[q] = c,
               x = "waiting" => r # NoOwner
        PROVE  Stopped(c)'
    <3>1. /\ stopping'[c].step = x /\ stopping'[c].profile = q
          /\ stopping'[c].target = r
      BY <1>6, <1>7, <2>3 DEF StopSteps
    <3> QED
      BY <1>4, <1>8, <2>1, <2>3, <3>1 DEF Stopped, Tended
  <2>4. q \in LockFiles
    BY <2>1 DEF LockFiles
  <2> QED
    BY <1>1, <1>7, <1>13, <2>2, <2>3, <2>4 DEF ProbeLock, TunnelRecords
<1>14. CASE EndProbe(c)
  <2>1. s.step = "probed" /\ q \in Profiles /\ flock[q] = c
    BY <1>1, <1>7, <1>14 DEF EndProbe, Stopped
  <2>2. CASE StopGoto(c, "refused")
    BY <1>5, <2>2
  <2>3. CASE StopGoto(c, "stopped")
    <3>1. /\ stopping'[c].step = "stopped" /\ stopping'[c].profile = q
          /\ stopping'[c].target = r
      BY <1>6, <1>7, <2>3 DEF StopSteps
    <3>2. r # NoOwner => Ended(r)'
      <4> SUFFICES ASSUME r # NoOwner PROVE owner[r].step \in {"done", "killed"}
        BY <1>3 DEF Ended
      <4>1. /\ group[r].kind = "runtime" /\ owner[r].profile = q
            /\ owner[r].step \in AfterBind /\ Locked(r)
        BY <1>1, <1>7 DEF Stopped, TunnelInv, Grouped
      <4>2. c # r
        BY <1>1, <2>1, <4>1 DEF Stopped, AfterBind, Stoppers
      <4> QED
        BY <2>1, <4>1, <4>2 DEF Locked, WithBoth, AfterBind
    <3> QED
      BY <1>4, <1>8, <2>1, <3>1, <3>2 DEF Stopped, Tended, Ended
  <2> QED
    BY <1>14, <2>2, <2>3 DEF EndProbe
<1> QED
  BY <1>9, <1>10, <1>11, <1>12, <1>13, <1>14 DEF StopStep

-----------------------------------------------------------------------------
LEMMA TunnelStepKeeps == TunnelInv /\ [TunnelNext]_tunnelVars => TunnelInv'
<1> SUFFICES ASSUME TunnelInv, [TunnelNext]_tunnelVars PROVE TunnelInv'
  OBVIOUS
<1>1. ASSUME NEW o \in Owners, OwnerAct(o) PROVE TunnelInv'
  <2>1. \A r \in Owners : Locked(r)' /\ Grouped(r)' /\ Reachable(r)'
    BY <1>1, OwnerKeepsItself, OwnerKeepsOthers
  <2>2. \A c \in Stoppers : Stopped(c)'
    BY <1>1, OwnerKeepsStops
  <2> QED
    BY <1>1, <2>1, <2>2, OwnersStayRecords DEF TunnelInv
<1>2. ASSUME NEW c \in Stoppers, StopCalled(c) \/ StopStep(c) PROVE TunnelInv'
  <2>1. \A r \in Owners : Locked(r)' /\ Grouped(r)' /\ Reachable(r)'
    BY <1>2, StopKeepsOwners
  <2>2. \A d \in Stoppers : Stopped(d)'
    BY <1>2, StopKeepsItself, StopKeepsOtherStops
  <2> QED
    BY <1>2, <2>1, <2>2, StopTouches DEF TunnelInv
<1>3. CASE ConfigureCheck \/ ConfigureWrite \/ UNCHANGED tunnelVars
  <2>1. UNCHANGED <<owner, group, flock, endpoint, stopping>>
    BY <1>3 DEF ConfigureCheck, ConfigureWrite, tunnelVars
  <2>2. saved' \in Profiles
    BY <1>3 DEF ConfigureCheck, ConfigureWrite, tunnelVars, TunnelInv, TunnelRecords
  <2> QED
    BY <2>1, <2>2 DEF TunnelInv, TunnelRecords, Locked, Grouped, Reachable, Stopped, Tended,
                      Ended, At
<1> QED
  BY <1>1, <1>2, <1>3 DEF TunnelNext, OwnerAct, Stoppers

LEMMA TunnelInvImplies == TunnelInv => TunnelTypeOK /\ TunnelSupervised
<1> SUFFICES ASSUME TunnelInv PROVE TunnelTypeOK /\ TunnelSupervised
  OBVIOUS
<1> USE TunnelAssumption DEF At
<1>1. TunnelTypeOK
  BY DEF TunnelInv, TunnelRecords, TunnelTypeOK, OwnerRecord, GroupRecord, StopRecord
<1>2. OneRuntimePerTunnel
  <2> SUFFICES ASSUME NEW o \in Owners, NEW r \in Owners, o # r, Runtime(o), Runtime(r),
                      TunnelOf[owner[o].profile] = TunnelOf[owner[r].profile],
                      ~LeftBehind(o), ~LeftBehind(r)
               PROVE  FALSE
    BY DEF OneRuntimePerTunnel
  <2>1. ASSUME NEW q \in Owners, Runtime(q), ~LeftBehind(q)
        PROVE  flock[TunnelOf[owner[q].profile]] = q
    <3>1. Grouped(q) /\ Locked(q) /\ group[q] \in GroupRecord
      BY DEF TunnelInv, TunnelRecords
    <3>2. group[q].leader \in {"alive", "zombie"}
      BY <2>1, <3>1 DEF Runtime, LeftBehind, Members, Grouped, GroupRecord
    <3> QED
      BY <2>1, <3>1, <3>2 DEF Runtime, LeftBehind, Grouped, Locked, WithBoth, AfterBind
  <2> QED
    BY <2>1
<1>3. ServingOwnerReachable
  BY DEF ServingOwnerReachable, TunnelInv, Reachable
<1>4. StoppedMeansGone
  <2> SUFFICES ASSUME NEW c \in Stoppers, stopping[c].step = "stopped",
                      stopping[c].target # NoOwner
               PROVE  /\ Ended(stopping[c].target)
                      /\ At(stopping[c].target, "done") => ~Members(stopping[c].target)
    BY DEF StoppedMeansGone
  <2>1. Stopped(c) /\ stopping[c] \in StopRecord
    BY DEF TunnelInv, TunnelRecords
  <2>2. stopping[c].target \in Owners /\ Grouped(stopping[c].target)
    BY <2>1 DEF StopRecord, TunnelInv
  <2> QED
    BY <2>1, <2>2 DEF Stopped, Tended, Ended, Grouped, Members
<1> QED
  BY <1>1, <1>2, <1>3, <1>4 DEF TunnelSupervised

\* Only terminate_owned() begins the grace period, and it looks at the leader first.
LEMMA SignalsLiveGroups ==
  ASSUME TunnelInv, [TunnelNext]_tunnelVars, NEW o \in Owners,
         At(o, "terminating"), owner'[o].step = "grace"
  PROVE  group[o].leader \notin {"none", "reaped"}
<1> USE DEF At
<1> TunnelRecords
  BY DEF TunnelInv
<1>1. PICK r \in Owners : OwnerAct(r)
  <2>1. ASSUME NEW c \in Stoppers, StopCalled(c) \/ StopStep(c) PROVE FALSE
    BY <2>1, StopTouches
  <2> QED
    BY <2>1 DEF TunnelNext, OwnerAct, ConfigureCheck, ConfigureWrite, tunnelVars, Stoppers
<1>2. r = o
  BY <1>1, OthersStay
<1>3. TermGroup(o)
  BY <1>1, <1>2 DEF OwnerAct, OwnerStep, BeginStart, StopReturned, AcquireLock,
         DoctorEnds, BindAndSpawn, LeaveLoop, KillGroup, CloseSocket, ReleaseLock, Announce,
         LeaderExits, SignalOwner, OwnerKilled, Goto, TunnelRecords, OwnerRecord
<1> QED
  BY <1>3 DEF TermGroup, Goto, TunnelRecords, OwnerRecord

-----------------------------------------------------------------------------
\* One runtime of a tunnel that somebody answers for, a serving owner that can be
\* reached, and a stop() that tells the truth: for every number of processes.
THEOREM TunnelIsSupervised == TunnelSpec => []TunnelSupervised
<1>1. TunnelSpec => []TunnelInv
  BY TunnelInitially, TunnelStepKeeps, PTL DEF TunnelSpec
<1> QED
  BY <1>1, TunnelInvImplies, PTL

\* No signal goes to a process group whose leader has been reaped.
THEOREM ReapedGroupsAreLeftAlone == TunnelSpec => NeverSignalsReapedGroup
<1>1. TunnelSpec => []TunnelInv
  BY TunnelInitially, TunnelStepKeeps, PTL DEF TunnelSpec
<1>2. TunnelInv /\ [TunnelNext]_tunnelVars =>
        [\A o \in Owners : (At(o, "terminating") /\ owner'[o].step = "grace")
           => group[o].leader \notin {"none", "reaped"}]_tunnelVars
  BY SignalsLiveGroups
<1> QED
  BY <1>1, <1>2, PTL DEF TunnelSpec, NeverSignalsReapedGroup

-----------------------------------------------------------------------------
(***************************************************************************)
(* The endpoint migration.                                                 *)
(***************************************************************************)
PlanRecord == [file : [Files -> Contents \cup {Unread.file[f] : f \in Files}],
               refs : 0..EditBound]
MigrationSteps == {"idle", "reviewed", "rebuilding", "preparing", "applying", "writing",
                   "written"}
MigratorRecord == [step : MigrationSteps, plan : PlanRecord, todo : SUBSET Files,
                   inHand : SUBSET Files]
ManifestRecord == [status : {"none", "prepared", "interrupted", "completed"},
                   state : [Files -> {"none", "pending", "writing", "applied"}]]

MigrationRecords ==
  /\ file \in [Files -> Contents] /\ refs \in 0..EditBound
  /\ migrator \in [Migrators -> MigratorRecord]
  /\ manifest \in [Migrators -> ManifestRecord]
  /\ backups \subseteq Files \X Contents
  /\ migrationLock \in Migrators \cup {NoMigrator}
  /\ faults \in Nat

\* What is left to do was on http in the plan, and is in the journal before the
\* first file is written.
Journalled(m) ==
  /\ ~MigrationAt(m, "idle") => migrator[m].plan.file \in [Files -> Contents]
  /\ migrator[m].step \in {"preparing", "applying", "writing", "written"} =>
       \A f \in migrator[m].todo : migrator[m].plan.file[f].scheme = "http"
  /\ migrator[m].step \in {"applying", "writing", "written"} =>
       \A f \in migrator[m].todo : <<f, migrator[m].plan.file[f]>> \in backups
  /\ migrator[m].inHand \subseteq migrator[m].todo
  /\ migrator[m].step \notin {"writing", "written"} => migrator[m].inHand = {}

MigrationInv ==
  /\ MigrationRecords
  /\ \A m \in Migrators : Journalled(m)
  /\ MigrationRecoverable

LEMMA MigrationInitially == MigrationInit => MigrationInv
<1> SUFFICES ASSUME MigrationInit PROVE MigrationInv
  OBVIOUS
<1> USE MigrationAssumption DEF MigrationInit
<1>1. Resting \in MigratorRecord
  BY DEF Resting, MigratorRecord, MigrationSteps, Unread, PlanRecord
<1>2. NoManifest \in ManifestRecord
  BY DEF NoManifest, ManifestRecord
<1>3. file \in [Files -> Contents]
  BY DEF Contents
<1>4. MigrationRecords
  BY <1>1, <1>2, <1>3 DEF MigrationRecords
<1>5. \A m \in Migrators : Journalled(m)
  BY DEF Journalled, Resting, MigrationAt
<1>6. MigrationRecoverable
  BY DEF MigrationRecoverable, JournalExplains, CompletedMeansUpgraded, NoManifest
<1> QED
  BY <1>4, <1>5, <1>6 DEF MigrationInv

\* The plan that is built now, and what it would change.
LEMMA PlanIsRead ==
  ASSUME MigrationRecords
  PROVE  /\ BuildPlan \in PlanRecord /\ BuildPlan.file = file
         /\ Changes(BuildPlan) = {f \in Files : file[f].scheme = "http"}
BY DEF MigrationRecords, BuildPlan, PlanRecord, Changes

LEMMA UpgradedIsContent ==
  \A c \in Contents : Upgraded(c) \in Contents /\ Upgraded(c).scheme = "https"
BY DEF Contents, Upgraded

\* A file changes only where a journal has its original, and never back to http.
WritesForward ==
  /\ backups \subseteq backups'
  /\ \A f \in Files :
       /\ file[f].scheme = "https" => file'[f].scheme = "https"
       /\ file'[f].scheme # file[f].scheme =>
            \E m \in Migrators :
              /\ file'[f] = Upgraded(migrator[m].plan.file[f])
              /\ <<f, migrator[m].plan.file[f]>> \in backups

\* The other migrators are left alone.
Alone(m) ==
  \A n \in Migrators \ {m} : migrator'[n] = migrator[n] /\ manifest'[n] = manifest[n]

\* How a migrator that gives up leaves things.
LEMMA InterruptKeeps ==
  ASSUME MigrationInv, NEW m \in Migrators, Interrupt(m)
  PROVE  /\ migrator' \in [Migrators -> MigratorRecord] /\ migrator'[m] = Resting
         /\ manifest' \in [Migrators -> ManifestRecord]
         /\ manifest'[m].state = manifest[m].state
         /\ manifest'[m].status \in {manifest[m].status, "interrupted"}
         /\ migrationLock' = NoMigrator
         /\ Alone(m)
<1> USE MigrationAssumption
<1>1. MigrationRecords
  BY DEF MigrationInv
<1>2. Resting \in MigratorRecord
  BY DEF Resting, MigratorRecord, MigrationSteps, Unread, PlanRecord
<1>3. [manifest[m] EXCEPT !.status = "interrupted"] \in ManifestRecord
  BY <1>1 DEF MigrationRecords, ManifestRecord
<1>4. /\ migrator' = [migrator EXCEPT ![m] = Resting] /\ migrationLock' = NoMigrator
      /\ \/ manifest' = [manifest EXCEPT ![m] = [manifest[m] EXCEPT !.status = "interrupted"]]
         \/ manifest' = manifest
  BY DEF Interrupt, Rest
<1>5. /\ manifest' \in [Migrators -> ManifestRecord]
      /\ manifest'[m].state = manifest[m].state
      /\ manifest'[m].status \in {manifest[m].status, "interrupted"}
      /\ \A n \in Migrators \ {m} : manifest'[n] = manifest[n]
  <2>1. CASE manifest' = manifest
    BY <1>1, <2>1 DEF MigrationRecords
  <2>2. CASE manifest' = [manifest EXCEPT ![m] = [manifest[m] EXCEPT !.status = "interrupted"]]
    BY <1>1, <1>3, <2>2 DEF MigrationRecords, ManifestRecord
  <2> QED
    BY <1>4, <2>1, <2>2
<1> QED
  BY <1>1, <1>2, <1>4, <1>5 DEF MigrationRecords, Alone

\* What a step of a migrator has to show: the rest follows from the frame.
LEMMA MigratorKeeps ==
  ASSUME MigrationInv, MigrationRecords', NEW m \in Migrators, Alone(m), Journalled(m)',
         WritesForward,
         \A f \in Files : manifest'[m].state[f] \in {"writing", "applied"} =>
           \/ manifest[m].state[f] \in {"writing", "applied"}
           \/ \E c \in Contents : c.scheme = "http" /\ <<f, c>> \in backups,
         manifest'[m].status = "completed" =>
           \/ manifest[m].status = "completed"
           \/ \A f \in Files : file[f].scheme = "https"
  PROVE  MigrationInv'
<1> USE DEF MigrationInv, MigrationRecoverable
<1>1. ASSUME NEW n \in Migrators, n # m PROVE Journalled(n)'
  BY <1>1 DEF Alone, Journalled, MigrationAt, WritesForward
<1>2. JournalExplains'
  BY DEF JournalExplains, WritesForward, Alone
<1>3. CompletedMeansUpgraded'
  BY DEF CompletedMeansUpgraded, WritesForward, Alone
<1> QED
  BY <1>1, <1>2, <1>3

\* Migrators that keep their hands off the files.
LEMMA NothingWritten ==
  ASSUME MigrationInv, file' = file, backups \subseteq backups'
  PROVE  WritesForward
BY DEF WritesForward

LEMMA GivingUpKeeps ==
  ASSUME MigrationInv, NEW m \in Migrators, Interrupt(m), faults' \in Nat,
         UNCHANGED <<file, refs, backups>>
  PROVE  MigrationInv' /\ WritesForward
<1>1. MigrationRecords /\ MigrationRecords'
  BY InterruptKeeps DEF MigrationInv, MigrationRecords
<1>2. Journalled(m)'
  BY InterruptKeeps DEF Journalled, MigrationAt, Resting
<1>3. WritesForward
  BY NothingWritten
<1>4. /\ Alone(m) /\ manifest'[m].state = manifest[m].state
      /\ manifest'[m].status \in {manifest[m].status, "interrupted"}
  BY InterruptKeeps
<1> QED
  BY <1>1, <1>2, <1>3, <1>4, MigratorKeeps

\* A migrator that changes its own progress only.
LEMMA MigratorMoves ==
  ASSUME MigrationInv, NEW m \in Migrators, NEW r \in MigratorRecord,
         migrator' = [migrator EXCEPT ![m] = r],
         migrationLock' \in Migrators \cup {NoMigrator},
         UNCHANGED <<file, refs, backups, manifest, faults>>,
         Journalled(m)'
  PROVE  MigrationInv' /\ WritesForward
<1>1. MigrationRecords /\ MigrationRecords'
  BY DEF MigrationInv, MigrationRecords
<1>2. Alone(m)
  BY <1>1 DEF Alone, MigrationRecords
<1>3. WritesForward
  BY NothingWritten
<1> QED
  BY <1>1, <1>2, <1>3, MigratorKeeps

LEMMA MigratorStepKeeps ==
  ASSUME MigrationInv, NEW m \in Migrators, MigratorStep(m) \/ Fault(m)
  PROVE  MigrationInv' /\ WritesForward
<1> USE MigrationAssumption
<1>0. MigrationRecords /\ Journalled(m) /\ migrator[m] \in MigratorRecord
  BY DEF MigrationInv, MigrationRecords
<1>1. CASE Preview(m)
  <2> DEFINE r == [migrator[m] EXCEPT !.step = "reviewed", !.plan = BuildPlan]
  <2>1. r \in MigratorRecord /\ r.step = "reviewed" /\ r.plan = BuildPlan
        /\ r.inHand = migrator[m].inHand /\ r.todo = migrator[m].todo
    BY <1>0, PlanIsRead DEF MigratorRecord, MigrationSteps
  <2>2. migrator' = [migrator EXCEPT ![m] = r] /\ MigrationAt(m, "idle")
    BY <1>1 DEF Preview
  <2> HIDE DEF r
  <2>3. Journalled(m)'
    BY <1>0, <2>1, <2>2, PlanIsRead DEF Journalled, MigrationAt, MigrationRecords
  <2> QED
    BY <1>0, <1>1, <2>1, <2>2, <2>3, MigratorMoves DEF Preview, MigrationRecords
<1>2. CASE TakeMigrationLock(m)
  <2> DEFINE r == [migrator[m] EXCEPT !.step = "rebuilding"]
  <2>1. r \in MigratorRecord /\ Resting \in MigratorRecord
    BY <1>0 DEF MigratorRecord, MigrationSteps, Resting, Unread, PlanRecord
  <2>2. migrator' = [migrator EXCEPT ![m] = r] \/ migrator' = [migrator EXCEPT ![m] = Resting]
    BY <1>2 DEF TakeMigrationLock, MigrationGoto, Rest
  <2>3. r.step = "rebuilding" /\ r.plan = migrator[m].plan
        /\ r.inHand = migrator[m].inHand /\ r.todo = migrator[m].todo
        /\ migrator[m].step = "reviewed"
    BY <1>0, <1>2 DEF MigratorRecord, TakeMigrationLock, MigrationAt
  <2> HIDE DEF r
  <2>4. Journalled(m)'
    BY <1>0, <2>2, <2>3 DEF Journalled, MigrationAt, MigrationRecords, Resting
  <2> QED
    BY <1>0, <1>2, <2>1, <2>2, <2>4, MigratorMoves DEF TakeMigrationLock, MigrationRecords
<1>3. CASE Rebuild(m)
  <2> DEFINE r == [migrator[m] EXCEPT !.step = "preparing", !.todo = Changes(BuildPlan)]
  <2>1. r \in MigratorRecord
    BY <1>0, PlanIsRead DEF MigratorRecord, MigrationSteps
  <2>2. Resting \in MigratorRecord
    BY DEF MigratorRecord, MigrationSteps, Resting, Unread, PlanRecord
  <2>3. \/ /\ migrator' = [migrator EXCEPT ![m] = r]
           /\ BuildPlan = migrator[m].plan
        \/ migrator' = [migrator EXCEPT ![m] = Resting]
    BY <1>3 DEF Rebuild, Rest
  <2>4. r.step = "preparing" /\ r.plan = migrator[m].plan
        /\ r.inHand = migrator[m].inHand /\ r.todo = Changes(BuildPlan)
    BY <1>0 DEF MigratorRecord
  <2>5. migrator[m].step = "rebuilding" /\ migrator[m].inHand = {}
    BY <1>0, <1>3 DEF Rebuild, Journalled, MigrationAt
  <2> HIDE DEF r
  <2>6. CASE migrator' = [migrator EXCEPT ![m] = r] /\ BuildPlan = migrator[m].plan
    <3>1. Journalled(m)'
      <4>1. migrator'[m] = r
        BY <1>0, <2>6 DEF MigrationRecords
      <4>2. r.plan.file = file /\ \A f \in r.todo : r.plan.file[f].scheme = "http"
        BY <1>0, <2>4, <2>6, PlanIsRead
      <4> QED
        BY <1>0, <2>4, <2>5, <4>1, <4>2 DEF Journalled, MigrationAt, MigrationRecords
    <3> QED
      BY <1>0, <1>3, <2>1, <2>6, <3>1, MigratorMoves DEF Rebuild, MigrationRecords
  <2>7. CASE migrator' = [migrator EXCEPT ![m] = Resting]
    <3>1. Journalled(m)'
      BY <1>0, <2>7 DEF Journalled, MigrationAt, MigrationRecords, Resting
    <3> QED
      BY <1>0, <1>3, <2>2, <2>7, <3>1, MigratorMoves DEF Rebuild, MigrationRecords
  <2> QED
    BY <2>3, <2>6, <2>7
<1>4. CASE PrepareJournal(m)
  <2> DEFINE r == [migrator[m] EXCEPT !.step = "applying"]
             k == [status |-> "prepared",
                   state |-> [f \in Files |-> IF f \in migrator[m].todo THEN "pending"
                                             ELSE "none"]]
             added == {<<f, migrator[m].plan.file[f]>> : f \in migrator[m].todo}
  <2>1. /\ r \in MigratorRecord /\ r.step = "applying" /\ r.plan = migrator[m].plan
        /\ r.inHand = migrator[m].inHand /\ r.todo = migrator[m].todo
    BY <1>0 DEF MigratorRecord, MigrationSteps
  <2>2. /\ k \in ManifestRecord /\ k.status = "prepared"
        /\ \A f \in Files : k.state[f] \in {"pending", "none"}
    BY DEF ManifestRecord
  <2>3. migrator[m].step = "preparing" /\ migrator[m].todo \subseteq Files
        /\ migrator[m].plan.file \in [Files -> Contents]
    BY <1>0, <1>4 DEF PrepareJournal, MigrationAt, Journalled, MigratorRecord
  <2>4. added \subseteq Files \X Contents
    BY <2>3
  <2>5. /\ migrator' = [migrator EXCEPT ![m] = r] /\ manifest' = [manifest EXCEPT ![m] = k]
        /\ backups' = backups \cup added /\ UNCHANGED <<file, refs, migrationLock, faults>>
    BY <1>4 DEF PrepareJournal, MigrationGoto
  <2>6. \A f \in migrator[m].todo : <<f, migrator[m].plan.file[f]>> \in added
    OBVIOUS
  <2> HIDE DEF r, k, added
  <2>7. MigrationRecords'
    BY <1>0, <2>1, <2>2, <2>4, <2>5 DEF MigrationRecords
  <2>8. Alone(m) /\ migrator'[m] = r /\ manifest'[m] = k
    BY <1>0, <2>5 DEF Alone, MigrationRecords
  <2>9. Journalled(m)'
    BY <1>0, <2>1, <2>3, <2>5, <2>6, <2>8 DEF Journalled, MigrationAt
  <2>10. WritesForward
    BY <2>5, NothingWritten
  <2> QED
    BY <1>0, <2>2, <2>7, <2>8, <2>9, <2>10, MigratorKeeps
<1>5. CASE MarkWriting(m)
  <2>1. PICK f \in migrator[m].todo :
          \/ Interrupt(m)
          \/ /\ manifest' = [manifest EXCEPT ![m].state[f] = "writing"]
             /\ migrator' = [migrator EXCEPT ![m].step = "writing", ![m].inHand = {f}]
             /\ UNCHANGED migrationLock
    BY <1>5 DEF MarkWriting
  <2>2. UNCHANGED <<file, refs, backups, faults>>
    BY <1>5 DEF MarkWriting
  <2>3. CASE Interrupt(m)
    BY <1>0, <2>2, <2>3, GivingUpKeeps DEF MigrationRecords
  <2>4. CASE ~Interrupt(m)
    <3> DEFINE r == [migrator[m] EXCEPT !.step = "writing", !.inHand = {f}]
               g == [manifest[m].state EXCEPT ![f] = "writing"]
               k == [manifest[m] EXCEPT !.state = g]
    <3>1. /\ migrator[m].step = "applying" /\ f \in Files
          /\ migrator[m].todo \subseteq Files
          /\ migrator[m].plan.file \in [Files -> Contents]
          /\ migrator[m].plan.file[f].scheme = "http"
          /\ <<f, migrator[m].plan.file[f]>> \in backups
      BY <1>0, <1>5 DEF MarkWriting, MigrationAt, Journalled, MigratorRecord
    <3>2. /\ r \in MigratorRecord /\ r.step = "writing" /\ r.plan = migrator[m].plan
          /\ r.inHand = {f} /\ r.todo = migrator[m].todo
      BY <1>0, <3>1 DEF MigratorRecord, MigrationSteps
    <3>3. /\ manifest[m] \in ManifestRecord
          /\ manifest[m].state \in [Files -> {"none", "pending", "writing", "applied"}]
      BY <1>0 DEF MigrationRecords, ManifestRecord
    <3>4. /\ g \in [Files -> {"none", "pending", "writing", "applied"}]
          /\ \A e \in Files : e # f => g[e] = manifest[m].state[e]
      BY <3>1, <3>3
    <3>5. migrator' = [migrator EXCEPT ![m] = r] /\ manifest' = [manifest EXCEPT ![m] = k]
          /\ UNCHANGED migrationLock
      BY <2>1, <2>4
    <3> HIDE DEF g
    <3>6. k \in ManifestRecord /\ k.status = manifest[m].status /\ k.state = g
      BY <3>3, <3>4 DEF ManifestRecord
    <3> HIDE DEF r, k
    <3>7. MigrationRecords'
      BY <1>0, <2>2, <3>2, <3>5, <3>6 DEF MigrationRecords
    <3>8. Alone(m) /\ migrator'[m] = r /\ manifest'[m] = k
      BY <1>0, <3>5 DEF Alone, MigrationRecords
    <3>9. Journalled(m)'
      BY <1>0, <2>2, <3>1, <3>2, <3>8 DEF Journalled, MigrationAt
    <3>10. WritesForward
      BY <2>2, NothingWritten
    <3>11. migrator[m].plan.file[f] \in Contents
      BY <3>1
    <3> QED
      BY <1>0, <3>1, <3>4, <3>6, <3>7, <3>8, <3>9, <3>10, <3>11, MigratorKeeps
  <2> QED
    BY <2>3, <2>4
<1>6. CASE WriteFile(m)
  <2> DEFINE r == [migrator[m] EXCEPT !.step = "written"]
  <2>1. /\ r \in MigratorRecord /\ r.step = "written" /\ r.plan = migrator[m].plan
        /\ r.inHand = migrator[m].inHand /\ r.todo = migrator[m].todo
    BY <1>0 DEF MigratorRecord, MigrationSteps
  <2>2. /\ migrator[m].step = "writing" /\ migrator[m].inHand \subseteq migrator[m].todo
        /\ migrator[m].plan.file \in [Files -> Contents]
        /\ \A f \in migrator[m].inHand : <<f, migrator[m].plan.file[f]>> \in backups
    BY <1>0, <1>6 DEF WriteFile, MigrationAt, Journalled, MigratorRecord
  <2>3. /\ migrator' = [migrator EXCEPT ![m] = r]
        /\ UNCHANGED <<refs, migrationLock, backups, manifest, faults>>
        /\ file' = [f \in Files |-> IF f \in migrator[m].inHand
                                   THEN Upgraded(migrator[m].plan.file[f]) ELSE file[f]]
    BY <1>6 DEF WriteFile, MigrationGoto
  <2> HIDE DEF r
  <2>4. file' \in [Files -> Contents]
    BY <1>0, <2>2, <2>3, UpgradedIsContent DEF MigrationRecords
  <2>5. MigrationRecords'
    BY <1>0, <2>1, <2>3, <2>4 DEF MigrationRecords
  <2>6. Alone(m) /\ migrator'[m] = r /\ manifest'[m] = manifest[m]
    BY <1>0, <2>3 DEF Alone, MigrationRecords
  <2>7. Journalled(m)'
    BY <1>0, <2>1, <2>2, <2>3, <2>6 DEF Journalled, MigrationAt
  <2>8. WritesForward
    <3>1. ASSUME NEW f \in Files, f \in migrator[m].inHand
          PROVE  /\ file'[f].scheme = "https"
                 /\ file'[f] = Upgraded(migrator[m].plan.file[f])
                 /\ <<f, migrator[m].plan.file[f]>> \in backups
      BY <2>2, <2>3, <3>1, UpgradedIsContent
    <3>2. \A f \in Files \ migrator[m].inHand : file'[f] = file[f]
      BY <2>3
    <3> QED
      BY <2>3, <3>1, <3>2 DEF WritesForward
  <2> QED
    BY <1>0, <2>5, <2>6, <2>7, <2>8, MigratorKeeps
<1>7. CASE MarkApplied(m)
  <2> DEFINE r == [migrator[m] EXCEPT !.step = "applying", !.inHand = {},
                                      !.todo = migrator[m].todo \ migrator[m].inHand]
             g == [f \in Files |-> IF f \in migrator[m].inHand THEN "applied"
                                  ELSE manifest[m].state[f]]
             k == [manifest[m] EXCEPT !.state = g]
  <2>1. /\ r \in MigratorRecord /\ r.step = "applying" /\ r.plan = migrator[m].plan
        /\ r.inHand = {} /\ r.todo = migrator[m].todo \ migrator[m].inHand
    BY <1>0 DEF MigratorRecord, MigrationSteps
  <2>2. /\ migrator[m].step = "written" /\ migrator[m].inHand \subseteq migrator[m].todo
        /\ migrator[m].plan.file \in [Files -> Contents]
        /\ \A f \in migrator[m].todo : /\ <<f, migrator[m].plan.file[f]>> \in backups
                                       /\ migrator[m].plan.file[f].scheme = "http"
    BY <1>0, <1>7 DEF MarkApplied, MigrationAt, Journalled, MigratorRecord
  <2>3. /\ manifest[m] \in ManifestRecord
        /\ manifest[m].state \in [Files -> {"none", "pending", "writing", "applied"}]
    BY <1>0 DEF MigrationRecords, ManifestRecord
  <2>4. /\ g \in [Files -> {"none", "pending", "writing", "applied"}]
        /\ \A f \in Files : f \notin migrator[m].inHand => g[f] = manifest[m].state[f]
    BY <2>3
  <2>5. /\ migrator' = [migrator EXCEPT ![m] = r] /\ manifest' = [manifest EXCEPT ![m] = k]
        /\ UNCHANGED <<file, refs, migrationLock, backups, faults>>
    BY <1>7 DEF MarkApplied
  <2> HIDE DEF g
  <2>6. k \in ManifestRecord /\ k.status = manifest[m].status /\ k.state = g
    BY <2>3, <2>4 DEF ManifestRecord
  <2> HIDE DEF r, k
  <2>7. MigrationRecords'
    BY <1>0, <2>1, <2>5, <2>6 DEF MigrationRecords
  <2>8. Alone(m) /\ migrator'[m] = r /\ manifest'[m] = k
    BY <1>0, <2>5 DEF Alone, MigrationRecords
  <2>9. Journalled(m)'
    BY <1>0, <2>1, <2>2, <2>5, <2>8 DEF Journalled, MigrationAt
  <2>10. WritesForward
    BY <2>5, NothingWritten
  <2>11. \A f \in Files : f \in migrator[m].inHand =>
           migrator[m].plan.file[f] \in Contents
    BY <2>2
  <2> QED
    BY <1>0, <2>2, <2>4, <2>6, <2>7, <2>8, <2>9, <2>10, <2>11, MigratorKeeps
<1>8. CASE Verify(m)
  <2>1. UNCHANGED <<file, refs, backups, faults>>
    BY <1>8 DEF Verify
  <2>2. CASE Interrupt(m)
    BY <1>0, <2>1, <2>2, GivingUpKeeps DEF MigrationRecords
  <2>3. CASE ~Interrupt(m)
    <3> DEFINE k == [manifest[m] EXCEPT !.status = "completed"]
    <3>1. /\ Changes(BuildPlan) = {} /\ migrator' = [migrator EXCEPT ![m] = Resting]
          /\ manifest' = [manifest EXCEPT ![m] = k] /\ migrationLock' = NoMigrator
      BY <1>8, <2>3 DEF Verify, Rest
    <3>2. Resting \in MigratorRecord
      BY DEF MigratorRecord, MigrationSteps, Resting, Unread, PlanRecord
    <3>3. k \in ManifestRecord /\ k.state = manifest[m].state
      BY <1>0 DEF MigrationRecords, ManifestRecord
    <3> HIDE DEF k
    <3>4. MigrationRecords'
      BY <1>0, <2>1, <3>1, <3>2, <3>3 DEF MigrationRecords
    <3>5. Alone(m) /\ migrator'[m] = Resting /\ manifest'[m] = k
      BY <1>0, <3>1 DEF Alone, MigrationRecords
    <3>6. Journalled(m)'
      BY <3>5 DEF Journalled, MigrationAt, Resting
    <3>7. WritesForward
      BY <2>1, NothingWritten
    <3>8. \A f \in Files : file[f].scheme = "https"
      BY <1>0, <3>1, PlanIsRead DEF MigrationRecords, Contents
    <3> QED
      BY <1>0, <3>3, <3>4, <3>5, <3>6, <3>7, <3>8, MigratorKeeps
  <2> QED
    BY <2>2, <2>3
<1>9. CASE Fault(m)
  BY <1>0, <1>9, GivingUpKeeps DEF Fault, MigrationRecords
<1> QED
  BY <1>1, <1>2, <1>3, <1>4, <1>5, <1>6, <1>7, <1>8, <1>9 DEF MigratorStep

\* Somebody edits a file, or a worker commits: the scheme is left as it is.
LEMMA EditorsKeep ==
  ASSUME MigrationInv, OthersWrite
  PROVE  MigrationInv' /\ WritesForward
<1> USE MigrationAssumption
<1>1. MigrationRecords
  BY DEF MigrationInv
<1>2. UNCHANGED <<migrator, migrationLock, backups, manifest, faults>>
  BY DEF OthersWrite
<1>3. /\ file' \in [Files -> Contents]
      /\ \A f \in Files : file'[f].scheme = file[f].scheme
  <2>1. CASE file' = file
    BY <1>1, <2>1 DEF MigrationRecords
  <2>2. ASSUME NEW f \in Files, file[f].rest < EditBound,
               file' = [file EXCEPT ![f].rest = @ + 1]
        PROVE  /\ file' \in [Files -> Contents]
               /\ \A e \in Files : file'[e].scheme = file[e].scheme
    <3> DEFINE c == [file[f] EXCEPT !.rest = file[f].rest + 1]
    <3>1. file[f] \in Contents
      BY <1>1 DEF MigrationRecords
    <3>2. c \in Contents /\ c.scheme = file[f].scheme
      BY <2>2, <3>1 DEF Contents
    <3>3. file' = [file EXCEPT ![f] = c]
      BY <2>2
    <3> HIDE DEF c
    <3> QED
      BY <1>1, <3>2, <3>3 DEF MigrationRecords
  <2> QED
    BY <2>1, <2>2 DEF OthersWrite
<1>4. refs' \in 0..EditBound
  BY <1>1 DEF OthersWrite, MigrationRecords
<1>5. MigrationRecords'
  BY <1>1, <1>2, <1>3, <1>4 DEF MigrationRecords
<1>6. WritesForward
  BY <1>2, <1>3 DEF WritesForward
<1>7. \A m \in Migrators : Journalled(m)'
  BY <1>2 DEF MigrationInv, Journalled, MigrationAt
<1>8. MigrationRecoverable'
  BY <1>2, <1>3 DEF MigrationInv, MigrationRecoverable, JournalExplains, CompletedMeansUpgraded
<1> QED
  BY <1>5, <1>6, <1>7, <1>8 DEF MigrationInv

LEMMA MigrationStepKeeps ==
  MigrationInv /\ [MigrationNext]_migrationVars =>
    MigrationInv' /\ [WritesForward]_migrationVars
<1> SUFFICES ASSUME MigrationInv, [MigrationNext]_migrationVars
             PROVE  MigrationInv' /\ [WritesForward]_migrationVars
  OBVIOUS
<1>1. CASE UNCHANGED migrationVars
  <2>1. MigrationInv'
    BY <1>1 DEF migrationVars, MigrationInv, MigrationRecords, Journalled, MigrationAt,
                MigrationRecoverable, JournalExplains, CompletedMeansUpgraded
  <2> QED
    BY <1>1, <2>1
<1>2. CASE MigrationNext
  BY <1>2, MigratorStepKeeps, EditorsKeep DEF MigrationNext
<1> QED
  BY <1>1, <1>2

LEMMA MigrationInvImplies == MigrationInv => MigrationTypeOK /\ MigrationRecoverable
BY DEF MigrationInv, MigrationTypeOK, MigrationRecords, MigratorRecord, ManifestRecord

LEMMA WritesAreReviewed ==
  [WritesForward]_migrationVars =>
    [\A f \in Files : file'[f].scheme # file[f].scheme =>
       \E m \in Migrators :
         /\ file'[f] = Upgraded(migrator[m].plan.file[f])
         /\ <<f, migrator[m].plan.file[f]>> \in backups]_migrationVars
BY DEF WritesForward

\* Wherever a migration is interrupted, a journal has what each written file was, and
\* one that was reported complete stays complete: for any number of migrators and files.
THEOREM MigrationCanBeUndone == MigrationSpec => []MigrationRecoverable
<1>1. MigrationSpec => []MigrationInv
  BY MigrationInitially, MigrationStepKeeps, PTL DEF MigrationSpec
<1> QED
  BY <1>1, MigrationInvImplies, PTL

\* A file changes its scheme only into what its operator reviewed and a journal can undo.
THEOREM MigrationWritesTheReviewed == MigrationSpec => ChangesOnlyAsReviewed
<1>1. MigrationSpec => []MigrationInv
  BY MigrationInitially, MigrationStepKeeps, PTL DEF MigrationSpec
<1> QED
  BY <1>1, MigrationStepKeeps, WritesAreReviewed, PTL DEF MigrationSpec, ChangesOnlyAsReviewed

-----------------------------------------------------------------------------
(***************************************************************************)
(* The three of them on one machine, as the runs look at them.             *)
(***************************************************************************)
HostInv == LockInv /\ TunnelInv /\ MigrationInv

LEMMA HostInitially == HostInit => HostInv
BY LockInitially, TunnelInitially, MigrationInitially DEF HostInit, HostInv

LEMMA HostStepKeeps ==
  HostInv /\ [HostNext]_hostVars =>
    /\ HostInv'
    /\ [TunnelNext]_tunnelVars
    /\ [MigrationNext]_migrationVars
<1> SUFFICES ASSUME HostInv, [HostNext]_hostVars
             PROVE  HostInv' /\ [TunnelNext]_tunnelVars /\ [MigrationNext]_migrationVars
  OBVIOUS
<1>1. [Next]_lockVars /\ [TunnelNext]_tunnelVars /\ [MigrationNext]_migrationVars
  BY DEF HostNext, hostVars, TunnelStep, MigrationStep
<1>2. LockInv'
  BY <1>1, ThreadPreserves, EndPreserves, StutterPreserves DEF Next, HostInv
<1> QED
  BY <1>1, <1>2, TunnelStepKeeps, MigrationStepKeeps DEF HostInv

\* The records of the lock, the tunnel and the migration are well formed.
THEOREM HostTypesCorrect == HostSpec => []HostTypes
<1>1. HostSpec => []HostInv
  BY HostInitially, HostStepKeeps, PTL DEF HostSpec
<1>2. HostInv => HostTypes
  BY TunnelInvImplies, MigrationInvImplies DEF HostInv, HostTypes, LockInv
<1> QED
  BY <1>1, <1>2, PTL

\* No step signals a process group whose number may be somebody else's, and none
\* writes what no operator reviewed.
THEOREM HostStepsAllowed == HostSpec => HostSteps
<1>1. HostSpec => []HostInv
  BY HostInitially, HostStepKeeps, PTL DEF HostSpec
<1>2. HostInv /\ [HostNext]_hostVars =>
        /\ [\A o \in Owners : (At(o, "terminating") /\ owner'[o].step = "grace")
              => group[o].leader \notin {"none", "reaped"}]_tunnelVars
        /\ [\A f \in Files : file'[f].scheme # file[f].scheme =>
              \E m \in Migrators :
                /\ file'[f] = Upgraded(migrator[m].plan.file[f])
                /\ <<f, migrator[m].plan.file[f]>> \in backups]_migrationVars
  BY HostStepKeeps, SignalsLiveGroups, MigrationStepKeeps, WritesAreReviewed DEF HostInv
<1> QED
  BY <1>1, <1>2, PTL DEF HostSpec, HostSteps, NeverSignalsReapedGroup, ChangesOnlyAsReviewed

=============================================================================
