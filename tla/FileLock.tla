------------------------------- MODULE FileLock -------------------------------
(***************************************************************************)
(* file_lock (locking.py), the re-entrant lock that the processes and      *)
(* threads working on one workspace take around a mutation: a re-entrant   *)
(* lock of the process for each path, a lock of the operating system on    *)
(* the file, and a table of who holds the file how many times.             *)
(*                                                                         *)
(* Modelled for one path.  A thread runs one process's code; a process may *)
(* end at any point, and a new one take its place.                         *)
(***************************************************************************)
EXTENDS Integers

CONSTANTS
  Processes,
  Threads,
  ProcessOf,  \* the process of each thread
  MaxDepth,   \* bound on nested uses by one thread
  Nobody

ASSUME FileLockAssumption ==
  /\ ProcessOf \in [Threads -> Processes]
  /\ MaxDepth \in Nat
  /\ Nobody \notin Threads

Steps == {"idle", "local", "find", "os", "register", "leave", "unlock", "free"}

VARIABLES
  step,   \* where each thread is within file_lock; "idle" when in no part of it
  depth,  \* number of nested bodies each thread is in
  local,  \* the RLock of each process: its owner and recursion count
  held,   \* _HELD: how often each thread holds the file, 0 when absent
  os      \* the thread whose handle has the lock of the operating system

lockVars == <<step, depth, local, held, os>>

LockTypeOK ==
  /\ step \in [Threads -> Steps]
  /\ depth \in [Threads -> Nat]
  /\ local \in [Processes -> [owner : Threads \cup {Nobody}, count : Nat]]
  /\ held \in [Threads -> Nat]
  /\ os \in Threads \cup {Nobody}

Unlocked == [owner |-> Nobody, count |-> 0]

Init ==
  /\ step = [t \in Threads |-> "idle"]
  /\ depth = [t \in Threads |-> 0]
  /\ local = [p \in Processes |-> Unlocked]
  /\ held = [t \in Threads |-> 0]
  /\ os = Nobody

-----------------------------------------------------------------------------
LocalOf(t) == local[ProcessOf[t]]

Move(t, from, to) == step[t] = from /\ step' = [step EXCEPT ![t] = to]

Begin(t) ==
  /\ depth[t] < MaxDepth
  /\ Move(t, "idle", "local")
  /\ UNCHANGED <<depth, local, held, os>>

AcquireLocal(t) ==
  /\ LocalOf(t).owner \in {Nobody, t}
  /\ Move(t, "local", "find")
  /\ local' = [local EXCEPT ![ProcessOf[t]] =
                 [owner |-> t, count |-> LocalOf(t).count + 1]]
  /\ UNCHANGED <<depth, held, os>>

\* WorkspaceBusyError before anything was taken.
LocalBusy(t) ==
  /\ LocalOf(t).owner \notin {Nobody, t}
  /\ Move(t, "local", "idle")
  /\ UNCHANGED <<depth, local, held, os>>

\* The thread has the file already: one more body.
Reenter(t) ==
  /\ held[t] > 0
  /\ Move(t, "find", "idle")
  /\ held' = [held EXCEPT ![t] = @ + 1]
  /\ depth' = [depth EXCEPT ![t] = @ + 1]
  /\ UNCHANGED <<local, os>>

FaultyOpen(t) ==
  /\ Move(t, "find", "os")
  /\ UNCHANGED <<depth, local, held, os>>

Open(t) ==
  /\ held[t] = 0
  /\ Move(t, "find", "os")
  /\ UNCHANGED <<depth, local, held, os>>

AcquireOs(t) ==
  /\ os = Nobody
  /\ Move(t, "os", "register")
  /\ os' = t
  /\ UNCHANGED <<depth, local, held>>

\* (A wait without its deadline.)
FaultyOsWait(t) ==
  /\ os = Nobody
  /\ Move(t, "os", "leave")
  /\ UNCHANGED <<depth, local, held, os>>

\* The file cannot be opened, or stays locked until the deadline.
OsBusy(t) ==
  /\ Move(t, "os", "leave")
  /\ UNCHANGED <<depth, local, held, os>>

Register(t) ==
  /\ Move(t, "register", "idle")
  /\ held' = [held EXCEPT ![t] = 1]
  /\ depth' = [depth EXCEPT ![t] = @ + 1]
  /\ UNCHANGED <<local, os>>

\* The end of a body, by return or by an exception.
Exit(t) ==
  /\ depth[t] > 0
  /\ Move(t, "idle", "leave")
  /\ depth' = [depth EXCEPT ![t] = @ - 1]
  /\ UNCHANGED <<local, held, os>>

FaultyCount(t) ==
  /\ held' = [held EXCEPT ![t] = @ - 1]
  /\ Move(t, "leave", IF held[t] = 1 THEN "unlock" ELSE "free")
  /\ UNCHANGED <<depth, local, os>>

FaultyLeave(t) ==
  /\ held' = [held EXCEPT ![t] = 0]
  /\ Move(t, "leave", IF held[t] > 0 THEN "unlock" ELSE "free")
  /\ UNCHANGED <<depth, local, os>>

\* The finally clause: only the outermost holder gives the file back.
Leave(t) ==
  /\ held' = [held EXCEPT ![t] = IF @ > 0 THEN @ - 1 ELSE 0]
  /\ Move(t, "leave", IF held[t] = 1 THEN "unlock" ELSE "free")
  /\ UNCHANGED <<depth, local, os>>

Unlock(t) ==
  /\ Move(t, "unlock", "free")
  /\ os' = Nobody
  /\ UNCHANGED <<depth, local, held>>

Free(t) ==
  /\ Move(t, "free", "idle")
  /\ local' = [local EXCEPT ![ProcessOf[t]] =
                 IF LocalOf(t).count = 1 THEN Unlocked
                 ELSE [owner |-> t, count |-> LocalOf(t).count - 1]]
  /\ UNCHANGED <<depth, held, os>>

FaultyEnd(p) ==
  LET mine == {t \in Threads : ProcessOf[t] = p}
  IN /\ step'  = [t \in Threads |-> IF t \in mine THEN "idle" ELSE step[t]]
     /\ depth' = [t \in Threads |-> IF t \in mine THEN 0 ELSE depth[t]]
     /\ held'  = [t \in Threads |-> IF t \in mine THEN 0 ELSE held[t]]
     /\ local' = [local EXCEPT ![p] = Unlocked]
     /\ UNCHANGED os

\* A process ends, cleanly or not: the operating system takes its lock back.
End(p) ==
  LET mine == {t \in Threads : ProcessOf[t] = p}
  IN /\ step'  = [t \in Threads |-> IF t \in mine THEN "idle" ELSE step[t]]
     /\ depth' = [t \in Threads |-> IF t \in mine THEN 0 ELSE depth[t]]
     /\ held'  = [t \in Threads |-> IF t \in mine THEN 0 ELSE held[t]]
     /\ local' = [local EXCEPT ![p] = Unlocked]
     /\ os'    = IF os \in mine THEN Nobody ELSE os

LockStep(t) ==
  \/ AcquireLocal(t) \/ LocalBusy(t) \/ Reenter(t) \/ Open(t) \/ AcquireOs(t)
  \/ OsBusy(t) \/ Register(t) \/ Leave(t) \/ Unlock(t) \/ Free(t)

Next ==
  \/ \E t \in Threads : Begin(t) \/ LockStep(t) \/ Exit(t)
  \/ \E p \in Processes : End(p)

Spec == Init /\ [][Next]_lockVars

\* A thread within file_lock runs on: each of its two waits has a deadline.
FairSpec == Spec /\ \A t \in Threads : WF_lockVars(LockStep(t))

-----------------------------------------------------------------------------
(* Properties. *)

Inside(t) == depth[t] > 0

\* Two threads are never inside the lock at once, of one process or of several,
\* however deep their nesting, whoever times out and whichever process ends.
MutualExclusion == \A t, u \in Threads : Inside(t) /\ Inside(u) => t = u

\* A thread outside the lock has left nothing behind: after a time-out, an error
\* or a full unwinding it holds neither the file, nor the process's lock.
NothingLeaked ==
  \A t \in Threads : step[t] = "idle" /\ ~Inside(t) =>
    held[t] = 0 /\ os # t /\ LocalOf(t).owner # t

\* A thread inside the lock can always nest: neither wait can fail it.
NestingSucceeds ==
  \A t \in Threads : Inside(t) =>
    /\ LocalOf(t).owner = t
    /\ step[t] = "find" => held[t] > 0
    /\ step[t] # "os"

\* What file_lock promises at every moment.
LockSound == MutualExclusion /\ NothingLeaked /\ NestingSucceeds

\* Every attempt and every exit ends.
AttemptsEnd == \A t \in Threads : step[t] # "idle" ~> step[t] = "idle"

=============================================================================
