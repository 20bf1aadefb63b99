-------------------------- MODULE PublicationProofs --------------------------
(***************************************************************************)
(* Proofs about the workspaces and their reviewed publication, for any     *)
(* number of ids, callers, trees and plans, and every bound.               *)
(*                                                                         *)
(* A step of a caller changes its own locals and what belongs to its       *)
(* workspace.  No other caller is busy with that workspace (Sole), so what *)
(* the others know of theirs (Local) stays true: OthersKept says so once,  *)
(* and each action is left with its own caller.                            *)
(*                                                                         *)
(* Every step of a publication is a step of the workspaces or leaves them  *)
(* alone, so what is proved of them carries over.  What a finish relies on *)
(* is stated per caller (AsReviewed) for as long as nothing has disturbed  *)
(* it.                                                                     *)
(***************************************************************************)
EXTENDS Publication, SequenceTheorems, TLAPS

LocalPoints == {"commit", "check push", "check push-mr", "push", "push-mr",
                "check", "probe", "recheck", "remove", "drop", "forget"}

AtLeast(old, new) ==
  /\ old.attempts <= new.attempts
  /\ old.pushed => new.pushed
  /\ old.mr => new.mr

\* The variables but for the count of calls.
Typed ==
  /\ branch \in Histories \cup {Absent}
  /\ remote \in Histories \cup {Absent}
  /\ published \subseteq Histories
  /\ tree \in [Ids -> Trees \cup {Absent}]
  /\ saved \in [Ids -> States \cup {Absent}]
  /\ lock \in [Ids -> Callers \cup {Absent}]
  /\ call \in [Callers -> Calls]

\* A busy caller holds the lock of its workspace, or the workspace is not known yet.
Owner(p) ==
  /\ ~Free(p) =>
       /\ call[p].ws \in Ids
       /\ call[p].state \in States
       /\ lock[call[p].ws] = p \/ saved[call[p].ws] = Absent
       /\ lock[call[p].ws] = p => saved[call[p].ws] # Absent
       /\ saved[call[p].ws] # Absent => AtLeast(saved[call[p].ws], call[p].state)
  /\ call[p].at \in LocalPoints => lock[call[p].ws] = p
  /\ \A w \in Ids : lock[w] = p => ~Free(p) /\ call[p].ws = w

\* The worktree of a locked workspace is there until the caller has removed it.
Files(p) ==
  /\ call[p].at \in LocalPoints \ {"drop", "forget"} => tree[call[p].ws] # Absent
  /\ call[p].at \in {"drop", "forget"} => tree[call[p].ws] = Absent

\* What a caller may delete was published when it looked, unless it is forced; a merge
\* request is asked for with the first push only.
Verified(p) ==
  /\ call[p].at \in {"look", "replace", "add"} => call[p].target \in published
  /\ call[p].at \in {"probe", "recheck", "remove", "drop", "replace"} => call[p].head \in Histories
  /\ call[p].at \in {"recheck", "remove", "drop"} /\ ~call[p].force => WasPublished(call[p].head)
  /\ call[p].at = "replace" => WasPublished(call[p].head)
  /\ call[p].at \in {"check push-mr", "push-mr"} => ~call[p].state.pushed

Local(p) == Owner(p) /\ Files(p) /\ Verified(p)

Sole == \A p, q \in Callers : p # q /\ ~Free(p) /\ ~Free(q) => call[p].ws # call[q].ws

Tips == <<>> \in published /\ (remote # Absent => remote \in published)

\* A state file that is there to stay.
Names(w) == saved[w] # Absent /\ \A p \in Callers : At(p, "forget") => call[p].ws # w

Named == branch # Absent /\ ~WasPublished(branch) => \E w \in Ids : Names(w)

WorkspaceInv ==
  /\ Typed
  /\ \A p \in Callers : Local(p)
  /\ Sole
  /\ Tips
  /\ Named

-----------------------------------------------------------------------------
(* Histories *)

LEMMA Distinct ==
  /\ Absent \notin Histories /\ Absent \notin States /\ Absent \notin Trees
  /\ Absent \notin Callers /\ Absent \notin Ids
BY WorkspaceAssumption DEF Histories

LEMMA PrefixOfItself == ASSUME NEW h \in Histories PROVE IsPrefix(h, h)
<1>1. Len(h) \in Nat BY DEF Histories
<1> QED BY <1>1 DEF IsPrefix

LEMMA PrefixOfAppend ==
  ASSUME NEW h \in Seq(Trees \cup {Root}), NEW t \in Trees
  PROVE  IsPrefix(h, Append(h, t))
<1> DEFINE S == Trees \cup {Root}
           g == Append(h, t)
           a == SubSeq(h, 1, Len(h))
           b == SubSeq(g, 1, Len(h))
<1>1. /\ Len(h) \in Nat
      /\ g \in Seq(S) /\ Len(g) = Len(h) + 1
      /\ \A i \in 1..Len(h) : g[i] = h[i]
  BY AppendProperties, LenProperties
<1>2. \A i \in 1..Len(h) : h[i] \in S /\ g[i] \in S
  BY <1>1, ElementOfSeq
<1> HIDE DEF g, S
<1>3. /\ a \in Seq(S) /\ Len(a) = Len(h) /\ \A i \in 1..Len(h) : a[i] = h[i]
  BY <1>1, <1>2, SubSeqProperties
<1>4. /\ b \in Seq(S) /\ Len(b) = Len(h) /\ \A i \in 1..Len(h) : b[i] = g[i]
  BY <1>1, <1>2, SubSeqProperties
<1> HIDE DEF a, b
<1>5. a = b
  BY <1>1, <1>3, <1>4, SeqEqual
<1> QED BY <1>1, <1>5 DEF IsPrefix, a, b, g

LEMMA EmptyHistory == ASSUME NEW h \in Histories, Len(h) = 0 PROVE h = <<>>
BY EmptySeq DEF Histories

LEMMA AppendHistory ==
  ASSUME NEW h \in Seq(Trees \cup {Root}), NEW t \in Trees
  PROVE  Append(h, t) \in Histories
<1> DEFINE S == Trees \cup {Root}
<1>1. t \in S
  OBVIOUS
<1> HIDE DEF S
<1>2. Append(h, t) \in Seq(S) /\ Len(Append(h, t)) = Len(h) + 1 /\ Append(h, t)[Len(h) + 1] = t
  BY <1>1, AppendProperties DEF S
<1> QED BY <1>2 DEF Histories, Last, S

LEMMA TipTreeType == ASSUME NEW h \in Histories PROVE TipTree(h) \in Trees
BY WorkspaceAssumption DEF Histories, TipTree

-----------------------------------------------------------------------------
(* What a step of one caller leaves to the others. *)

\* The step changes the locals and the workspace of p only.
Frame(p) ==
  /\ \A q \in Callers \ {p} : call'[q] = call[q] /\ \A w \in Ids : lock'[w] = q <=> lock[w] = q
  /\ \A w \in Ids : Free(p) \/ w # call[p].ws =>
       saved'[w] = saved[w] /\ (tree'[w] = Absent <=> tree[w] = Absent)
  /\ published \subseteq published'

LEMMA PublishedStays ==
  ASSUME published \subseteq published', NEW h, WasPublished(h)
  PROVE  WasPublished(h)'
BY DEF WasPublished

LEMMA StaysLocal ==
  ASSUME NEW q \in Callers, Local(q),
         call'[q] = call[q],
         \A w \in Ids : lock'[w] = q <=> lock[w] = q,
         ~Free(q) => /\ saved'[call[q].ws] = saved[call[q].ws]
                     /\ tree'[call[q].ws] = Absent <=> tree[call[q].ws] = Absent,
         published \subseteq published'
  PROVE  Local(q)'
<1>1. Owner(q)'
  BY DEF Local, Owner, Free, LocalPoints
<1>2. Files(q)'
  BY DEF Local, Owner, Files, Free, LocalPoints
<1>3. Verified(q)'
  BY PublishedStays DEF Local, Verified
<1> QED BY <1>1, <1>2, <1>3 DEF Local

LEMMA OthersKept ==
  ASSUME NEW p \in Callers, WorkspaceInv, Frame(p), Local(p)',
         \A q \in Callers \ {p} : ~Free(q) /\ ~Free(p)' => call'[p].ws # call[q].ws
  PROVE  (\A q \in Callers : Local(q))' /\ Sole'
<1>1. ASSUME NEW q \in Callers PROVE Local(q)'
  <2>1. CASE q = p
    BY <2>1
  <2>2. CASE q # p
    <3>1. ~Free(q) => call[q].ws \in Ids /\ (Free(p) \/ call[q].ws # call[p].ws)
      BY <2>2 DEF WorkspaceInv, Local, Owner, Sole
    <3> QED BY <2>2, <3>1, StaysLocal DEF WorkspaceInv, Frame
  <2> QED BY <2>1, <2>2
<1>2. Sole'
  BY DEF WorkspaceInv, Sole, Frame, Free
<1> QED BY <1>1, <1>2

-----------------------------------------------------------------------------
(* A call begins. *)

LEMMA BeginKeeps ==
  ASSUME NEW p \in Callers, NEW w \in Ids, NEW state \in States, NEW force \in BOOLEAN,
         NEW at \in {"save", "commit", "check push", "check push-mr", "check"},
         WorkspaceInv, AtLeast(saved[w], state), at = "check push-mr" => ~state.pushed,
         at = "save" \/ HasWorktree(w),
         Begin(p, w, at, state, force)
  PROVE  WorkspaceInv'
<1> DEFINE c == [NoCall(at) EXCEPT !.ws = w, !.state = state, !.force = force]
<1>1. c \in Calls /\ c.at = at /\ c.ws = w /\ c.state = state /\ c.force = force
  BY DEF NoCall, Calls, Points
<1>2. /\ Free(p) /\ lock[w] = Absent /\ saved[w] # Absent /\ (at = "save" \/ tree[w] # Absent)
      /\ lock' = [lock EXCEPT ![w] = p] /\ call' = [call EXCEPT ![p] = c]
      /\ UNCHANGED <<branch, remote, published, tree, saved>>
  BY DEF Begin, repoVars, HasWorktree
<1> HIDE DEF c
<1>3. Typed'
  BY <1>1, <1>2 DEF WorkspaceInv, Typed
<1>4. call'[p] = c /\ lock'[w] = p
  BY <1>2 DEF WorkspaceInv, Typed
<1>5. Local(p)'
  <2>1. Owner(p)'
    BY <1>1, <1>2, <1>4, Distinct DEF WorkspaceInv, Typed, Local, Owner, Free, LocalPoints
  <2>2. Files(p)' /\ Verified(p)'
    BY <1>1, <1>2, <1>4 DEF Files, Verified, LocalPoints
  <2> QED BY <2>1, <2>2 DEF Local
<1>6. Frame(p)
  BY <1>2, Distinct DEF WorkspaceInv, Typed, Frame
<1>7. ASSUME NEW q \in Callers \ {p}, ~Free(q) PROVE call'[p].ws # call[q].ws
  <2>1. lock[call[q].ws] = q \/ saved[call[q].ws] = Absent
    BY <1>7 DEF WorkspaceInv, Local, Owner
  <2> QED BY <1>1, <1>2, <1>4, <2>1, Distinct
<1>8. Tips'
  BY <1>2 DEF WorkspaceInv, Tips
<1>9. Named'
  <2>1. \A v \in Ids : Names(v) => Names(v)'
    BY <1>1, <1>2 DEF WorkspaceInv, Typed, Names, At
  <2> QED BY <1>2, <2>1 DEF WorkspaceInv, Named, WasPublished
<1> QED BY <1>3, <1>5, <1>6, <1>7, <1>8, <1>9, OthersKept DEF WorkspaceInv

-----------------------------------------------------------------------------
(* A call goes on. *)

\* The locals of p become c, of the same call.
Moves(p, c) ==
  /\ ~Free(p)
  /\ c \in Calls /\ c.at # "idle" /\ c.ws = call[p].ws
  /\ c.state \in States /\ AtLeast(call[p].state, c.state)
  /\ c.at \in LocalPoints => call[p].at \in LocalPoints
  /\ call' = [call EXCEPT ![p] = c]
  /\ UNCHANGED <<saved, lock>>

LEMMA BusyState ==
  ASSUME NEW p \in Callers, WorkspaceInv, ~Free(p)
  PROVE  /\ call[p] \in Calls /\ call[p].ws \in Ids /\ call[p].state \in States
         /\ AtLeast(call[p].state, call[p].state)
<1>1. call[p] \in Calls /\ call[p].ws \in Ids /\ call[p].state \in States
  BY DEF WorkspaceInv, Typed, Local, Owner
<1>2. call[p].state.attempts \in Nat
  BY <1>1, WorkspaceAssumption DEF States
<1> QED BY <1>1, <1>2 DEF AtLeast

LEMMA AtLeastTransitive ==
  ASSUME NEW r \in States, NEW s \in States, NEW t \in States, AtLeast(r, s), AtLeast(s, t)
  PROVE  AtLeast(r, t)
BY WorkspaceAssumption DEF AtLeast, States

LEMMA MoveKeeps ==
  ASSUME NEW p \in Callers, NEW c, WorkspaceInv, Moves(p, c),
         Typed', Files(p)', Verified(p)', Tips', published \subseteq published',
         \A w \in Ids : w # call[p].ws => tree'[w] = tree[w],
         c.at = "forget" => branch' = Absent,
         branch' \in {branch, Absent} \/ WasPublished(branch)' \/ call[p].at = "commit"
  PROVE  WorkspaceInv'
<1>1. call'[p] = c /\ \A q \in Callers \ {p} : call'[q] = call[q]
  BY DEF WorkspaceInv, Typed, Moves
<1>2. Local(p)'
  <2>1. saved[call[p].ws] # Absent => AtLeast(saved[call[p].ws], c.state)
    BY BusyState, AtLeastTransitive DEF WorkspaceInv, Typed, Local, Owner, Moves
  <2>2. Owner(p)'
    BY <1>1, <2>1 DEF WorkspaceInv, Local, Owner, Moves, Free
  <2> QED BY <2>2 DEF Local
<1>3. Frame(p)
  BY <1>1 DEF Frame, Moves
<1>4. ASSUME NEW q \in Callers \ {p}, ~Free(q) PROVE call'[p].ws # call[q].ws
  BY <1>1, <1>4 DEF WorkspaceInv, Sole, Moves
<1>5. Named'
  <2> SUFFICES ASSUME branch' # Absent, ~WasPublished(branch)' PROVE \E w \in Ids : Names(w)'
    BY DEF Named, Names, WasPublished, At
  <2>1. c.at # "forget"
    OBVIOUS
  <2>2. CASE branch' = branch
    <3>1. \E w \in Ids : Names(w)
      BY <2>2 DEF WorkspaceInv, Named, WasPublished
    <3>2. \A w \in Ids : Names(w) => Names(w)'
      BY <1>1, <2>1 DEF Names, At, Moves
    <3> QED BY <3>1, <3>2
  <2>3. CASE call[p].at = "commit"
    <3>1. call[p].ws \in Ids /\ saved[call[p].ws] # Absent
      BY <2>3, BusyState DEF WorkspaceInv, Local, Owner, Moves, LocalPoints
    <3>2. \A q \in Callers \ {p} : At(q, "forget") => call[q].ws # call[p].ws
      BY DEF WorkspaceInv, Sole, Moves, At, Free
    <3>3. Names(call[p].ws)'
      BY <1>1, <2>1, <3>1, <3>2 DEF Names, At, Moves
    <3> QED BY <1>1, <3>1, <3>3 DEF Moves
  <2> QED BY <2>2, <2>3
<1> QED BY <1>2, <1>3, <1>4, <1>5, OthersKept DEF WorkspaceInv

-----------------------------------------------------------------------------
(* A call ends. *)

LEMMA EndKeeps ==
  ASSUME NEW p \in Callers, WorkspaceInv, ~Free(p), End(p), Typed', Tips',
         UNCHANGED <<published, tree>>,
         branch' = branch \/ WasPublished(branch)',
         \A w \in Ids : saved'[w] # saved[w] =>
           w = call[p].ws /\ (saved'[w] # Absent \/ At(p, "forget"))
  PROVE  WorkspaceInv'
<1>1. /\ call'[p] = NoCall("idle") /\ \A q \in Callers \ {p} : call'[q] = call[q]
      /\ lock' = Unlocked(p)
  BY DEF WorkspaceInv, Typed, End
<1>2. Local(p)'
  <2>1. \A w \in Ids : lock'[w] # p
    BY <1>1, Distinct DEF Unlocked
  <2>2. call'[p].at = "idle"
    BY <1>1 DEF NoCall
  <2> QED BY <2>1, <2>2 DEF Local, Owner, Files, Verified, Free, LocalPoints
<1>3. Frame(p)
  BY <1>1, Distinct DEF Frame, Unlocked
<1>4. Free(p)'
  BY <1>1 DEF Free, NoCall
<1>5. Named'
  <2> SUFFICES ASSUME branch' # Absent, ~WasPublished(branch)' PROVE \E w \in Ids : Names(w)'
    BY DEF Named, Names, WasPublished, At
  <2>1. PICK w \in Ids : Names(w)
    BY DEF WorkspaceInv, Named, WasPublished
  <2>2. saved'[w] # Absent
    BY <2>1 DEF Names
  <2>3. \A q \in Callers : At(q, "forget")' => At(q, "forget") /\ call'[q].ws = call[q].ws
    BY <1>1, <1>4 DEF At, Free
  <2>4. Names(w)'
    BY <2>1, <2>2, <2>3 DEF Names
  <2> QED BY <2>4
<1> QED BY <1>2, <1>3, <1>4, <1>5, OthersKept DEF WorkspaceInv

-----------------------------------------------------------------------------
(* Creation and checkout. *)

LEMMA NewCallKeeps ==
  ASSUME NEW p \in Callers, NEW w \in Ids, NEW state \in States,
         NEW at \in {"add new", "fetch"},
         WorkspaceInv, Free(p), Unused(w),
         call' = [call EXCEPT ![p] = [NoCall(at) EXCEPT !.ws = w, !.state = state]],
         UNCHANGED <<repoVars, saved, lock>>
  PROVE  WorkspaceInv'
<1> DEFINE c == [NoCall(at) EXCEPT !.ws = w, !.state = state]
<1>1. c \in Calls /\ c.at = at /\ c.ws = w /\ c.state = state
  BY DEF NoCall, Calls, Points
<1>2. call' = [call EXCEPT ![p] = c] /\ UNCHANGED <<branch, remote, published, tree, saved, lock>>
  BY DEF repoVars
<1> HIDE DEF c
<1>3. Typed'
  BY <1>1, <1>2 DEF WorkspaceInv, Typed
<1>4. call'[p] = c /\ \A q \in Callers \ {p} : call'[q] = call[q]
  BY <1>2 DEF WorkspaceInv, Typed
<1>5. Local(p)'
  <2>1. saved[w] = Absent /\ \A v \in Ids : lock[v] # p
    BY DEF WorkspaceInv, Local, Owner, Unused
  <2>2. Owner(p)'
    BY <1>1, <1>2, <1>4, <2>1 DEF Owner, Free, LocalPoints
  <2>3. Files(p)' /\ Verified(p)'
    BY <1>1, <1>4 DEF Files, Verified, LocalPoints
  <2> QED BY <2>2, <2>3 DEF Local
<1>6. Frame(p)
  BY <1>2, <1>4 DEF Frame
<1>7. \A q \in Callers \ {p} : call'[p].ws # call[q].ws
  BY <1>1, <1>4 DEF Unused
<1>8. Tips'
  BY <1>2 DEF WorkspaceInv, Tips
<1>9. \A v \in Ids : Names(v) => Names(v)'
  BY <1>1, <1>2, <1>4 DEF Names, At
<1>10. Named'
  BY <1>2, <1>9 DEF WorkspaceInv, Named, WasPublished
<1> QED BY <1>3, <1>5, <1>6, <1>7, <1>8, <1>10, OthersKept DEF WorkspaceInv

LEMMA BasePublished ==
  ASSUME WorkspaceInv PROVE <<>> \in Histories /\ WasPublished(<<>>)
BY PrefixOfItself DEF WorkspaceInv, Typed, Tips, WasPublished

LEMMA PublishedItself ==
  ASSUME WorkspaceInv, NEW h \in published PROVE h \in Histories /\ WasPublished(h)
BY PrefixOfItself DEF WorkspaceInv, Typed, WasPublished

LEMMA AddNewKeeps ==
  ASSUME NEW p \in Callers, WorkspaceInv, AddNew(p) PROVE WorkspaceInv'
<1> DEFINE c == [call[p] EXCEPT !.at = "save"]
<1>1. Moves(p, c)
  BY BusyState DEF AddNew, Moves, At, Goto, Free, Calls, Points, LocalPoints, WorkspaceInv, Typed
<1>2. call'[p] = c /\ c.at = "save"
  BY <1>1 DEF WorkspaceInv, Typed, Moves
<1>3. Typed'
  BY <1>1, BasePublished, WorkspaceAssumption DEF WorkspaceInv, Typed, AddNew, Moves
<1>4. Files(p)' /\ Verified(p)'
  BY <1>2 DEF Files, Verified, LocalPoints
<1>5. Tips' /\ published' = published /\ WasPublished(branch)'
  BY BasePublished DEF WorkspaceInv, Tips, AddNew, WasPublished
<1>6. \A w \in Ids : w # call[p].ws => tree'[w] = tree[w]
  BY DEF AddNew, WorkspaceInv, Typed
<1> QED BY <1>1, <1>2, <1>3, <1>4, <1>5, <1>6, MoveKeeps

LEMMA FetchKeeps ==
  ASSUME NEW p \in Callers, WorkspaceInv, Fetch(p) PROVE WorkspaceInv'
<1> DEFINE c == [call[p] EXCEPT !.at = "look", !.target = remote]
<1>0. UNCHANGED <<branch, remote, published, tree>>
  BY DEF Fetch, repoVars
<1>1. Moves(p, c)
  BY BusyState DEF Fetch, Moves, At, Free, Calls, Points, LocalPoints, WorkspaceInv, Typed
<1>2. call'[p] = c /\ c.at = "look" /\ c.target = remote
  BY <1>1 DEF WorkspaceInv, Typed, Moves, Calls
<1>3. Typed'
  BY <1>0, <1>1 DEF WorkspaceInv, Typed, Moves
<1>4. Files(p)' /\ Verified(p)'
  <2>1. remote \in published
    BY DEF WorkspaceInv, Tips, Fetch
  <2> HIDE DEF c
  <2> QED BY <1>0, <1>2, <2>1 DEF Files, Verified, LocalPoints
<1>5. Tips'
  BY <1>0 DEF WorkspaceInv, Tips
<1> QED BY <1>0, <1>1, <1>2, <1>3, <1>4, <1>5, MoveKeeps

LEMMA LookKeeps ==
  ASSUME NEW p \in Callers, WorkspaceInv, Look(p) PROVE WorkspaceInv'
<1>0. UNCHANGED <<branch, remote, published, tree, saved, lock>> /\ At(p, "look")
  BY DEF Look, repoVars
<1>1. call[p].target \in published
  BY <1>0 DEF WorkspaceInv, Local, Verified, At
<1>2. Tips'
  BY <1>0 DEF WorkspaceInv, Tips
<1>3. CASE branch = Absent /\ Goto(p, "add")
  <2> DEFINE c == [call[p] EXCEPT !.at = "add"]
  <2>1. Moves(p, c)
    BY <1>0, <1>3, BusyState DEF Moves, At, Goto, Free, Calls, Points, LocalPoints, WorkspaceInv, Typed
  <2>2. call'[p] = c /\ c.at = "add" /\ c.target = call[p].target
    BY <2>1, BusyState DEF WorkspaceInv, Typed, Moves, Calls
  <2>3. Typed'
    BY <1>0, <2>1 DEF WorkspaceInv, Typed, Moves
  <2>4. Files(p)' /\ Verified(p)'
    BY <1>0, <1>1, <2>2 DEF Files, Verified, LocalPoints
  <2> QED BY <1>0, <1>2, <2>1, <2>2, <2>3, <2>4, MoveKeeps
<1>4. CASE /\ branch # Absent
           /\ Replaceable(call[p].target)
           /\ call' = [call EXCEPT ![p] = [call[p] EXCEPT !.at = "replace", !.head = branch]]
  <2> DEFINE c == [call[p] EXCEPT !.at = "replace", !.head = branch]
  <2>1. Moves(p, c)
    BY <1>0, <1>4, BusyState DEF Moves, At, Free, Calls, Points, LocalPoints, WorkspaceInv, Typed
  <2>2. call'[p] = c /\ c.at = "replace" /\ c.target = call[p].target /\ c.head = branch
    BY <2>1, BusyState DEF WorkspaceInv, Typed, Moves, Calls
  <2>3. Typed'
    BY <1>0, <2>1 DEF WorkspaceInv, Typed, Moves
  <2>4. branch \in Histories /\ WasPublished(branch)
    BY <1>1, <1>4 DEF WorkspaceInv, Typed, Replaceable, IsAncestor, WasPublished
  <2>5. Files(p)' /\ Verified(p)'
    BY <1>0, <1>1, <2>2, <2>4 DEF Files, Verified, LocalPoints, WasPublished
  <2> QED BY <1>0, <1>2, <2>1, <2>2, <2>3, <2>5, MoveKeeps
<1> QED BY <1>3, <1>4 DEF Look

LEMMA ReplaceKeeps ==
  ASSUME NEW p \in Callers, WorkspaceInv, Replace(p) PROVE WorkspaceInv'
<1> DEFINE c == [call[p] EXCEPT !.at = "add"]
<1>0. UNCHANGED <<remote, published, tree>> /\ branch' = Absent
  BY DEF Replace, DeleteBranch
<1>1. Moves(p, c)
  BY BusyState DEF Replace, Moves, At, Goto, Free, Calls, Points, LocalPoints, WorkspaceInv, Typed
<1>2. call'[p] = c /\ c.at = "add" /\ c.target = call[p].target
  BY <1>1, BusyState DEF WorkspaceInv, Typed, Moves, Calls
<1>3. Typed'
  BY <1>0, <1>1 DEF WorkspaceInv, Typed, Moves
<1>4. call[p].target \in published
  BY DEF WorkspaceInv, Local, Verified, Replace, At
<1>5. Files(p)' /\ Verified(p)'
  BY <1>0, <1>2, <1>4 DEF Files, Verified, LocalPoints
<1>6. Tips'
  BY <1>0 DEF WorkspaceInv, Tips
<1> QED BY <1>0, <1>1, <1>2, <1>3, <1>5, <1>6, MoveKeeps

LEMMA AddKeeps ==
  ASSUME NEW p \in Callers, WorkspaceInv, Add(p) PROVE WorkspaceInv'
<1>0. UNCHANGED <<remote, published, saved>> /\ At(p, "add") /\ branch' = call[p].target
  BY DEF Add
<1>1. call[p].target \in published
  BY <1>0 DEF WorkspaceInv, Local, Verified, At
<1>2. Tips' /\ WasPublished(branch)' /\ branch' \in Histories
  BY <1>0, <1>1, PublishedItself DEF WorkspaceInv, Tips, WasPublished
<1>3. CASE End(p) /\ UNCHANGED tree
  <2>1. call' \in [Callers -> Calls] /\ lock' \in [Ids -> Callers \cup {Absent}]
    BY <1>3 DEF WorkspaceInv, Typed, End, NoCall, Calls, Points, Unlocked
  <2>2. Typed'
    BY <1>0, <1>2, <1>3, <2>1 DEF WorkspaceInv, Typed
  <2>3. ~Free(p) /\ \A w \in Ids : saved'[w] = saved[w]
    BY <1>0 DEF At, Free
  <2>4. End(p) /\ UNCHANGED <<published, tree>>
    BY <1>0, <1>3
  <2>5. branch' = branch \/ WasPublished(branch)'
    BY <1>2
  <2>6. Tips'
    BY <1>2
  <2>7. \A w \in Ids : saved'[w] # saved[w] =>
           w = call[p].ws /\ (saved'[w] # Absent \/ At(p, "forget"))
    BY <2>3
  <2>8. published' = published /\ tree' = tree
    BY <2>4
  <2> QED BY <2>2, <2>3, <2>4, <2>5, <2>6, <2>7, <2>8, EndKeeps
<1>4. CASE /\ tree' = [tree EXCEPT ![call[p].ws] = TipTree(call[p].target)]
           /\ Goto(p, "save")
           /\ UNCHANGED lock
  <2> DEFINE c == [call[p] EXCEPT !.at = "save"]
  <2>1. Moves(p, c)
    BY <1>0, <1>4, BusyState DEF Moves, At, Goto, Free, Calls, Points, LocalPoints, WorkspaceInv, Typed
  <2>2. call'[p] = c /\ c.at = "save"
    BY <2>1, BusyState DEF WorkspaceInv, Typed, Moves, Calls
  <2>3. TipTree(call[p].target) \in Trees
    BY <1>0, <1>2, TipTreeType
  <2>4. Typed'
    BY <1>0, <1>2, <1>4, <2>1, <2>3 DEF WorkspaceInv, Typed, Moves
  <2>5. Files(p)' /\ Verified(p)'
    BY <2>2 DEF Files, Verified, LocalPoints
  <2>6. \A w \in Ids : w # call[p].ws => tree'[w] = tree[w]
    BY <1>4 DEF WorkspaceInv, Typed
  <2> QED BY <1>0, <1>2, <2>1, <2>2, <2>4, <2>5, <2>6, MoveKeeps
<1> QED BY <1>3, <1>4 DEF Add

-----------------------------------------------------------------------------
(* Under the lock. *)

LEMMA HasFiles ==
  ASSUME NEW p \in Callers, WorkspaceInv, call[p].at \in LocalPoints \ {"drop", "forget"}
  PROVE  /\ ~Free(p) /\ call[p].ws \in Ids
         /\ tree[call[p].ws] \in Trees /\ saved[call[p].ws] # Absent
<1>1. ~Free(p)
  BY DEF Free, LocalPoints
<1> QED BY <1>1 DEF WorkspaceInv, Typed, Local, Owner, Files

\* What git commit makes of the branch.
LEMMA CommitGrows ==
  ASSUME WorkspaceInv, NEW t \in Trees
  PROVE  /\ Append(Onto(branch), t) \in Histories
         /\ branch # Absent => IsPrefix(branch, Append(Onto(branch), t))
<1>1. Onto(branch) \in Seq(Trees \cup {Root})
  <2> DEFINE S == Trees \cup {Root}
  <2>1. <<Root>> \in Seq(S)
    OBVIOUS
  <2>2. branch # Absent => branch \in Seq(S)
    BY DEF WorkspaceInv, Typed, Histories
  <2> QED BY <2>1, <2>2 DEF Onto
<1>2. branch # Absent => Onto(branch) = branch
  BY DEF Onto
<1> QED BY <1>1, <1>2, PrefixOfAppend, AppendHistory

LEMMA CommitKeeps ==
  ASSUME NEW p \in Callers, WorkspaceInv, Commit(p) PROVE WorkspaceInv'
<1> DEFINE c == [call[p] EXCEPT !.at = "save"]
<1>0. UNCHANGED <<remote, published, tree>> /\ branch' = Append(Onto(branch), tree[call[p].ws])
  BY DEF Commit, CommitTree
<1>1. Moves(p, c) /\ call[p].at = "commit"
  BY BusyState DEF Commit, Moves, At, Goto, Free, Calls, Points, LocalPoints, WorkspaceInv, Typed
<1>2. call'[p] = c /\ c.at = "save"
  BY <1>1, BusyState DEF WorkspaceInv, Typed, Moves, Calls
<1>3. branch' \in Histories
  BY <1>0, <1>1, HasFiles, CommitGrows DEF LocalPoints
<1>4. Typed'
  BY <1>0, <1>1, <1>3 DEF WorkspaceInv, Typed, Moves
<1>5. Files(p)' /\ Verified(p)'
  BY <1>2 DEF Files, Verified, LocalPoints
<1>6. Tips'
  BY <1>0 DEF WorkspaceInv, Tips
<1> QED BY <1>0, <1>1, <1>2, <1>4, <1>5, <1>6, MoveKeeps

\* A step under the lock that changes nothing but the caller's locals.
LEMMA CheckKeepsInv ==
  ASSUME NEW p \in Callers, NEW c \in Calls, WorkspaceInv,
         call[p].at \in LocalPoints \ {"drop", "forget"},
         c.at \in LocalPoints \ {"drop", "forget"},
         c.ws = call[p].ws, c.state = call[p].state,
         c.at \in {"probe", "recheck", "remove"} => c.head \in Histories,
         c.at \in {"recheck", "remove"} /\ ~c.force => WasPublished(c.head),
         c.at \in {"check push-mr", "push-mr"} => ~c.state.pushed,
         call' = [call EXCEPT ![p] = c],
         UNCHANGED <<repoVars, saved, lock>>
  PROVE  WorkspaceInv'
<1>0. UNCHANGED <<branch, remote, published, tree>>
  BY DEF repoVars
<1>1. Moves(p, c)
  BY BusyState DEF Moves, Free, LocalPoints
<1>2. call'[p] = c
  BY DEF WorkspaceInv, Typed
<1>3. Typed'
  BY <1>0, <1>1 DEF WorkspaceInv, Typed, Moves
<1>4. tree[call[p].ws] # Absent
  BY HasFiles, Distinct
<1>5. Files(p)' /\ Verified(p)'
  BY <1>0, <1>2, <1>4 DEF Files, Verified, LocalPoints, WasPublished
<1>6. Tips'
  BY <1>0 DEF WorkspaceInv, Tips
<1> QED BY <1>0, <1>1, <1>3, <1>5, <1>6, MoveKeeps DEF LocalPoints

LEMMA CheckPushKeeps ==
  ASSUME NEW p \in Callers, WorkspaceInv,
         NEW from \in {"check push", "check push-mr"}, NEW to \in {"push", "push-mr"},
         to = "push-mr" => from = "check push-mr", CheckPush(p, from, to)
  PROVE  WorkspaceInv'
<1> DEFINE c == [call[p] EXCEPT !.at = to]
<1>1. call[p].at = from
  BY DEF CheckPush, At
<1>2. call[p] \in Calls
  BY DEF WorkspaceInv, Typed
<1>3. c \in Calls /\ c.at = to /\ c.ws = call[p].ws /\ c.state = call[p].state
  BY <1>2 DEF Calls, Points
<1>4. call' = [call EXCEPT ![p] = c] /\ UNCHANGED <<repoVars, saved, lock>>
  BY DEF CheckPush, Goto, WorkspaceInv, Typed
<1>5. to = "push-mr" => ~call[p].state.pushed
  BY <1>1 DEF WorkspaceInv, Local, Verified
<1> HIDE DEF c
<1> QED BY <1>1, <1>3, <1>4, <1>5, CheckKeepsInv DEF LocalPoints

LEMMA CleanupCheckKeeps ==
  ASSUME NEW p \in Callers, WorkspaceInv, Check(p) PROVE WorkspaceInv'
<1> DEFINE c == [call[p] EXCEPT
                   !.at = IF ~call[p].force /\ Len(branch) > 0 THEN "probe" ELSE "recheck",
                   !.head = branch, !.dirty = Dirty(call[p].ws)]
<1>1. call[p].at = "check" /\ branch # Absent
  BY DEF Check, At
<1>2. call[p] \in Calls /\ branch \in Histories
  BY <1>1 DEF WorkspaceInv, Typed
<1>3. /\ c \in Calls /\ c.ws = call[p].ws /\ c.state = call[p].state
      /\ c.head = branch /\ c.force = call[p].force
      /\ c.at = IF ~call[p].force /\ Len(branch) > 0 THEN "probe" ELSE "recheck"
  BY <1>2 DEF Calls, Points, Dirty
<1>4. call' = [call EXCEPT ![p] = c] /\ UNCHANGED <<repoVars, saved, lock>>
  BY DEF Check
<1>5. c.at = "recheck" /\ ~c.force => WasPublished(c.head)
  <2>1. Len(branch) \in Nat
    BY <1>2, LenProperties DEF Histories
  <2>2. Len(branch) = 0 => WasPublished(branch)
    BY <1>2, EmptyHistory, BasePublished
  <2> QED BY <1>3, <2>1, <2>2
<1> HIDE DEF c
<1> QED BY <1>1, <1>2, <1>3, <1>4, <1>5, CheckKeepsInv DEF LocalPoints

LEMMA ProbeKeeps ==
  ASSUME NEW p \in Callers, WorkspaceInv, Probe(p) PROVE WorkspaceInv'
<1> DEFINE c == [call[p] EXCEPT !.at = "recheck"]
<1>1. call[p].at = "probe"
  BY DEF Probe, At
<1>2. call[p] \in Calls
  BY DEF WorkspaceInv, Typed
<1>3. /\ c \in Calls /\ c.at = "recheck" /\ c.ws = call[p].ws /\ c.state = call[p].state
      /\ c.head = call[p].head
  BY <1>2 DEF Calls, Points
<1>4. call' = [call EXCEPT ![p] = c] /\ UNCHANGED <<repoVars, saved, lock>>
  BY DEF Probe, Goto, WorkspaceInv, Typed
<1>5. call[p].head \in Histories /\ WasPublished(call[p].head)
  BY <1>1 DEF Probe, IsAncestor, WorkspaceInv, Local, Verified, Tips, WasPublished
<1> HIDE DEF c
<1> QED BY <1>1, <1>3, <1>4, <1>5, CheckKeepsInv DEF LocalPoints

LEMMA RecheckKeeps ==
  ASSUME NEW p \in Callers, WorkspaceInv, Recheck(p) PROVE WorkspaceInv'
<1> DEFINE c == [call[p] EXCEPT !.at = "remove"]
<1>1. call[p].at = "recheck"
  BY DEF Recheck, At
<1>2. call[p] \in Calls
  BY DEF WorkspaceInv, Typed
<1>3. /\ c \in Calls /\ c.at = "remove" /\ c.ws = call[p].ws /\ c.state = call[p].state
      /\ c.head = call[p].head /\ c.force = call[p].force
  BY <1>2 DEF Calls, Points
<1>4. call' = [call EXCEPT ![p] = c] /\ UNCHANGED <<repoVars, saved, lock>>
  BY DEF Recheck, Goto, WorkspaceInv, Typed
<1>5. call[p].head \in Histories /\ (~call[p].force => WasPublished(call[p].head))
  BY <1>1 DEF WorkspaceInv, Local, Verified
<1> HIDE DEF c
<1> QED BY <1>1, <1>3, <1>4, <1>5, CheckKeepsInv DEF LocalPoints

LEMMA SendKeeps ==
  ASSUME NEW p \in Callers, WorkspaceInv, NEW mr \in BOOLEAN,
         call[p].at \in {"push", "push-mr"}, call[p].state.mr => mr,
         Send(p, mr)
  PROVE  WorkspaceInv'
<1> DEFINE c == [call[p] EXCEPT !.at = "save",
                                !.state = [call[p].state EXCEPT !.pushed = TRUE, !.mr = mr]]
<1>0. /\ UNCHANGED <<branch, tree, saved, lock>>
      /\ branch # Absent /\ remote' = branch /\ published' = published \cup {branch}
      /\ call' = [call EXCEPT ![p] = c]
  BY DEF Send
<1>1. ~Free(p) /\ call[p] \in Calls /\ call[p].state \in States
  BY BusyState DEF Free
<1>2. c \in Calls /\ c.at = "save" /\ c.ws = call[p].ws /\ c.state \in States
  BY <1>1 DEF Calls, Points, States
<1>3. AtLeast(call[p].state, c.state)
  BY <1>1, BusyState DEF AtLeast, States, Calls
<1> HIDE DEF c
<1>4. Moves(p, c)
  BY <1>0, <1>1, <1>2, <1>3 DEF Moves, LocalPoints
<1>5. call'[p] = c
  BY <1>0 DEF WorkspaceInv, Typed
<1>6. Typed'
  BY <1>0, <1>2 DEF WorkspaceInv, Typed
<1>7. Files(p)' /\ Verified(p)'
  BY <1>2, <1>5 DEF Files, Verified, LocalPoints
<1>8. Tips'
  BY <1>0 DEF WorkspaceInv, Tips
<1> QED BY <1>0, <1>2, <1>4, <1>6, <1>7, <1>8, MoveKeeps

-----------------------------------------------------------------------------
(* What clean-up removes, and the ends of the calls. *)

LEMMA RemoveKeeps ==
  ASSUME NEW p \in Callers, WorkspaceInv, RemoveWorktree(p) PROVE WorkspaceInv'
<1> DEFINE c == [call[p] EXCEPT !.at = "drop"]
<1>0. /\ UNCHANGED <<branch, remote, published, saved, lock>> /\ call[p].at = "remove"
      /\ tree' = [tree EXCEPT ![call[p].ws] = Absent]
  BY DEF RemoveWorktree, At
<1>1. Moves(p, c)
  BY BusyState DEF RemoveWorktree, Moves, At, Goto, Free, Calls, Points, LocalPoints, WorkspaceInv, Typed
<1>2. /\ call'[p] = c /\ c.at = "drop" /\ c.ws = call[p].ws /\ c.head = call[p].head
      /\ c.force = call[p].force /\ call[p].ws \in Ids
  BY <1>1, BusyState DEF WorkspaceInv, Typed, Moves, Calls
<1>3. Typed'
  BY <1>0, <1>1 DEF WorkspaceInv, Typed, Moves
<1>4. tree'[call[p].ws] = Absent /\ \A w \in Ids : w # call[p].ws => tree'[w] = tree[w]
  BY <1>0, <1>2 DEF WorkspaceInv, Typed
<1>5. call[p].head \in Histories /\ (~call[p].force => WasPublished(call[p].head))
  BY <1>0 DEF WorkspaceInv, Local, Verified
<1> HIDE DEF c
<1>6. Files(p)' /\ Verified(p)'
  BY <1>0, <1>2, <1>4, <1>5 DEF Files, Verified, LocalPoints, WasPublished
<1>7. Tips'
  BY <1>0 DEF WorkspaceInv, Tips
<1> QED BY <1>0, <1>1, <1>2, <1>3, <1>4, <1>6, <1>7, MoveKeeps

LEMMA DropKeeps ==
  ASSUME NEW p \in Callers, WorkspaceInv, Drop(p) PROVE WorkspaceInv'
<1> DEFINE c == [call[p] EXCEPT !.at = "forget"]
<1>0. UNCHANGED <<remote, published, tree, saved, lock>> /\ branch' = Absent /\ call[p].at = "drop"
  BY DEF Drop, DeleteBranch, At
<1>1. Moves(p, c)
  BY BusyState DEF Drop, Moves, At, Goto, Free, Calls, Points, LocalPoints, WorkspaceInv, Typed
<1>2. call'[p] = c /\ c.at = "forget" /\ c.ws = call[p].ws
  BY <1>1, BusyState DEF WorkspaceInv, Typed, Moves, Calls
<1>3. Typed'
  BY <1>0, <1>1 DEF WorkspaceInv, Typed, Moves
<1>4. tree[call[p].ws] = Absent
  BY <1>0 DEF WorkspaceInv, Local, Files
<1> HIDE DEF c
<1>5. Files(p)' /\ Verified(p)'
  BY <1>0, <1>2, <1>4 DEF Files, Verified, LocalPoints
<1>6. Tips'
  BY <1>0 DEF WorkspaceInv, Tips
<1> QED BY <1>0, <1>1, <1>2, <1>3, <1>5, <1>6, MoveKeeps

LEMMA EndTypes ==
  ASSUME NEW p \in Callers, WorkspaceInv, End(p)
  PROVE  call' \in [Callers -> Calls] /\ lock' \in [Ids -> Callers \cup {Absent}]
BY DEF WorkspaceInv, Typed, End, NoCall, Calls, Points, Unlocked

LEMMA FailKeeps ==
  ASSUME NEW p \in Callers, WorkspaceInv, Fail(p) PROVE WorkspaceInv'
<1>1. ~Free(p) /\ End(p) /\ UNCHANGED <<branch, remote, published, tree, saved>>
  BY DEF Fail, repoVars
<1>2. Typed' /\ Tips'
  BY <1>1, EndTypes DEF WorkspaceInv, Typed, Tips
<1>3. \A w \in Ids : saved'[w] = saved[w]
  BY <1>1
<1> QED BY <1>1, <1>2, <1>3, EndKeeps

LEMMA SaveKeeps ==
  ASSUME NEW p \in Callers, WorkspaceInv, Save(p) PROVE WorkspaceInv'
<1>1. /\ ~Free(p) /\ End(p) /\ UNCHANGED <<branch, remote, published, tree>>
      /\ saved' = [saved EXCEPT ![call[p].ws] = call[p].state]
  BY DEF Save, repoVars, At, Free
<1>2. call[p].ws \in Ids /\ call[p].state \in States
  BY <1>1, BusyState
<1>3. Typed' /\ Tips'
  BY <1>1, <1>2, EndTypes DEF WorkspaceInv, Typed, Tips
<1>4. \A w \in Ids : saved'[w] # saved[w] => w = call[p].ws /\ saved'[w] # Absent
  BY <1>1, <1>2, Distinct DEF WorkspaceInv, Typed
<1> QED BY <1>1, <1>3, <1>4, EndKeeps

LEMMA ForgetKeeps ==
  ASSUME NEW p \in Callers, WorkspaceInv, Forget(p) PROVE WorkspaceInv'
<1>1. /\ ~Free(p) /\ End(p) /\ UNCHANGED <<branch, remote, published, tree>>
      /\ saved' = [saved EXCEPT ![call[p].ws] = Absent] /\ At(p, "forget")
  BY DEF Forget, repoVars, At, Free
<1>2. Typed' /\ Tips'
  BY <1>1, EndTypes DEF WorkspaceInv, Typed, Tips
<1>3. \A w \in Ids : saved'[w] # saved[w] => w = call[p].ws /\ At(p, "forget")
  BY <1>1 DEF WorkspaceInv, Typed
<1> QED BY <1>1, <1>2, <1>3, EndKeeps

-----------------------------------------------------------------------------
(* The surroundings. *)

\* Steps of nobody who is in a call.
LEMMA SurroundingsKeep ==
  ASSUME WorkspaceInv, UNCHANGED <<saved, lock, call>>,
         Typed', Tips', published \subseteq published',
         \A w \in Ids : tree'[w] = Absent <=> tree[w] = Absent,
         branch' # branch => \E w \in Ids : Known(w)
  PROVE  WorkspaceInv'
<1>1. ASSUME NEW p \in Callers PROVE Local(p)'
  <2>1. ~Free(p) => call[p].ws \in Ids
    BY DEF WorkspaceInv, Local, Owner
  <2> QED BY <2>1, StaysLocal DEF WorkspaceInv
<1>2. Sole'
  BY DEF WorkspaceInv, Sole, Free
<1>3. Named'
  <2>1. \A w \in Ids : Names(w) => Names(w)'
    BY DEF Names, At
  <2>2. CASE branch' = branch
    BY <2>1, <2>2 DEF WorkspaceInv, Named, WasPublished
  <2>3. CASE branch' # branch
    <3>1. PICK w \in Ids : Known(w)
      BY <2>3
    <3>2. Names(w)
      BY <3>1 DEF Known, Names, At, WorkspaceInv, Local, Files
    <3> QED BY <2>1, <3>2 DEF Named
  <2> QED BY <2>2, <2>3
<1> QED BY <1>1, <1>2, <1>3 DEF WorkspaceInv

LEMMA EditKeeps ==
  ASSUME NEW w \in Ids, WorkspaceInv, Edit(w) PROVE WorkspaceInv'
<1>1. UNCHANGED <<branch, remote, published, saved, lock, call>> /\ Known(w)
  BY DEF Edit
<1>2. PICK t \in Trees : tree' = [tree EXCEPT ![w] = t]
  BY DEF Edit
<1>3. Typed' /\ Tips'
  BY <1>1, <1>2 DEF WorkspaceInv, Typed, Tips
<1>4. \A v \in Ids : tree'[v] = Absent <=> tree[v] = Absent
  BY <1>1, <1>2, Distinct DEF WorkspaceInv, Typed, Known
<1> QED BY <1>1, <1>3, <1>4, SurroundingsKeep

LEMMA DirectCommitKeeps ==
  ASSUME NEW w \in Ids, WorkspaceInv, DirectCommit(w) PROVE WorkspaceInv'
<1>1. /\ UNCHANGED <<remote, published, tree, saved, lock, call>> /\ Known(w)
      /\ branch' = Append(Onto(branch), tree[w])
  BY DEF DirectCommit, CommitTree
<1>2. branch' \in Histories
  BY <1>1, CommitGrows DEF Known, WorkspaceInv, Typed
<1>3. Typed' /\ Tips'
  BY <1>1, <1>2 DEF WorkspaceInv, Typed, Tips
<1> QED BY <1>1, <1>3, SurroundingsKeep

LEMMA OthersPushKeeps ==
  ASSUME WorkspaceInv, OthersPush PROVE WorkspaceInv'
<1>1. UNCHANGED <<branch, tree, saved, lock, call>> /\ remote # Absent
  BY DEF OthersPush
<1>2. PICK t \in Trees : remote' = Append(remote, t) /\ published' = published \cup {remote'}
  BY DEF OthersPush
<1>3. remote' \in Histories
  BY <1>1, <1>2, AppendHistory DEF WorkspaceInv, Typed, Histories
<1>4. Typed' /\ Tips'
  BY <1>1, <1>2, <1>3 DEF WorkspaceInv, Typed, Tips
<1> QED BY <1>1, <1>2, <1>4, SurroundingsKeep

LEMMA OthersDeleteKeeps ==
  ASSUME WorkspaceInv, OthersDelete PROVE WorkspaceInv'
<1>1. UNCHANGED <<branch, published, tree, saved, lock, call>> /\ remote' = Absent
  BY DEF OthersDelete
<1>2. Typed' /\ Tips'
  BY <1>1 DEF WorkspaceInv, Typed, Tips
<1> QED BY <1>1, <1>2, SurroundingsKeep

-----------------------------------------------------------------------------
(* Every step keeps the invariant. *)

LEMMA BeginCallKeeps ==
  ASSUME NEW p \in Callers, NEW w \in Ids, WorkspaceInv, BeginCall(p, w)
  PROVE  WorkspaceInv'
<1>1. saved[w] # Absent => saved[w] \in States /\ AtLeast(saved[w], saved[w])
  <2>1. saved[w] # Absent => saved[w] \in States
    BY DEF WorkspaceInv, Typed
  <2> QED BY <2>1, WorkspaceAssumption DEF AtLeast, States
<1>2. CASE BeginCreate(p, w)
  <2>1. NewState \in States
    BY WorkspaceAssumption DEF NewState, States
  <2> QED BY <1>2, <2>1, NewCallKeeps DEF BeginCreate
<1>3. ASSUME NEW mr \in MrAnswers, BeginCheckout(p, w, mr) PROVE WorkspaceInv'
  <2>1. [pushed |-> TRUE, mr |-> mr, attempts |-> 0] \in States
    BY WorkspaceAssumption DEF States
  <2> QED BY <1>3, <2>1, NewCallKeeps DEF BeginCheckout
<1>4. CASE BeginRecord(p, w)
  <2> DEFINE s == [saved[w] EXCEPT !.attempts = Kept(saved[w].attempts + 1)]
  <2>1. saved[w] \in States
    BY <1>1, <1>4 DEF BeginRecord
  <2>2. s \in States /\ AtLeast(saved[w], s)
    BY <2>1, WorkspaceAssumption DEF States, Kept, AtLeast
  <2>3. Begin(p, w, "save", s, FALSE)
    BY <1>4 DEF BeginRecord
  <2> HIDE DEF s
  <2> QED BY <2>2, <2>3, BeginKeeps
<1>5. CASE BeginCommit(p, w)
  BY <1>1, <1>5, BeginKeeps DEF BeginCommit, Begin
<1>6. CASE BeginPush(p, w)
  BY <1>1, <1>6, BeginKeeps DEF BeginPush, Begin
<1>7. CASE BeginPushMr(p, w)
  <2>1. /\ saved[w] # Absent /\ ~saved[w].pushed /\ HasWorktree(w)
        /\ Begin(p, w, "check push-mr", saved[w], FALSE)
    BY <1>7 DEF BeginPushMr
  <2> QED BY <1>1, <2>1, BeginKeeps
<1>8. ASSUME NEW force \in BOOLEAN, BeginCleanup(p, w, force) PROVE WorkspaceInv'
  BY <1>1, <1>8, BeginKeeps DEF BeginCleanup, Begin
<1> QED BY <1>2, <1>3, <1>4, <1>5, <1>6, <1>7, <1>8 DEF BeginCall

LEMMA CallStepKeeps ==
  ASSUME NEW p \in Callers, WorkspaceInv, CallStep(p)
  PROVE  WorkspaceInv'
<1>1. CASE Push(p)
  <2>1. call[p].at = "push" /\ Send(p, call[p].state.mr)
    BY <1>1 DEF Push, At
  <2>2. call[p].state.mr \in BOOLEAN
    BY <2>1, BusyState DEF Free, States
  <2> QED BY <2>1, <2>2, SendKeeps
<1>2. CASE PushMr(p)
  <2>1. call[p].at = "push-mr"
    BY <1>2 DEF PushMr, At
  <2>2. PICK mr \in MrAnswers : Send(p, mr)
    BY <1>2 DEF PushMr
  <2>3. mr \in BOOLEAN
    BY WorkspaceAssumption
  <2>4. ~call[p].state.mr
    BY <2>1, BusyState DEF Free, States, WorkspaceInv, Local, Verified
  <2> QED BY <2>1, <2>2, <2>3, <2>4, SendKeeps
<1>3. CASE CheckPush(p, "check push", "push") \/ CheckPush(p, "check push-mr", "push-mr")
  BY <1>3, CheckPushKeeps
<1>4. CASE AddNew(p) \/ Fetch(p) \/ Look(p) \/ Replace(p) \/ Add(p)
  BY <1>4, AddNewKeeps, FetchKeeps, LookKeeps, ReplaceKeeps, AddKeeps
<1>5. CASE Commit(p) \/ Check(p) \/ Probe(p) \/ Recheck(p) \/ RemoveWorktree(p) \/ Drop(p)
  BY <1>5, CommitKeeps, CleanupCheckKeeps, ProbeKeeps, RecheckKeeps, RemoveKeeps, DropKeeps
<1>6. CASE Forget(p) \/ Save(p) \/ Fail(p)
  BY <1>6, ForgetKeeps, SaveKeeps, FailKeeps
<1> QED BY <1>1, <1>2, <1>3, <1>4, <1>5, <1>6 DEF CallStep

LEMMA StepKeeps == WorkspaceInv /\ [WorkspaceNext]_workspaceVars => WorkspaceInv'
<1> SUFFICES ASSUME WorkspaceInv, [WorkspaceNext]_workspaceVars PROVE WorkspaceInv'
  OBVIOUS
<1>1. ASSUME NEW p \in Callers, NEW w \in Ids, BeginCall(p, w) PROVE WorkspaceInv'
  BY <1>1, BeginCallKeeps
<1>2. ASSUME NEW p \in Callers, CallStep(p) PROVE WorkspaceInv'
  BY <1>2, CallStepKeeps
<1>3. ASSUME NEW w \in Ids, Edit(w) \/ DirectCommit(w) PROVE WorkspaceInv'
  BY <1>3, EditKeeps, DirectCommitKeeps
<1>4. CASE OthersPush \/ OthersDelete
  BY <1>4, OthersPushKeeps, OthersDeleteKeeps
<1>5. CASE UNCHANGED workspaceVars
  <2>1. UNCHANGED <<branch, remote, published, tree, saved, lock, call>>
    BY <1>5 DEF workspaceVars
  <2>2. Typed' /\ Tips'
    BY <2>1 DEF WorkspaceInv, Typed, Tips
  <2> QED BY <2>1, <2>2, SurroundingsKeep
<1> QED BY <1>1, <1>2, <1>3, <1>4, <1>5 DEF WorkspaceNext, Surroundings

LEMMA InitHolds == WorkspaceInit => WorkspaceInv
<1> SUFFICES ASSUME WorkspaceInit PROVE WorkspaceInv
  OBVIOUS
<1>1. <<>> \in Histories /\ \A t \in Trees : <<t>> \in Histories
  BY EmptySeq, AppendHistory DEF Histories, Last
<1>2. /\ branch \in published \cup {Absent} /\ published \subseteq Histories
      /\ <<>> \in published /\ remote = branch
  BY <1>1 DEF WorkspaceInit
<1>3. NoCall("idle") \in Calls /\ NoCall("idle").at = "idle"
  BY DEF NoCall, Calls, Points
<1>4. \A p \in Callers : call[p] = NoCall("idle")
  BY DEF WorkspaceInit
<1>5. \A w \in Ids : lock[w] = Absent
  BY DEF WorkspaceInit
<1>6. Typed
  BY <1>2, <1>3 DEF WorkspaceInit, Typed
<1>7. \A p \in Callers : Local(p)
  BY <1>3, <1>4, <1>5, Distinct DEF Local, Owner, Files, Verified, Free, LocalPoints
<1>8. Sole
  BY <1>3, <1>4 DEF Sole, Free
<1>9. Tips
  BY <1>2 DEF Tips
<1>10. Named
  BY <1>2, PrefixOfItself DEF Named, WasPublished
<1> QED BY <1>6, <1>7, <1>8, <1>9, <1>10 DEF WorkspaceInv

\* What every step of the manager, of git used by hand, and of the server preserves: who holds
\* a workspace, what its holder knows of it, and that unpublished commits are named.
THEOREM WorkspaceInvariant == WorkspaceSpec => []WorkspaceInv
BY InitHolds, StepKeeps, PTL DEF WorkspaceSpec

\* The variables keep their types (WorkspaceManager, for any number of workspaces and callers).
THEOREM WorkspaceTypeCorrect == WorkspaceSpec => []WorkspaceTypeOK
<1>1. WorkspaceInit => begun \in 0..MaxCalls
  BY WorkspaceAssumption DEF WorkspaceInit
<1>2. begun \in 0..MaxCalls /\ [WorkspaceNext]_workspaceVars => (begun \in 0..MaxCalls)'
  BY WorkspaceAssumption DEF WorkspaceNext, BeginCall, workspaceVars
<1>3. WorkspaceInv /\ begun \in 0..MaxCalls => WorkspaceTypeOK
  BY DEF WorkspaceInv, Typed, WorkspaceTypeOK
<1> QED BY <1>1, <1>2, <1>3, WorkspaceInvariant, PTL DEF WorkspaceSpec

\* Unpublished commits are always named by a state file (create_workspace,
\* checkout_remote_branch and cleanup, whatever they leave half-done).
THEOREM WorkFound == WorkspaceSpec => []WorkIsNamed
<1>1. WorkspaceInv => WorkIsNamed
  BY DEF WorkspaceInv, Named, Names, WorkIsNamed
<1> QED BY <1>1, WorkspaceInvariant, PTL

-----------------------------------------------------------------------------
(* What no step does. *)

\* The steps that do not write a state file.
LEMMA SavedKept ==
  ASSUME [WorkspaceNext]_workspaceVars, saved' # saved
  PROVE  \E p \in Callers : Save(p) \/ Forget(p)
<1>1. ASSUME NEW p \in Callers, NEW w \in Ids, BeginCall(p, w) PROVE saved' = saved
  BY <1>1 DEF BeginCall, BeginCreate, BeginCheckout, BeginRecord, BeginCommit, BeginPush,
              BeginPushMr, BeginCleanup, Begin
<1>2. ASSUME NEW p \in Callers, CallStep(p), ~Save(p), ~Forget(p) PROVE saved' = saved
  <2>1. CASE AddNew(p) \/ Fetch(p) \/ Look(p) \/ Replace(p) \/ Add(p)
    BY <2>1 DEF AddNew, Fetch, Look, Replace, Add
  <2>2. CASE Commit(p) \/ Push(p) \/ PushMr(p) \/ Fail(p)
    BY <2>2 DEF Commit, Push, PushMr, Send, Fail
  <2>3. CASE CheckPush(p, "check push", "push") \/ CheckPush(p, "check push-mr", "push-mr")
    BY <2>3 DEF CheckPush
  <2>4. CASE Check(p) \/ Probe(p) \/ Recheck(p) \/ RemoveWorktree(p) \/ Drop(p)
    BY <2>4 DEF Check, Probe, Recheck, RemoveWorktree, Drop
  <2> QED BY <1>2, <2>1, <2>2, <2>3, <2>4 DEF CallStep
<1>3. CASE Surroundings
  BY <1>3 DEF Surroundings, Edit, DirectCommit, OthersPush, OthersDelete
<1>4. CASE UNCHANGED workspaceVars
  BY <1>4 DEF workspaceVars
<1> QED BY <1>1, <1>2, <1>3, <1>4 DEF WorkspaceNext

\* A saved state is never replaced by one that knows less (record_attempt, commit, push
\* and push_and_create_mr, each of which saves what it read when it began).
THEOREM StateKept == WorkspaceSpec => StateNeverGoesBack
<1> DEFINE A == \A w \in Ids : saved[w] # Absent /\ saved'[w] # Absent =>
                  /\ saved[w].attempts <= saved'[w].attempts
                  /\ saved[w].pushed => saved'[w].pushed
                  /\ saved[w].mr => saved'[w].mr
<1>1. WorkspaceInv /\ [WorkspaceNext]_workspaceVars => A
  <2> SUFFICES ASSUME WorkspaceInv, [WorkspaceNext]_workspaceVars,
                      NEW w \in Ids, saved[w] # Absent, saved'[w] # Absent
               PROVE  AtLeast(saved[w], saved'[w])
    BY DEF AtLeast
  <2>1. AtLeast(saved[w], saved[w])
    <3>1. saved[w] \in States
      BY DEF WorkspaceInv, Typed
    <3> QED BY <3>1, WorkspaceAssumption DEF AtLeast, States
  <2>2. ASSUME NEW p \in Callers, Save(p) PROVE AtLeast(saved[w], saved'[w])
    <3>1. ~Free(p) /\ saved' = [saved EXCEPT ![call[p].ws] = call[p].state]
      BY <2>2 DEF Save, At, Free
    <3>2. call[p].ws = w => AtLeast(saved[w], call[p].state)
      BY <3>1 DEF WorkspaceInv, Local, Owner
    <3> QED BY <2>1, <3>1, <3>2 DEF WorkspaceInv, Typed
  <2>3. ASSUME NEW p \in Callers, Forget(p) PROVE AtLeast(saved[w], saved'[w])
    <3>1. saved' = [saved EXCEPT ![call[p].ws] = Absent]
      BY <2>3 DEF Forget
    <3> QED BY <2>1, <3>1 DEF WorkspaceInv, Typed
  <2> QED BY <2>1, <2>2, <2>3, SavedKept
<1> QED BY <1>1, WorkspaceInvariant, PTL DEF WorkspaceSpec, StateNeverGoesBack

\* What may become of the branch and of the files in a step.
BranchKept == branch # Absent /\ ~IsAncestor(branch, branch') => WasPublished(branch)
FilesKept == \A w \in Ids : tree[w] # Absent /\ tree'[w] = Absent => ~Dirty(w)

LEMMA SameKept ==
  ASSUME WorkspaceInv,
         branch' = branch \/ branch = Absent,
         \A w \in Ids : tree'[w] = tree[w] \/ tree'[w] # Absent
  PROVE  BranchKept /\ FilesKept
<1>1. branch # Absent => IsAncestor(branch, branch)
  BY PrefixOfItself DEF WorkspaceInv, Typed, IsAncestor
<1> QED BY <1>1 DEF BranchKept, FilesKept, IsAncestor

LEMMA GrownKept ==
  ASSUME WorkspaceInv, NEW t \in Trees, branch' = Append(Onto(branch), t), UNCHANGED tree
  PROVE  BranchKept /\ FilesKept
<1>1. branch # Absent => IsPrefix(branch, branch') /\ branch' # Absent
  BY CommitGrows, Distinct
<1> QED BY <1>1 DEF BranchKept, FilesKept, IsAncestor

LEMMA CallStepKept ==
  ASSUME NEW p \in Callers, WorkspaceInv, CallStep(p)
  PROVE  \/ Forced(p) /\ call'[p] # call[p]
         \/ BranchKept /\ FilesKept
<1>1. CASE AddNew(p)
  <2>1. branch = Absent /\ tree' = [tree EXCEPT ![call[p].ws] = BaseTree]
    BY <1>1 DEF AddNew
  <2> QED BY <2>1, SameKept, Distinct, WorkspaceAssumption DEF WorkspaceInv, Typed
<1>2. CASE Add(p)
  <2>1. branch = Absent /\ call[p].target \in published
    BY <1>2 DEF Add, At, WorkspaceInv, Local, Verified
  <2>2. TipTree(call[p].target) \in Trees
    BY <2>1, PublishedItself, TipTreeType
  <2>3. tree' \in {tree, [tree EXCEPT ![call[p].ws] = TipTree(call[p].target)]}
    BY <1>2 DEF Add
  <2>4. \A w \in Ids : tree'[w] = tree[w] \/ tree'[w] # Absent
    BY <2>2, <2>3, Distinct DEF WorkspaceInv, Typed
  <2> QED BY <2>1, <2>4, SameKept
<1>3. CASE Replace(p)
  <2>1. branch = call[p].head /\ WasPublished(call[p].head) /\ tree' = tree
    BY <1>3 DEF Replace, DeleteBranch, At, WorkspaceInv, Local, Verified
  <2> QED BY <2>1 DEF BranchKept, FilesKept
<1>4. CASE Drop(p)
  <2>1. branch = call[p].head /\ tree' = tree /\ call[p].at = "drop"
    BY <1>4 DEF Drop, DeleteBranch, At
  <2>2. ~call[p].force => WasPublished(call[p].head)
    BY <2>1 DEF WorkspaceInv, Local, Verified
  <2>3. call'[p].at = "forget"
    BY <1>4 DEF Drop, Goto, WorkspaceInv, Typed, Calls
  <2> QED BY <2>1, <2>2, <2>3 DEF BranchKept, FilesKept, Forced, Free
<1>5. CASE RemoveWorktree(p)
  <2>1. /\ call[p].at = "remove" /\ branch' = branch
        /\ call[p].force \/ ~Dirty(call[p].ws)
        /\ tree' = [tree EXCEPT ![call[p].ws] = Absent]
    BY <1>5 DEF RemoveWorktree, At
  <2>2. call'[p].at = "drop"
    BY <1>5 DEF RemoveWorktree, Goto, WorkspaceInv, Typed, Calls
  <2>3. ~Dirty(call[p].ws) => FilesKept
    BY <2>1 DEF FilesKept, WorkspaceInv, Typed
  <2>4. BranchKept
    BY <2>1, PrefixOfItself DEF BranchKept, IsAncestor, WorkspaceInv, Typed
  <2> QED BY <2>1, <2>2, <2>3, <2>4 DEF Forced, Free
<1>6. CASE Commit(p)
  <2>1. UNCHANGED tree /\ branch' = Append(Onto(branch), tree[call[p].ws]) /\ call[p].at = "commit"
    BY <1>6 DEF Commit, CommitTree, At
  <2> QED BY <2>1, HasFiles, GrownKept DEF LocalPoints
<1>7. CASE UNCHANGED <<branch, tree>>
  BY <1>7, SameKept
<1>8. Fetch(p) \/ Look(p) \/ Fail(p) \/ Save(p) => UNCHANGED <<branch, tree>>
  BY DEF Fetch, Look, Fail, Save, repoVars
<1>9. Check(p) \/ Probe(p) \/ Recheck(p) \/ Forget(p) => UNCHANGED <<branch, tree>>
  BY DEF Check, Probe, Recheck, Forget, repoVars
<1>10. \/ Push(p) \/ PushMr(p) \/ CheckPush(p, "check push", "push")
       \/ CheckPush(p, "check push-mr", "push-mr")
       => UNCHANGED <<branch, tree>>
  BY DEF Push, PushMr, Send, CheckPush, repoVars
<1> QED BY <1>1, <1>2, <1>3, <1>4, <1>5, <1>6, <1>7, <1>8, <1>9, <1>10 DEF CallStep

LosesNothing ==
  \/ \E p \in Callers : Forced(p) /\ call'[p] # call[p]
  \/ BranchKept /\ FilesKept

LEMMA StepLosesNothing == WorkspaceInv /\ [WorkspaceNext]_workspaceVars => LosesNothing
<1> SUFFICES ASSUME WorkspaceInv, [WorkspaceNext]_workspaceVars PROVE LosesNothing
  OBVIOUS
<1>1. ASSUME NEW p \in Callers, NEW w \in Ids, BeginCall(p, w) PROVE LosesNothing
  <2>1. UNCHANGED <<branch, tree>>
    BY <1>1 DEF BeginCall, BeginCreate, BeginCheckout, BeginRecord, BeginCommit, BeginPush,
                BeginPushMr, BeginCleanup, Begin, repoVars
  <2> QED BY <2>1, SameKept DEF LosesNothing
<1>2. ASSUME NEW p \in Callers, CallStep(p) PROVE LosesNothing
  BY <1>2, CallStepKept DEF LosesNothing
<1>3. ASSUME NEW w \in Ids, Edit(w) PROVE LosesNothing
  <2>1. branch' = branch /\ \E t \in Trees : tree' = [tree EXCEPT ![w] = t]
    BY <1>3 DEF Edit
  <2>2. \A v \in Ids : tree'[v] = tree[v] \/ tree'[v] # Absent
    BY <2>1, Distinct DEF WorkspaceInv, Typed
  <2> QED BY <2>1, <2>2, SameKept DEF LosesNothing
<1>4. ASSUME NEW w \in Ids, DirectCommit(w) PROVE LosesNothing
  <2>1. UNCHANGED tree /\ branch' = Append(Onto(branch), tree[w]) /\ tree[w] \in Trees
    BY <1>4 DEF DirectCommit, CommitTree, Known, WorkspaceInv, Typed
  <2> QED BY <2>1, GrownKept DEF LosesNothing
<1>5. CASE OthersPush \/ OthersDelete \/ UNCHANGED workspaceVars
  <2>1. UNCHANGED <<branch, tree>>
    BY <1>5 DEF OthersPush, OthersDelete, workspaceVars
  <2> QED BY <2>1, SameKept DEF LosesNothing
<1> QED BY <1>1, <1>2, <1>3, <1>4, <1>5 DEF WorkspaceNext, Surroundings

\* No step loses unpublished commits or uncommitted files but a forced clean-up
\* (cleanup and checkout_remote_branch, against commits, edits and the server).
THEOREM WorkKept == WorkspaceSpec => WorkSurvives
<1>1. LosesNothing <=> \/ \E p \in Callers : Forced(p) /\ call'[p] # call[p]
                      \/ /\ branch # Absent /\ ~IsAncestor(branch, branch') => WasPublished(branch)
                         /\ \A w \in Ids : tree[w] # Absent /\ tree'[w] = Absent => ~Dirty(w)
  BY DEF LosesNothing, BranchKept, FilesKept
<1> QED BY <1>1, StepLosesNothing, WorkspaceInvariant, PTL DEF WorkspaceSpec, WorkSurvives

-----------------------------------------------------------------------------
(***************************************************************************)
(* The publication.                                                        *)
(***************************************************************************)
ReadStages == {"gates", "check status", "check diff", "commit", "committing", "push", "pushing"}

\* How far a plan has come.
Progress(p) ==
  /\ Planning(p) => Ws(p) \in Ids
  /\ plan[p].stage \in {"paths", "scan"} => plan[p].read.head \in Histories
  /\ plan[p].stage \in ReadStages => plan[p].read \in Snapshots
  /\ plan[p].stage \in ReadStages \ {"gates"} =>
       plan[p].approved = plan[p].read /\ Passes(plan[p])
  /\ plan[p].stage \in {"commit", "committing"} => plan[p].read.dirty
  /\ plan[p].stage = "committing" => call[p].ws = Ws(p) /\ call[p].at \in {"commit", "save"}
  /\ plan[p].stage = "pushing" =>
       call[p].ws = Ws(p) /\ call[p].at \in {"check push", "check push-mr", "push", "push-mr", "save"}

\* What a caller relies on is as it was reviewed.
AsReviewed(p) ==
  p \notin disturbed =>
    /\ plan[p].stage \in {"check diff", "commit"} => branch = plan[p].read.head
    /\ plan[p].stage \in {"commit", "committing", "push", "pushing"} =>
         tree[Ws(p)] = plan[p].read.scanned
    /\ plan[p].stage = "committing" /\ At(p, "commit") => branch = plan[p].read.head
    /\ plan[p].stage = "committing" /\ At(p, "save") => branch = Reviewed(plan[p].read)
    /\ plan[p].stage \in {"push", "pushing"} => branch = Reviewed(plan[p].read)
    /\ plan[p].stage = "pushing" /\ (At(p, "push") \/ At(p, "push-mr")) => ~Dirty(Ws(p))

PublicationInv ==
  /\ WorkspaceInv
  /\ PublicationTypeOK
  /\ \A p \in Callers : Progress(p) /\ AsReviewed(p)

-----------------------------------------------------------------------------
(* The workspaces are used by their operations. *)

LEMMA PlanStepObeys ==
  ASSUME NEW p \in Callers, WorkspaceInv, Progress(p), PlanStep(p)
  PROVE  [WorkspaceNext]_workspaceVars
<1>1. CASE \/ \E w \in Ids, kind \in Kinds, allowed \in Allowed : BeginPlan(p, w, kind, allowed)
           \/ ReadStatus(p) \/ ReadPaths(p) \/ ReadScanned(p) \/ RecordPreview(p) \/ Approve(p)
           \/ CheckStatus(p) \/ CheckDiff(p)
  BY <1>1 DEF BeginPlan, ReadStatus, ReadPaths, ReadScanned, RecordPreview, Approve, CheckStatus, CheckDiff
<1>2. CASE Validate(p)
  <2>1. /\ Ws(p) \in Ids /\ Known(Ws(p))
        /\ UNCHANGED <<branch, remote, published, saved, lock, call, begun>>
    BY <1>2 DEF Validate, Progress, Planning, Stage
  <2>2. PICK t \in Trees : tree' = [tree EXCEPT ![Ws(p)] = t]
    BY <1>2 DEF Validate
  <2>3. CASE t = tree[Ws(p)]
    <3>1. tree' = tree
      BY <2>1, <2>2, <2>3 DEF WorkspaceInv, Typed
    <3> QED BY <2>1, <3>1 DEF workspaceVars
  <2>4. CASE t # tree[Ws(p)]
    <3>1. Edit(Ws(p)) /\ UNCHANGED begun
      BY <2>1, <2>2, <2>4 DEF Edit
    <3> QED BY <2>1, <3>1 DEF WorkspaceNext, Surroundings
  <2> QED BY <2>3, <2>4
<1>3. CASE StartCommit(p)
  <2>1. Ws(p) \in Ids
    BY <1>3 DEF StartCommit, Progress, Planning, Stage
  <2>2. BeginCall(p, Ws(p))
    BY <1>3 DEF StartCommit, CountCall, BeginCall
  <2> QED BY <2>1, <2>2 DEF WorkspaceNext
<1>4. CASE StartPush(p)
  <2>1. Ws(p) \in Ids
    BY <1>4 DEF StartPush, Progress, Planning, Stage
  <2>2. BeginCall(p, Ws(p))
    BY <1>4 DEF StartPush, CountCall, BeginCall
  <2> QED BY <2>1, <2>2 DEF WorkspaceNext
<1>5. CASE StayInCall(p) \/ LeaveCall(p)
  <2>1. CallStep(p) /\ UNCHANGED begun
    BY <1>5 DEF StayInCall, LeaveCall, CallStep
  <2> QED BY <2>1 DEF WorkspaceNext
<1>6. CASE GiveUp(p)
  <2>1. (CallStep(p) /\ UNCHANGED begun) \/ UNCHANGED workspaceVars
    BY <1>6 DEF GiveUp, CallStep
  <2> QED BY <2>1 DEF WorkspaceNext
<1> QED BY <1>1, <1>2, <1>3, <1>4, <1>5, <1>6 DEF PlanStep

LEMMA ElsewhereObeys == ASSUME Elsewhere PROVE [WorkspaceNext]_workspaceVars
<1>1. ASSUME NEW w \in Ids, Edit(w), UNCHANGED begun PROVE WorkspaceNext
  BY <1>1 DEF WorkspaceNext, Surroundings
<1>2. ASSUME NEW p \in Callers, CallStep(p), UNCHANGED begun PROVE WorkspaceNext
  BY <1>2 DEF WorkspaceNext
<1>3. ASSUME NEW p \in Callers, NEW w \in Ids, BeginCall(p, w) PROVE WorkspaceNext
  BY <1>3 DEF WorkspaceNext
<1> QED BY <1>1, <1>2, <1>3 DEF Elsewhere

LEMMA PublicationObeys ==
  PublicationInv /\ [PublicationNext]_publicationVars => [WorkspaceNext]_workspaceVars
<1> SUFFICES ASSUME PublicationInv, [PublicationNext]_publicationVars
             PROVE  [WorkspaceNext]_workspaceVars
  OBVIOUS
<1>1. CASE Elsewhere
  BY <1>1, ElsewhereObeys
<1>2. ASSUME NEW p \in Finishers, PlanStep(p) PROVE [WorkspaceNext]_workspaceVars
  BY <1>2, PlanStepObeys, PublicationAssumption DEF PublicationInv
<1>3. CASE UNCHANGED publicationVars
  BY <1>3 DEF publicationVars
<1> QED BY <1>1, <1>2, <1>3 DEF PublicationNext

-----------------------------------------------------------------------------
(* Others leave a plan alone, or disturb it. *)

LEMMA PlanKept ==
  ASSUME NEW q \in Callers, Progress(q), AsReviewed(q), plan'[q] = plan[q],
         Planning(q) => call'[q] = call[q],
         NEW others, q \in others, Disturb(others)
  PROVE  Progress(q)' /\ AsReviewed(q)'
<1>1. Progress(q)'
  BY DEF Progress, Planning, Ws, Passes, GatesPass
<1>2. AsReviewed(q)'
  <2> SUFFICES ASSUME q \notin disturbed' PROVE AsReviewed(q)'
    BY DEF AsReviewed
  <2>1. CASE ~Relying(q)
    BY <2>1 DEF AsReviewed, Relying, Calling
  <2>2. CASE Relying(q)
    <3>1. Relying(q)' /\ Planning(q)
      BY <2>2 DEF Relying, Calling, Planning
    <3>2. q \notin disturbed /\ branch' = branch /\ tree'[Ws(q)] = tree[Ws(q)]
      BY <3>1 DEF Disturb
    <3> QED BY <3>1, <3>2 DEF AsReviewed, Ws, At, Dirty
  <2> QED BY <2>1, <2>2
<1> QED BY <1>1, <1>2

LEMMA CallFrame ==
  ASSUME NEW p \in Callers, NEW q \in Callers \ {p}, WorkspaceInv,
         CallStep(p) \/ \E w \in Ids : BeginCall(p, w)
  PROVE  call'[q] = call[q]
<1>1. CASE \E w \in Ids : BeginCall(p, w)
  BY <1>1 DEF BeginCall, BeginCreate, BeginCheckout, BeginRecord, BeginCommit, BeginPush,
              BeginPushMr, BeginCleanup, Begin, WorkspaceInv, Typed
<1>2. CASE AddNew(p) \/ Fetch(p) \/ Look(p) \/ Replace(p) \/ Add(p)
  BY <1>2 DEF AddNew, Fetch, Look, Replace, Add, Goto, End, WorkspaceInv, Typed
<1>3. CASE Commit(p) \/ Push(p) \/ PushMr(p) \/ Fail(p) \/ Save(p) \/ Forget(p)
  BY <1>3 DEF Commit, Push, PushMr, Send, Fail, Save, Forget, Goto, End, WorkspaceInv, Typed
<1>4. CASE CheckPush(p, "check push", "push") \/ CheckPush(p, "check push-mr", "push-mr")
  BY <1>4 DEF CheckPush, Goto, WorkspaceInv, Typed
<1>5. CASE Check(p) \/ Probe(p) \/ Recheck(p) \/ RemoveWorktree(p) \/ Drop(p)
  BY <1>5 DEF Check, Probe, Recheck, RemoveWorktree, Drop, Goto, WorkspaceInv, Typed
<1> QED BY <1>1, <1>2, <1>3, <1>4, <1>5 DEF CallStep

-----------------------------------------------------------------------------
(* A plan goes on. *)

\* What every step of a plan does besides.
OwnStep(p) ==
  /\ plan' = [plan EXCEPT ![p] = plan'[p]] /\ plan'[p] \in Plans
  /\ preview' \in [Ids -> Previews \cup {Absent}]
  /\ planned' \in 0..MaxPlans
  /\ Progress(p)' /\ AsReviewed(p)'

\* Before the first comparison nothing is relied on.
LEMMA NotRelying ==
  ASSUME NEW p, ~Relying(p)' PROVE AsReviewed(p)'
BY DEF AsReviewed, Relying, Calling

LEMMA NoPlanType == NoPlan \in Plans /\ NoPlan.stage = "none"
<1>1. {} \in SUBSET Overrides /\ "cli" \in Kinds /\ "none" \in Stages
  BY DEF Kinds, Stages
<1>2. NothingRead \in [head : Histories \cup {Absent}, dirty : BOOLEAN, porcelain : SUBSET Paths,
                       scanned : Trees \cup {Absent}, pushed : BOOLEAN, mr : BOOLEAN]
  BY DEF NothingRead
<1> QED BY <1>1, <1>2 DEF NoPlan, Plans

LEMMA NoPlanOwn ==
  ASSUME NEW p \in Callers, PublicationInv, plan' = [plan EXCEPT ![p] = NoPlan],
         preview' \in [Ids -> Previews \cup {Absent}], planned' = planned
  PROVE  OwnStep(p)
<1>1. plan'[p] = NoPlan /\ NoPlan \in Plans
  BY NoPlanType DEF PublicationInv, PublicationTypeOK
<1>2. plan'[p].stage = "none"
  BY <1>1 DEF NoPlan
<1>3. Progress(p)'
  BY <1>2 DEF Progress, Planning, ReadStages
<1>4. AsReviewed(p)'
  BY <1>2, NotRelying DEF Relying, Calling
<1> QED BY <1>1, <1>3, <1>4 DEF OwnStep, PublicationInv, PublicationTypeOK

\* The plan becomes r, the rest stays.
LEMMA PlanOwn ==
  ASSUME NEW p \in Callers, PublicationInv, NEW r \in Plans,
         plan' = [plan EXCEPT ![p] = r], UNCHANGED preview, planned' \in 0..MaxPlans,
         r.ws \in Ids,
         r.stage \in {"paths", "scan"} => r.read.head \in Histories,
         r.stage \in ReadStages => r.read \in Snapshots,
         r.stage \in ReadStages \ {"gates"} => r.approved = r.read /\ Passes(r),
         r.stage \in {"commit", "committing"} => r.read.dirty,
         r.stage = "committing" =>
           call'[p].ws = r.ws /\ call'[p].at \in {"commit", "save"},
         r.stage = "pushing" =>
           call'[p].ws = r.ws /\ call'[p].at \in {"check push", "check push-mr", "push", "push-mr", "save"},
         AsReviewed(p)'
  PROVE  OwnStep(p)
<1>1. plan'[p] = r
  BY DEF PublicationInv, PublicationTypeOK
<1>2. Progress(p)'
  BY <1>1 DEF Progress, Planning, Ws
<1> QED BY <1>1, <1>2 DEF OwnStep, PublicationInv, PublicationTypeOK

LEMMA PlanTypes ==
  ASSUME NEW p \in Callers, PublicationInv
  PROVE  plan[p] \in Plans /\ Progress(p) /\ AsReviewed(p)
BY DEF PublicationInv, PublicationTypeOK

LEMMA BeginPlanOwn ==
  ASSUME NEW p \in Callers, NEW w \in Ids, NEW kind \in Kinds, NEW allowed \in Allowed,
         PublicationInv, BeginPlan(p, w, kind, allowed)
  PROVE  OwnStep(p)
<1> DEFINE r == [NoPlan EXCEPT !.stage = "validate", !.kind = kind, !.ws = w, !.allowed = allowed,
                      !.approved = IF kind = "bridge" THEN preview[w].snapshot ELSE Absent,
                      !.read.pushed = saved[w].pushed, !.read.mr = saved[w].mr]
<1>1. saved[w].pushed \in BOOLEAN /\ saved[w].mr \in BOOLEAN
  BY DEF BeginPlan, Known, PublicationInv, WorkspaceInv, Typed, States
<1>2. kind = "bridge" => preview[w].snapshot \in Snapshots
  BY DEF BeginPlan, PublicationInv, PublicationTypeOK, Previews
<1>3. r \in Plans
  <2>1. allowed \in SUBSET Overrides
    BY PublicationAssumption
  <2>2. NoPlan \in Plans /\ kind \in Kinds /\ w \in Ids /\ "validate" \in Stages
    BY NoPlanType DEF Stages
  <2>3. (IF kind = "bridge" THEN preview[w].snapshot ELSE Absent) \in Snapshots \cup {Absent}
    BY <1>2
  <2> QED BY <1>1, <2>1, <2>2, <2>3 DEF Plans
<1>4. r.stage = "validate" /\ r.ws = w
  BY DEF NoPlan
<1>5. plan' = [plan EXCEPT ![p] = r] /\ UNCHANGED preview /\ planned' \in 0..MaxPlans
  BY PublicationAssumption DEF BeginPlan, PublicationInv, PublicationTypeOK
<1> HIDE DEF r
<1>6. plan'[p] = r
  BY <1>5 DEF PublicationInv, PublicationTypeOK
<1>7. AsReviewed(p)'
  BY <1>4, <1>6, NotRelying DEF Relying, Calling
<1> QED BY <1>3, <1>4, <1>5, <1>7, PlanOwn DEF ReadStages

LEMMA EarlyOwn ==
  ASSUME NEW p \in Callers, PublicationInv, NEW r \in Plans,
         plan' = [plan EXCEPT ![p] = r], UNCHANGED <<preview, planned>>,
         r.ws \in Ids, r.stage \in {"status", "paths", "scan", "gates"},
         r.stage \in {"paths", "scan"} => r.read.head \in Histories,
         r.stage = "gates" => r.read \in Snapshots
  PROVE  OwnStep(p)
<1>1. plan'[p] = r
  BY DEF PublicationInv, PublicationTypeOK
<1>2. AsReviewed(p)'
  BY <1>1, NotRelying DEF Relying, Calling
<1>3. planned' \in 0..MaxPlans
  BY DEF PublicationInv, PublicationTypeOK
<1> QED BY <1>2, <1>3, PlanOwn DEF ReadStages

LEMMA ValidateOwn ==
  ASSUME NEW p \in Callers, PublicationInv, Validate(p) PROVE OwnStep(p)
<1> DEFINE r == [plan[p] EXCEPT !.stage = "status"]
<1>1. plan[p] \in Plans /\ Ws(p) \in Ids
  BY PlanTypes DEF Validate, Stage, Progress, Planning
<1>2. r \in Plans /\ r.ws \in Ids /\ r.stage = "status"
  BY <1>1 DEF Plans, Stages, Ws
<1>3. plan' = [plan EXCEPT ![p] = r] /\ UNCHANGED <<preview, planned>>
  BY DEF Validate, Set
<1> HIDE DEF r
<1> QED BY <1>2, <1>3, EarlyOwn

LEMMA ReadStatusOwn ==
  ASSUME NEW p \in Callers, PublicationInv, ReadStatus(p) PROVE OwnStep(p)
<1> DEFINE r == [plan[p] EXCEPT !.stage = "paths", !.read.head = branch,
                               !.read.dirty = Dirty(Ws(p)),
                               !.read.porcelain = Porcelain(Ws(p))]
<1>0. Porcelain(Ws(p)) \in SUBSET Paths
  BY DEF Porcelain
<1>1. plan[p] \in Plans /\ Ws(p) \in Ids /\ branch \in Histories
  BY PlanTypes DEF ReadStatus, Stage, Progress, Planning, PublicationInv, WorkspaceInv, Typed
<1>2. r \in Plans
  BY <1>0, <1>1 DEF Plans, Stages, Dirty
<1>3. r.ws = Ws(p) /\ r.stage = "paths" /\ r.read.head = branch
  BY <1>1 DEF Plans, Ws
<1>4. plan' = [plan EXCEPT ![p] = r] /\ UNCHANGED <<preview, planned>>
  BY DEF ReadStatus, Set
<1> HIDE DEF r
<1> QED BY <1>1, <1>2, <1>3, <1>4, EarlyOwn

LEMMA ReadPathsOwn ==
  ASSUME NEW p \in Callers, PublicationInv, ReadPaths(p) PROVE OwnStep(p)
<1> DEFINE r == [plan[p] EXCEPT !.stage = "scan", !.listed = tree[Ws(p)]]
<1>1. plan[p] \in Plans /\ Ws(p) \in Ids /\ plan[p].read.head \in Histories
  BY PlanTypes DEF ReadPaths, Stage, Progress, Planning
<1>2. tree[Ws(p)] \in Trees
  BY <1>1 DEF ReadPaths, Known, PublicationInv, WorkspaceInv, Typed
<1>3. r \in Plans /\ r.ws = Ws(p) /\ r.stage = "scan" /\ r.read = plan[p].read
  BY <1>1, <1>2 DEF Plans, Stages, Ws
<1>4. plan' = [plan EXCEPT ![p] = r] /\ UNCHANGED <<preview, planned>>
  BY DEF ReadPaths, Set
<1> HIDE DEF r
<1> QED BY <1>1, <1>3, <1>4, EarlyOwn

LEMMA ReadScannedOwn ==
  ASSUME NEW p \in Callers, PublicationInv, ReadScanned(p) PROVE OwnStep(p)
<1> DEFINE r == [plan[p] EXCEPT !.stage = "gates", !.read.scanned = tree[Ws(p)]]
<1>1. plan[p] \in Plans /\ Ws(p) \in Ids /\ plan[p].read.head \in Histories
  BY PlanTypes DEF ReadScanned, Stage, Progress, Planning
<1>2. tree[Ws(p)] \in Trees
  BY <1>1 DEF ReadScanned, Known, PublicationInv, WorkspaceInv, Typed
<1>3. r \in Plans /\ r.read \in Snapshots
  BY <1>1, <1>2 DEF Plans, Stages, Snapshots
<1>4. r.ws = Ws(p) /\ r.stage = "gates"
  BY <1>1 DEF Plans, Ws
<1>5. plan' = [plan EXCEPT ![p] = r] /\ UNCHANGED <<preview, planned>>
  BY DEF ReadScanned, Set
<1> HIDE DEF r
<1> QED BY <1>1, <1>3, <1>4, <1>5, EarlyOwn

LEMMA RecordPreviewOwn ==
  ASSUME NEW p \in Callers, PublicationInv, RecordPreview(p) PROVE OwnStep(p)
<1>1. plan[p].read \in Snapshots /\ plan[p].allowed \in SUBSET Overrides
  BY PlanTypes DEF RecordPreview, Stage, Progress, ReadStages, Plans
<1>2. preview' \in [Ids -> Previews \cup {Absent}]
  <2>1. [snapshot |-> plan[p].read, allowed |-> plan[p].allowed] \in Previews
    BY <1>1 DEF Previews
  <2> QED BY <2>1 DEF RecordPreview, PublicationInv, PublicationTypeOK
<1> QED BY <1>2, NoPlanOwn DEF RecordPreview, Set

LEMMA ApproveOwn ==
  ASSUME NEW p \in Callers, PublicationInv, Approve(p) PROVE OwnStep(p)
<1> DEFINE r == [plan[p] EXCEPT !.stage = "check status", !.approved = plan[p].read]
<1>1. plan[p] \in Plans /\ Ws(p) \in Ids /\ plan[p].read \in Snapshots /\ Passes(plan[p])
  BY PlanTypes DEF Approve, Stage, Progress, ReadStages, Planning
<1>2. /\ r \in Plans /\ r.ws \in Ids /\ r.stage = "check status"
      /\ r.read = plan[p].read /\ r.approved = r.read /\ Passes(r)
  BY <1>1 DEF Plans, Stages, Ws, Passes, GatesPass
<1>3. plan' = [plan EXCEPT ![p] = r] /\ UNCHANGED <<preview, planned>> /\ Passes(plan[p])
  BY DEF Approve, Set
<1> HIDE DEF r
<1>4. plan'[p] = r /\ planned' \in 0..MaxPlans
  BY <1>3 DEF PublicationInv, PublicationTypeOK
<1>5. AsReviewed(p)'
  BY <1>2, <1>4, NotRelying DEF Relying, Calling
<1> QED BY <1>1, <1>2, <1>3, <1>4, <1>5, PlanOwn

\* The caller relied on what it has compared, and goes on relying on it undisturbed.
LEMMA Undisturbed ==
  ASSUME NEW p \in Callers, NEW others, Disturb(others), Relying(p)', p \notin disturbed'
  PROVE  p \notin disturbed
BY DEF Disturb

LEMMA CheckStatusOwn ==
  ASSUME NEW p \in Callers, PublicationInv, CheckStatus(p) PROVE OwnStep(p)
<1> DEFINE r == [plan[p] EXCEPT !.stage = "check diff"]
<1>1. /\ plan[p] \in Plans /\ Ws(p) \in Ids /\ plan[p].read \in Snapshots
      /\ plan[p].approved = plan[p].read /\ Passes(plan[p])
  BY PlanTypes DEF CheckStatus, Stage, Progress, ReadStages, Planning
<1>2. /\ r \in Plans /\ r.ws \in Ids /\ r.stage = "check diff"
      /\ r.read = plan[p].read /\ r.approved = r.read /\ Passes(r)
  BY <1>1 DEF Plans, Stages, Ws, Passes, GatesPass
<1>3. /\ plan' = [plan EXCEPT ![p] = r] /\ UNCHANGED <<workspaceVars, preview, planned>>
      /\ branch = plan[p].read.head
  BY DEF CheckStatus, Set
<1> HIDE DEF r
<1>4. plan'[p] = r /\ planned' \in 0..MaxPlans
  BY <1>3 DEF PublicationInv, PublicationTypeOK
<1>5. AsReviewed(p)'
  BY <1>2, <1>3, <1>4 DEF AsReviewed, workspaceVars
<1> QED BY <1>1, <1>2, <1>3, <1>4, <1>5, PlanOwn

LEMMA CheckDiffOwn ==
  ASSUME NEW p \in Callers, NEW others, PublicationInv, CheckDiff(p), Disturb(others)
  PROVE  OwnStep(p)
<1> DEFINE r == [plan[p] EXCEPT !.stage = IF plan[p].read.dirty THEN "commit" ELSE "push"]
<1>1. /\ plan[p] \in Plans /\ Ws(p) \in Ids /\ plan[p].read \in Snapshots
      /\ plan[p].approved = plan[p].read /\ Passes(plan[p])
      /\ plan[p].stage = "check diff"
  BY PlanTypes DEF CheckDiff, Stage, Progress, ReadStages, Planning
<1>2. /\ r \in Plans /\ r.ws = Ws(p) /\ r.read = plan[p].read /\ r.approved = r.read /\ Passes(r)
      /\ r.stage = IF plan[p].read.dirty THEN "commit" ELSE "push"
  BY <1>1 DEF Plans, Stages, Ws, Passes, GatesPass
<1>3. /\ plan' = [plan EXCEPT ![p] = r] /\ UNCHANGED <<preview, planned>>
      /\ UNCHANGED <<branch, tree>> /\ tree[Ws(p)] = plan[p].read.scanned
  BY DEF CheckDiff, Set, workspaceVars
<1> HIDE DEF r
<1>4. plan'[p] = r /\ planned' \in 0..MaxPlans
  BY <1>3 DEF PublicationInv, PublicationTypeOK
<1>5. AsReviewed(p)'
  <2> SUFFICES ASSUME p \notin disturbed' PROVE AsReviewed(p)'
    BY DEF AsReviewed
  <2>1. p \notin disturbed
    BY <1>2, <1>4, Undisturbed DEF Relying, Calling
  <2>2. branch = plan[p].read.head
    BY <1>1, <2>1, PlanTypes DEF AsReviewed
  <2> QED BY <1>2, <1>3, <1>4, <2>2 DEF AsReviewed, Reviewed, Ws
<1> QED BY <1>1, <1>2, <1>3, <1>4, <1>5, PlanOwn

LEMMA StartCommitOwn ==
  ASSUME NEW p \in Callers, NEW others, PublicationInv, StartCommit(p), Disturb(others)
  PROVE  OwnStep(p)
<1> DEFINE r == [plan[p] EXCEPT !.stage = "committing"]
<1>1. /\ plan[p] \in Plans /\ Ws(p) \in Ids /\ plan[p].read \in Snapshots
      /\ plan[p].approved = plan[p].read /\ Passes(plan[p])
      /\ plan[p].stage = "commit" /\ plan[p].read.dirty
  BY PlanTypes DEF StartCommit, Stage, Progress, ReadStages, Planning
<1>2. /\ r \in Plans /\ r.ws = Ws(p) /\ r.read = plan[p].read /\ r.approved = r.read /\ Passes(r)
      /\ r.stage = "committing"
  BY <1>1 DEF Plans, Stages, Ws, Passes, GatesPass
<1>3. /\ plan' = [plan EXCEPT ![p] = r] /\ UNCHANGED <<preview, planned>>
      /\ UNCHANGED <<branch, tree>>
      /\ call'[p].ws = Ws(p) /\ call'[p].at = "commit"
  BY DEF StartCommit, BeginCommit, Begin, Set, repoVars, NoCall, PublicationInv, WorkspaceInv, Typed
<1> HIDE DEF r
<1>4. plan'[p] = r /\ planned' \in 0..MaxPlans
  BY <1>3 DEF PublicationInv, PublicationTypeOK
<1>5. AsReviewed(p)'
  <2> SUFFICES ASSUME p \notin disturbed' PROVE AsReviewed(p)'
    BY DEF AsReviewed
  <2>1. p \notin disturbed
    BY <1>2, <1>4, Undisturbed DEF Relying, Calling
  <2>2. branch = plan[p].read.head /\ tree[Ws(p)] = plan[p].read.scanned
    BY <1>1, <2>1, PlanTypes DEF AsReviewed
  <2> QED BY <1>2, <1>3, <1>4, <2>2 DEF AsReviewed, Ws, At
<1> QED BY <1>1, <1>2, <1>3, <1>4, <1>5, PlanOwn

LEMMA StartPushOwn ==
  ASSUME NEW p \in Callers, NEW others, PublicationInv, StartPush(p), Disturb(others)
  PROVE  OwnStep(p)
<1> DEFINE r == [plan[p] EXCEPT !.stage = "pushing"]
<1>1. /\ plan[p] \in Plans /\ Ws(p) \in Ids /\ plan[p].read \in Snapshots
      /\ plan[p].approved = plan[p].read /\ Passes(plan[p])
      /\ plan[p].stage = "push"
  BY PlanTypes DEF StartPush, Stage, Progress, ReadStages, Planning
<1>2. /\ r \in Plans /\ r.ws = Ws(p) /\ r.read = plan[p].read /\ r.approved = r.read /\ Passes(r)
      /\ r.stage = "pushing"
  BY <1>1 DEF Plans, Stages, Ws, Passes, GatesPass
<1>3. plan' = [plan EXCEPT ![p] = r] /\ UNCHANGED <<preview, planned>>
  BY DEF StartPush, Set
<1>4. PICK at \in {"check push", "check push-mr"} : Begin(p, Ws(p), at, saved[Ws(p)], FALSE)
  BY DEF StartPush, BeginPush, BeginPushMr
<1>5. UNCHANGED <<branch, tree>> /\ call'[p].ws = Ws(p) /\ call'[p].at = at
  BY <1>4 DEF Begin, repoVars, NoCall, PublicationInv, WorkspaceInv, Typed
<1> HIDE DEF r
<1>6. plan'[p] = r /\ planned' \in 0..MaxPlans
  BY <1>3 DEF PublicationInv, PublicationTypeOK
<1>7. AsReviewed(p)'
  <2> SUFFICES ASSUME p \notin disturbed' PROVE AsReviewed(p)'
    BY DEF AsReviewed
  <2>1. p \notin disturbed
    BY <1>2, <1>6, Undisturbed DEF Relying, Calling
  <2>2. branch = Reviewed(plan[p].read) /\ tree[Ws(p)] = plan[p].read.scanned
    BY <1>1, <2>1, PlanTypes DEF AsReviewed
  <2> QED BY <1>2, <1>5, <1>6, <2>2 DEF AsReviewed, Reviewed, Ws, At
<1> QED BY <1>1, <1>2, <1>3, <1>5, <1>6, <1>7, PlanOwn

LEMMA StayInCallOwn ==
  ASSUME NEW p \in Callers, NEW others, PublicationInv, StayInCall(p), Disturb(others)
  PROVE  OwnStep(p)
<1>1. /\ plan[p] \in Plans /\ Ws(p) \in Ids /\ plan[p].read \in Snapshots
      /\ plan[p].approved = plan[p].read /\ Passes(plan[p])
      /\ plan[p].stage \in {"committing", "pushing"} /\ call[p].ws = Ws(p)
  BY PlanTypes DEF StayInCall, Calling, Progress, ReadStages, Planning
<1>2. plan' = [plan EXCEPT ![p] = plan[p]] /\ UNCHANGED <<preview, planned>>
  BY DEF StayInCall, Set
<1>3. plan'[p] = plan[p] /\ planned' \in 0..MaxPlans
  BY <1>2 DEF PublicationInv, PublicationTypeOK
<1>4. p \notin disturbed' => p \notin disturbed
  BY <1>1, <1>3, Undisturbed DEF Relying, Calling
<1>5. CASE plan[p].stage = "committing"
  <2>1. call[p].at \in {"commit", "save"} /\ plan[p].read.dirty
    BY <1>5, PlanTypes DEF Progress
  <2>2. Commit(p)
    BY <2>1 DEF StayInCall, CheckPush, Push, PushMr, At
  <2>3. /\ branch' = Append(Onto(branch), tree[Ws(p)]) /\ tree' = tree
        /\ call[p].at = "commit" /\ call'[p].at = "save" /\ call'[p].ws = Ws(p)
    BY <1>1, <2>2 DEF Commit, CommitTree, At, Goto, PublicationInv, WorkspaceInv, Typed, Calls
  <2>4. AsReviewed(p)'
    <3> SUFFICES ASSUME p \notin disturbed' PROVE AsReviewed(p)'
      BY DEF AsReviewed
    <3>1. branch = plan[p].read.head /\ tree[Ws(p)] = plan[p].read.scanned
      BY <1>4, <1>5, <2>3, PlanTypes DEF AsReviewed, At
    <3>2. Onto(branch) = plan[p].read.head
      BY <1>1, <3>1, Distinct DEF Onto, Snapshots
    <3>3. branch' = Reviewed(plan[p].read)
      BY <2>1, <2>3, <3>1, <3>2 DEF Reviewed
    <3> QED BY <1>3, <1>5, <2>3, <3>1, <3>3 DEF AsReviewed, Reviewed, At, Ws
  <2> QED BY <1>1, <1>2, <1>3, <1>5, <2>1, <2>3, <2>4, PlanOwn DEF Ws
<1>6. CASE plan[p].stage = "pushing"
  <2>1. call[p].at \in {"check push", "check push-mr", "push", "push-mr", "save"}
    BY <1>6, PlanTypes DEF Progress
  <2>2. /\ UNCHANGED <<branch, tree>>
        /\ call'[p].ws = Ws(p) /\ call'[p].at \in {"push", "push-mr", "save"}
        /\ call'[p].at # "save" => ~Dirty(Ws(p))
    <3>1. CASE CheckPush(p, "check push", "push") \/ CheckPush(p, "check push-mr", "push-mr")
      BY <1>1, <3>1 DEF CheckPush, Goto, repoVars, PublicationInv, WorkspaceInv, Typed, Calls
    <3>2. CASE Push(p) \/ PushMr(p)
      <4>1. PICK mr : Send(p, mr)
        BY <3>2 DEF Push, PushMr
      <4>2. call[p] \in Calls /\ p \in DOMAIN call
        BY DEF PublicationInv, WorkspaceInv, Typed
      <4> QED BY <1>1, <4>1, <4>2 DEF Send, Calls
    <3> QED BY <2>1, <3>1, <3>2 DEF StayInCall, Commit, At
  <2>3. AsReviewed(p)'
    BY <1>3, <1>4, <1>6, <2>2, PlanTypes DEF AsReviewed, Reviewed, At, Ws, Dirty
  <2> QED BY <1>1, <1>2, <1>3, <1>6, <2>2, <2>3, PlanOwn DEF Ws
<1> QED BY <1>1, <1>5, <1>6

LEMMA LeaveCallOwn ==
  ASSUME NEW p \in Callers, NEW others, PublicationInv, LeaveCall(p), Disturb(others)
  PROVE  OwnStep(p)
<1>1. /\ plan[p] \in Plans /\ Ws(p) \in Ids /\ plan[p].read \in Snapshots
      /\ plan[p].approved = plan[p].read /\ Passes(plan[p])
      /\ plan[p].stage \in {"committing", "pushing"}
  BY PlanTypes DEF LeaveCall, Calling, Progress, ReadStages, Planning
<1>2. CASE plan[p].stage = "pushing"
  <2>1. plan' = [plan EXCEPT ![p] = NoPlan] /\ UNCHANGED <<preview, planned>>
    BY <1>2 DEF LeaveCall, Set
  <2> QED BY <2>1, NoPlanOwn DEF PublicationInv, PublicationTypeOK
<1>3. CASE plan[p].stage = "committing"
  <2> DEFINE r == [plan[p] EXCEPT !.stage = "push"]
  <2>1. /\ r \in Plans /\ r.ws = Ws(p) /\ r.read = plan[p].read /\ r.approved = r.read /\ Passes(r)
        /\ r.stage = "push"
    BY <1>1 DEF Plans, Stages, Ws, Passes, GatesPass
  <2>2. /\ plan' = [plan EXCEPT ![p] = r] /\ UNCHANGED <<preview, planned>>
        /\ UNCHANGED <<branch, tree>> /\ At(p, "save")
    BY <1>3 DEF LeaveCall, Set, Save, repoVars
  <2> HIDE DEF r
  <2>3. plan'[p] = r /\ planned' \in 0..MaxPlans
    BY <2>2 DEF PublicationInv, PublicationTypeOK
  <2>4. AsReviewed(p)'
    <3> SUFFICES ASSUME p \notin disturbed' PROVE AsReviewed(p)'
      BY DEF AsReviewed
    <3>1. p \notin disturbed
      BY <2>1, <2>3, Undisturbed DEF Relying, Calling
    <3>2. branch = Reviewed(plan[p].read) /\ tree[Ws(p)] = plan[p].read.scanned
      BY <1>3, <2>2, <3>1, PlanTypes DEF AsReviewed
    <3> QED BY <2>1, <2>2, <2>3, <3>2 DEF AsReviewed, Reviewed, Ws
  <2> QED BY <1>1, <2>1, <2>2, <2>3, <2>4, PlanOwn
<1> QED BY <1>1, <1>2, <1>3

LEMMA PlanStepOwn ==
  ASSUME NEW p \in Callers, NEW others, PublicationInv, PlanStep(p), Disturb(others)
  PROVE  OwnStep(p)
<1>1. CASE GiveUp(p)
  BY <1>1, NoPlanOwn DEF GiveUp, Set, PublicationInv, PublicationTypeOK
<1>2. CASE \E w \in Ids, kind \in Kinds, allowed \in Allowed : BeginPlan(p, w, kind, allowed)
  BY <1>2, BeginPlanOwn
<1>3. CASE Validate(p) \/ ReadStatus(p) \/ ReadPaths(p) \/ ReadScanned(p) \/ RecordPreview(p)
  BY <1>3, ValidateOwn, ReadStatusOwn, ReadPathsOwn, ReadScannedOwn, RecordPreviewOwn
<1>4. CASE Approve(p) \/ CheckStatus(p) \/ CheckDiff(p)
  BY <1>4, ApproveOwn, CheckStatusOwn, CheckDiffOwn
<1>5. CASE StartCommit(p) \/ StartPush(p) \/ StayInCall(p) \/ LeaveCall(p)
  BY <1>5, StartCommitOwn, StartPushOwn, StayInCallOwn, LeaveCallOwn
<1> QED BY <1>1, <1>2, <1>3, <1>4, <1>5 DEF PlanStep

\* A plan touches no other caller's call.
LEMMA PlanStepFrame ==
  ASSUME NEW p \in Callers, NEW q \in Callers \ {p}, PublicationInv, PlanStep(p)
  PROVE  call'[q] = call[q]
<1>1. CASE StartCommit(p) \/ StartPush(p)
  BY <1>1 DEF StartCommit, StartPush, BeginCommit, BeginPush, BeginPushMr, Begin,
              PublicationInv, WorkspaceInv, Typed
<1>2. CASE StayInCall(p) \/ LeaveCall(p)
  BY <1>2, CallFrame DEF StayInCall, LeaveCall, CallStep, PublicationInv
<1>3. CASE GiveUp(p)
  BY <1>3, CallFrame DEF GiveUp, CallStep, PublicationInv, workspaceVars
<1>4. CASE \E w \in Ids, kind \in Kinds, allowed \in Allowed : BeginPlan(p, w, kind, allowed)
  BY <1>4 DEF BeginPlan, workspaceVars
<1>5. CASE Validate(p) \/ ReadStatus(p) \/ ReadPaths(p) \/ ReadScanned(p) \/ RecordPreview(p) \/ Approve(p)
           \/ CheckStatus(p) \/ CheckDiff(p)
  BY <1>5 DEF Validate, ReadStatus, ReadPaths, ReadScanned, RecordPreview, Approve, CheckStatus, CheckDiff,
              workspaceVars
<1> QED BY <1>1, <1>2, <1>3, <1>4, <1>5 DEF PlanStep

-----------------------------------------------------------------------------
(* Every step keeps the invariant. *)

LEMMA PublicationStepKeeps ==
  PublicationInv /\ [PublicationNext]_publicationVars => PublicationInv'
<1> SUFFICES ASSUME PublicationInv, [PublicationNext]_publicationVars PROVE PublicationInv'
  OBVIOUS
<1>1. WorkspaceInv'
  BY PublicationObeys, StepKeeps DEF PublicationInv
<1>2. CASE Elsewhere /\ Disturb(Callers)
  <2>1. UNCHANGED <<plan, preview, planned>>
    BY <1>2 DEF Elsewhere
  <2>2. disturbed' \subseteq Callers
    BY <1>2 DEF Disturb
  <2>3. ASSUME NEW q \in Callers, Planning(q) PROVE call'[q] = call[q]
    <3>1. CASE \E w \in Ids : Edit(w)
      BY <3>1 DEF Edit
    <3>2. ASSUME NEW p \in Callers, ~Planning(p), CallStep(p) \/ \E w \in Ids : BeginCall(p, w)
          PROVE  call'[q] = call[q]
      BY <2>3, <3>2, CallFrame DEF PublicationInv
    <3> QED BY <1>2, <3>1, <3>2 DEF Elsewhere
  <2>4. \A q \in Callers : Progress(q)' /\ AsReviewed(q)'
    BY <1>2, <2>1, <2>3, PlanKept DEF PublicationInv
  <2> QED BY <1>1, <2>1, <2>2, <2>4 DEF PublicationInv, PublicationTypeOK
<1>3. ASSUME NEW p \in Finishers, PlanStep(p), Disturb(Callers \ {p}) PROVE PublicationInv'
  <2>1. p \in Callers
    BY PublicationAssumption
  <2>2. OwnStep(p)
    BY <1>3, <2>1, PlanStepOwn
  <2>3. disturbed' \subseteq Callers
    BY <1>3 DEF Disturb
  <2>4. PublicationTypeOK'
    BY <2>2, <2>3 DEF OwnStep, PublicationInv, PublicationTypeOK
  <2>5. \A q \in Callers \ {p} : plan'[q] = plan[q] /\ call'[q] = call[q]
    BY <1>3, <2>1, <2>2, PlanStepFrame DEF OwnStep, PublicationInv, PublicationTypeOK
  <2>6. \A q \in Callers \ {p} : Progress(q)' /\ AsReviewed(q)'
    BY <1>3, <2>5, PlanKept DEF PublicationInv
  <2> QED BY <1>1, <2>2, <2>4, <2>6 DEF OwnStep, PublicationInv
<1>4. CASE UNCHANGED publicationVars
  <2>1. UNCHANGED <<branch, tree, call, plan, preview, planned, disturbed>>
    BY <1>4 DEF publicationVars, workspaceVars
  <2>2. PublicationTypeOK'
    BY <2>1 DEF PublicationInv, PublicationTypeOK
  <2>3. ASSUME NEW q \in Callers PROVE Progress(q)' /\ AsReviewed(q)'
    <3>1. Progress(q)'
      BY <2>1 DEF PublicationInv, Progress, Planning, Ws, Passes, GatesPass
    <3>2. AsReviewed(q)'
      BY <2>1 DEF PublicationInv, AsReviewed, Ws, At, Dirty
    <3> QED BY <3>1, <3>2
  <2> QED BY <1>1, <2>2, <2>3 DEF PublicationInv
<1> QED BY <1>2, <1>3, <1>4 DEF PublicationNext

LEMMA PublicationStarts == PublicationInit => PublicationInv
<1> SUFFICES ASSUME PublicationInit PROVE PublicationInv
  OBVIOUS
<1>1. <<>> \in Histories /\ \A t \in Trees : <<t>> \in Histories
  BY EmptySeq, AppendHistory DEF Histories, Last
<1>2. /\ branch \in Histories /\ remote \in {branch, Absent}
      /\ published = {<<>>, branch}
  BY <1>1 DEF PublicationInit
<1>3. NoCall("idle") \in Calls /\ NoCall("idle").at = "idle"
  BY DEF NoCall, Calls, Points
<1>4. /\ call = [p \in Callers |-> NoCall("idle")] /\ lock = [w \in Ids |-> Absent]
      /\ plan = [p \in Callers |-> NoPlan] /\ preview = [w \in Ids |-> Absent]
      /\ planned = 0 /\ disturbed = {}
  BY DEF PublicationInit
<1>5. tree \in [Ids -> Trees \cup {Absent}]
  BY <1>2, TipTreeType DEF PublicationInit
<1>6. saved \in [Ids -> States \cup {Absent}]
  BY WorkspaceAssumption DEF PublicationInit, States
<1>7. Typed
  BY <1>1, <1>2, <1>3, <1>4, <1>5, <1>6 DEF Typed
<1>8. \A p \in Callers : Local(p)
  BY <1>3, <1>4, Distinct DEF Local, Owner, Files, Verified, Free, LocalPoints
<1>9. Sole
  BY <1>3, <1>4 DEF Sole, Free
<1>10. Tips
  BY <1>2 DEF Tips
<1>11. Named
  BY <1>2, PrefixOfItself DEF Named, WasPublished
<1>12. WorkspaceInv
  BY <1>7, <1>8, <1>9, <1>10, <1>11 DEF WorkspaceInv
<1>13. NoPlan \in Plans /\ NoPlan.stage = "none"
  BY NoPlanType
<1>14. PublicationTypeOK
  BY <1>4, <1>13, PublicationAssumption DEF PublicationTypeOK
<1>15. \A p \in Callers : Progress(p) /\ AsReviewed(p)
  BY <1>4, <1>13 DEF Progress, AsReviewed, Planning, ReadStages
<1> QED BY <1>12, <1>14, <1>15 DEF PublicationInv

\* What building and executing a plan preserves: what each stage has read, and that it is what
\* was approved until someone disturbs it (build_finish_plan, execute_finish).
THEOREM PublicationInvariant == PublicationSpec => []PublicationInv
BY PublicationStarts, PublicationStepKeeps, PTL DEF PublicationSpec

-----------------------------------------------------------------------------
(* The theorems. *)

\* The variables keep their types; in particular a preview that can be approved holds a
\* complete snapshot (build_finish_plan, finish_preview).
THEOREM PublicationTypeCorrect == PublicationSpec => []PublicationTypeOK
<1>1. PublicationInv => PublicationTypeOK
  BY DEF PublicationInv
<1> QED BY <1>1, PublicationInvariant, PTL

\* So nothing is lost either while workspaces are published.
THEOREM PublicationKeepsWork == PublicationSpec => WorkSurvives
<1>1. PublicationInv /\ [PublicationNext]_publicationVars => LosesNothing
  BY PublicationObeys, StepLosesNothing DEF PublicationInv
<1>2. LosesNothing <=> \/ \E p \in Callers : Forced(p) /\ call'[p] # call[p]
                      \/ /\ branch # Absent /\ ~IsAncestor(branch, branch') => WasPublished(branch)
                         /\ \A w \in Ids : tree[w] # Absent /\ tree'[w] = Absent => ~Dirty(w)
  BY DEF LosesNothing, BranchKept, FilesKept
<1> QED BY <1>1, <1>2, PublicationInvariant, PTL DEF PublicationSpec, WorkSurvives

LEMMA ReviewedIsClean ==
  ASSUME NEW s \in Snapshots, s.scanned \notin Secret, CleanHistory(s.head)
  PROVE  CleanHistory(Reviewed(s))
<1> DEFINE S == Trees \cup {Root}
<1>1. s.head \in Seq(S) /\ s.scanned \in S /\ s.scanned \notin Secret
      /\ \A i \in 1..Len(s.head) : s.head[i] \notin Secret
  BY DEF Snapshots, Histories, CleanHistory
<1>2. CASE ~s.dirty
  BY <1>2 DEF Reviewed
<1>3. CASE s.dirty
  <2> DEFINE h == s.head
             g == Append(h, s.scanned)
  <2> HIDE DEF S
  <2>1. /\ Len(h) \in Nat /\ Len(g) = Len(h) + 1
        /\ g[Len(h) + 1] = s.scanned /\ \A i \in 1..Len(h) : g[i] = h[i]
    BY <1>1, AppendProperties, LenProperties
  <2>2. ASSUME NEW i \in 1..Len(g) PROVE g[i] \notin Secret
    <3>1. i \in 1..Len(h) \/ i = Len(h) + 1
      BY <2>1
    <3> QED BY <1>1, <2>1, <3>1
  <2> QED BY <1>3, <2>2 DEF CleanHistory, Reviewed
<1> QED BY <1>2, <1>3

\* A finish that is not disturbed publishes the branch as it is, with its worktree clean.
LEMMA PublishesTheBranch ==
  ASSUME PublicationInv, [PublicationNext]_publicationVars, NEW p \in Callers, Publishes(p),
         p \notin disturbed
  PROVE  /\ plan[p].read \in Snapshots /\ plan[p].approved = plan[p].read /\ Passes(plan[p])
         /\ remote' = Reviewed(plan[p].read)
         /\ TipTree(remote') = plan[p].read.scanned
<1>1. /\ plan[p].stage = "pushing" /\ call[p].at \in {"push", "push-mr"}
      /\ call'[p].at = "save" /\ Planning(p)
  BY DEF Publishes, Planning
<1>2. call'[p] # call[p]
  BY <1>1
<1>3. /\ plan[p].read \in Snapshots /\ plan[p].approved = plan[p].read /\ Passes(plan[p])
      /\ branch = Reviewed(plan[p].read)
      /\ tree[Ws(p)] = plan[p].read.scanned /\ ~Dirty(Ws(p))
  BY <1>1, PlanTypes DEF Progress, AsReviewed, ReadStages, At
<1>4. remote' = branch
  <2>1. CASE Elsewhere
    <3>1. ASSUME NEW q \in Callers, ~Planning(q), CallStep(q) \/ \E w \in Ids : BeginCall(q, w)
          PROVE  FALSE
      BY <1>1, <1>2, <3>1, CallFrame DEF PublicationInv
    <3>2. ASSUME NEW w \in Ids, Edit(w) PROVE FALSE
      BY <1>2, <3>2 DEF Edit
    <3> QED BY <2>1, <3>1, <3>2 DEF Elsewhere
  <2>2. ASSUME NEW q \in Finishers, PlanStep(q) PROVE remote' = branch
    <3>1. q = p
      BY <1>2, <2>2, PlanStepFrame, PublicationAssumption
    <3>2. CASE StayInCall(p)
      BY <1>1, <3>2 DEF StayInCall, Commit, CheckPush, At, Push, PushMr, Send
    <3>3. CASE LeaveCall(p)
      BY <1>1, <3>3 DEF LeaveCall, Save, At
    <3>4. CASE GiveUp(p)
      <4>1. Fail(p)
        BY <1>1, <3>4 DEF GiveUp, Calling
      <4>2. call'[p].at = "idle"
        BY <4>1 DEF Fail, End, NoCall, PublicationInv, WorkspaceInv, Typed
      <4> QED BY <1>1, <4>2
    <3>5. CASE \/ Validate(p) \/ ReadStatus(p) \/ ReadPaths(p) \/ ReadScanned(p)
               \/ RecordPreview(p) \/ Approve(p) \/ CheckStatus(p) \/ CheckDiff(p)
               \/ StartCommit(p) \/ StartPush(p)
      BY <1>1, <3>5 DEF Validate, ReadStatus, ReadPaths, ReadScanned, RecordPreview, Approve,
                        CheckStatus, CheckDiff, StartCommit, StartPush, Stage
    <3>6. CASE \E w \in Ids, kind \in Kinds, allowed \in Allowed : BeginPlan(p, w, kind, allowed)
      BY <1>1, <3>6 DEF BeginPlan
    <3> QED BY <2>2, <3>1, <3>2, <3>3, <3>4, <3>5, <3>6 DEF PlanStep
  <2>3. CASE UNCHANGED publicationVars
    BY <1>2, <2>3 DEF publicationVars, workspaceVars
  <2> QED BY <2>1, <2>2, <2>3 DEF PublicationNext
<1>5. TipTree(branch) = plan[p].read.scanned
  BY <1>3 DEF Dirty
<1> QED BY <1>3, <1>4, <1>5

\* What a finish publishes undisturbed is the commit that was approved, free of what the
\* scan finds unless that was allowed (execute_finish, whoever else runs, and whatever failed
\* before).
THEOREM FinishPublishesReviewed == PublicationSpec => PublishedAsReviewed
<1> DEFINE A == \A p \in Callers : Publishes(p) /\ p \notin disturbed =>
                  /\ remote' = Reviewed(plan[p].approved)
                  /\ "secret" \in plan[p].allowed \/ CleanHistory(remote')
<1>1. PublicationInv /\ [PublicationNext]_publicationVars => A
  <2> SUFFICES ASSUME PublicationInv, [PublicationNext]_publicationVars,
                      NEW p \in Callers, Publishes(p), p \notin disturbed
               PROVE  /\ remote' = Reviewed(plan[p].approved)
                      /\ "secret" \in plan[p].allowed \/ CleanHistory(remote')
    OBVIOUS
  <2>1. /\ plan[p].read \in Snapshots /\ plan[p].approved = plan[p].read /\ Passes(plan[p])
        /\ remote' = Reviewed(plan[p].read)
    BY PublishesTheBranch
  <2>2. CASE "secret" \in plan[p].allowed
    BY <2>1, <2>2
  <2>3. CASE "secret" \notin plan[p].allowed
    <3>1. plan[p].read.scanned \notin Secret /\ CleanHistory(plan[p].read.head)
      BY <2>1, <2>3 DEF Passes, GatesPass
    <3> QED BY <2>1, <3>1, ReviewedIsClean
  <2> QED BY <2>2, <2>3
<1> QED BY <1>1, PublicationInvariant, PTL DEF PublicationSpec, PublishedAsReviewed

\* If the files did not change between the listing of the paths and the scan, a change of a
\* protected path is published undisturbed only with its override (build_finish_plan,
\* execute_finish): what is published is the scanned tree, which is then the listed one.
THEOREM FinishHonoursGates == PublicationSpec => GatesHonoured
<1> DEFINE A == \A p \in Callers :
                  /\ Publishes(p)
                  /\ p \notin disturbed
                  /\ plan[p].listed = plan[p].read.scanned
                  /\ TipTree(remote') \in Protected
                  => "protected" \in plan[p].allowed
<1>1. PublicationInv /\ [PublicationNext]_publicationVars => A
  <2> SUFFICES ASSUME PublicationInv, [PublicationNext]_publicationVars, NEW p \in Callers,
                      Publishes(p), p \notin disturbed,
                      plan[p].listed = plan[p].read.scanned, TipTree(remote') \in Protected
               PROVE  "protected" \in plan[p].allowed
    OBVIOUS
  <2>1. Passes(plan[p]) /\ plan[p].listed \in Protected
    BY PublishesTheBranch
  <2> QED BY <2>1 DEF Passes, GatesPass
<1> QED BY <1>1, PublicationInvariant, PTL DEF PublicationSpec, GatesHonoured

=============================================================================
