------------------------------ MODULE SetupProofs ------------------------------
(***************************************************************************)
(* Safety of what people set up and publish across restarts and lost       *)
(* answers, for every number of calls, commits, approvals, terminals,      *)
(* adopters, preparers and reviewers: the publication from a workspace on  *)
(* an SSH host, the records an upgrade starts from, and the guided set-up. *)
(*                                                                         *)
(* None of the three has a lock that all its writers take.  What is proved *)
(* rests on histories that only grow: commits with their ancestry, records *)
(* that are created once, versions that are never used again.              *)
(***************************************************************************)
EXTENDS MCSetup, ApprovalProofs

-----------------------------------------------------------------------------
(***************************************************************************)
(* The workspace on an SSH host.                                           *)
(***************************************************************************)
CommitRecord == [content : Contents, parent : Nat, line : SUBSET Nat, approval : Nat]
ApprovalRecord == [content : Contents, head : Nat, url : Urls]
Runs == {"", "create", "write", "validate", "build", "recheck", "push", "update"}
ScriptRecord == [run : Runs, content : Contents, parent : Nat, url : Urls \cup {""},
                 commit : Nat, approval : Nat]
SnapRecord == [content : Contents, head : Nat, url : Urls \cup {""}, commit : Nat]

HostRecords ==
  /\ content \in Contents /\ originUrl \in Urls
  /\ commits \in Seq(CommitRecord) /\ Len(commits) # 0
  /\ head \in 0..Len(commits)
  /\ published \in [Urls -> 0..Len(commits)]

StoreRecords ==
  /\ recorded \in BOOLEAN
  /\ approvalsGiven \in Seq(ApprovalRecord)
  /\ approval \in 0..Len(approvalsGiven) /\ lastPush \in 0..Len(commits)
  /\ lockHolder \in Calls \cup {Nobody}
  /\ strays \subseteq ScriptRecord

CallRecords ==
  /\ at \in [Calls -> Steps]
  /\ script \in [Calls -> ScriptRecord]
  /\ remoteWire \in [Calls -> {"none", "sent", "ok", "failed"}]
  /\ mine \in [Calls -> 0..Len(approvalsGiven)]
  /\ snap \in [Calls -> SnapRecord]
  /\ retried \in [Calls -> BOOLEAN]

BridgeRecords == StoreRecords /\ CallRecords

CommitIds == 1..Len(commits)
ApprovalIds == 1..Len(approvalsGiven)

\* The commits form a tree: the line of each is itself and the line of its parent, and
\* of two commits of one line the older one is in the line of the other.
Tree ==
  /\ commits[1].parent = 0 /\ commits[1].line = {1} /\ commits[1].approval = 0
  /\ \A k \in CommitIds :
       /\ k \in commits[k].line /\ commits[k].line \subseteq 1..k
       /\ \A j \in commits[k].line : commits[j].line \subseteq commits[k].line
       /\ \A i, j \in commits[k].line : i <= j => i \in commits[j].line
       /\ k # 1 => /\ commits[k].parent \in 1..(k - 1)
                   /\ commits[k].line = {k} \cup commits[commits[k].parent].line

\* A commit of the Bridge is what its approval says.
CommitAsApproved(k) ==
  LET a == approvalsGiven[commits[k].approval]
  IN commits[k].approval # 0 =>
       /\ commits[k].approval \in ApprovalIds
       /\ commits[k].content = a.content /\ commits[k].parent = a.head
       /\ ~ SecretInDiff(commits[k].content, commits[k].parent)

\* A commit of the Bridge is at the URL that was approved for it.
Reached(k) ==
  commits[k].approval # 0 =>
    k \in Ancestry(published[approvalsGiven[commits[k].approval].url])

\* Only a commit that is where it should be is built upon, checked out or published.
Commits ==
  /\ Tree
  /\ \A k \in CommitIds : CommitAsApproved(k)
  /\ \A k \in CommitIds : \A j \in commits[k].line : j # k => Reached(j)
  /\ head # 0 => Reached(head)
  /\ \A u \in Urls : published[u] # 0 => Reached(published[u])
  /\ \A i \in ApprovalIds : approvalsGiven[i].head \in CommitIds
  /\ recorded => head # 0
  /\ \E u \in Urls : lastPush \in Ancestry(published[u])

\* What a script of a push was sent for.
SentFor(s) ==
  LET a == approvalsGiven[s.approval]
  IN /\ s.run \in {"build", "recheck", "push", "update"} =>
          /\ s.approval \in ApprovalIds
          /\ s.content = a.content /\ s.parent = a.head /\ s.url = a.url
     /\ s.run \in {"recheck", "push", "update"} =>
          s.commit \in CommitIds /\ commits[s.commit].approval = s.approval
     /\ s.run = "update" => s.commit \in Ancestry(published[s.url])

\* The steps at which a call waits for a script, and which script that is.
Sending == {"creating", "writing", "validating", "building", "rechecking", "pushing",
            "updating"}
Sends(step, run) ==
  /\ step = "creating" => run = "create"
  /\ step = "writing" => run = "write"
  /\ step = "validating" => run = "validate"
  /\ step = "building" => run = "build"
  /\ step = "rechecking" => run = "recheck"
  /\ step = "pushing" => run = "push"
  /\ step = "updating" => run = "update"

\* What a call holds at each of its steps.
CallHolds(c) ==
  /\ SentFor(script[c])
  /\ Sends(at[c], script[c].run)
  /\ at[c] \notin Sending => script[c].run = "" /\ remoteWire[c] = "none"
  /\ at[c] = "creating" /\ remoteWire[c] = "ok" => head # 0
  /\ at[c] \in {"validating", "validated", "reviewed"} => recorded
  /\ at[c] = "authorizing" => snap[c].head \in CommitIds /\ snap[c].url \in Urls
  /\ at[c] = "approved" => mine[c] # 0
  /\ at[c] = "building" /\ remoteWire[c] = "ok" =>
       /\ snap[c].commit \in CommitIds
       /\ commits[snap[c].commit].approval = script[c].approval
  /\ at[c] \in {"rechecking", "pushing", "updating"} => snap[c].commit = script[c].commit
  /\ at[c] = "pushing" /\ remoteWire[c] = "ok" =>
       script[c].commit \in Ancestry(published[script[c].url])
  /\ at[c] = "pushed" => \E u \in Urls : snap[c].commit \in Ancestry(published[u])

RemoteInv ==
  /\ HostRecords /\ BridgeRecords
  /\ Commits
  /\ \A c \in Calls : CallHolds(c)
  /\ \A s \in strays : SentFor(s)

-----------------------------------------------------------------------------
Published(u) == Ancestry(published[u])

\* What no step of the Bridge, a script or anybody on the host takes back.
Grows ==
  /\ Len(commits) <= Len(commits')
  /\ \A k \in CommitIds : commits'[k] = commits[k]
  /\ Len(approvalsGiven) <= Len(approvalsGiven')
  /\ \A i \in ApprovalIds : approvalsGiven'[i] = approvalsGiven[i]
  /\ \A u \in Urls : Published(u) \subseteq Published(u)'

HostSound == HostRecords /\ BridgeRecords /\ Commits

\* A commit, an approval or a script that was as approved stays so.
LEMMA WhatGrowsStays ==
  ASSUME HostSound, Grows
  PROVE  /\ \A k \in CommitIds : CommitAsApproved(k)' /\ (Reached(k) => Reached(k)')
         /\ \A s \in ScriptRecord : SentFor(s) => SentFor(s)'
<1> USE DEF HostSound, HostRecords, BridgeRecords, StoreRecords, CommitIds, ApprovalIds
<1>1. ASSUME NEW k \in CommitIds
      PROVE  /\ commits'[k] = commits[k] /\ commits[k] \in CommitRecord
             /\ commits[k].approval # 0 =>
                  /\ commits[k].approval \in ApprovalIds
                  /\ approvalsGiven'[commits[k].approval] = approvalsGiven[commits[k].approval]
                  /\ approvalsGiven[commits[k].approval] \in ApprovalRecord
             /\ commits[k].approval # 0 =>
                  /\ commits[k].parent \in CommitIds
                  /\ commits'[commits[k].parent] = commits[commits[k].parent]
  <2>1. k # 1 => commits[k].parent \in CommitIds
    BY DEF Commits, Tree
  <2>2. commits[1].approval = 0
    BY DEF Commits, Tree
  <2> QED
    BY <2>1, <2>2 DEF Grows, Commits, CommitAsApproved
<1>2. ASSUME NEW k \in CommitIds PROVE CommitAsApproved(k)'
  <2> SUFFICES ASSUME commits'[k].approval # 0
               PROVE  LET a == approvalsGiven'[commits'[k].approval]
                      IN /\ commits'[k].approval \in 1..Len(approvalsGiven')
                         /\ commits'[k].content = a.content /\ commits'[k].parent = a.head
                         /\ ~ SecretInDiff(commits[k].content, commits[k].parent)'
    BY <1>1 DEF CommitAsApproved
  <2>1. /\ commits[k].approval # 0 /\ commits'[k] = commits[k]
        /\ commits[k].approval \in ApprovalIds
        /\ approvalsGiven'[commits[k].approval] = approvalsGiven[commits[k].approval]
        /\ commits'[commits[k].parent] = commits[commits[k].parent]
    BY <1>1
  <2>2. commits[k].approval \in 1..Len(approvalsGiven')
    BY <2>1 DEF Grows
  <2>3. ~ SecretInDiff(commits[k].content, commits[k].parent)
    BY <2>1 DEF Commits, CommitAsApproved
  <2>4. ~ SecretInDiff(commits[k].content, commits[k].parent)'
    BY <2>1, <2>3 DEF SecretInDiff
  <2>5. /\ commits[k].content = approvalsGiven[commits[k].approval].content
        /\ commits[k].parent = approvalsGiven[commits[k].approval].head
    BY <2>1 DEF Commits, CommitAsApproved
  <2> QED
    BY <2>1, <2>2, <2>4, <2>5
<1>3. ASSUME NEW k \in CommitIds, Reached(k) PROVE Reached(k)'
  <2> SUFFICES ASSUME commits[k].approval # 0
               PROVE  k \in Published(approvalsGiven[commits[k].approval].url)'
    BY <1>1 DEF Reached, Published
  <2> DEFINE u == approvalsGiven[commits[k].approval].url
  <2>1. /\ u \in Urls /\ commits'[k] = commits[k]
        /\ approvalsGiven'[commits[k].approval] = approvalsGiven[commits[k].approval]
    BY <1>1 DEF ApprovalRecord
  <2>2. k \in Published(u)
    BY <1>3 DEF Reached, Published
  <2>3. PICK w \in Urls : w = u
    BY <2>1
  <2>4. k \in Published(w)'
    BY <2>2, <2>3 DEF Grows
  <2> QED
    BY <2>1, <2>3, <2>4 DEF Published
<1>4. ASSUME NEW s \in ScriptRecord, SentFor(s) PROVE SentFor(s)'
  <2>1. s.run \in {"build", "recheck", "push", "update"} =>
          approvalsGiven'[s.approval] = approvalsGiven[s.approval]
          /\ approvalsGiven[s.approval] \in ApprovalRecord
    BY <1>4 DEF SentFor, Grows
  <2>2. s.run = "update" => s.commit \in Published(s.url)'
    BY <1>4, <2>1 DEF SentFor, Grows, Published, ApprovalRecord
  <2> QED
    BY <1>4, <2>1, <2>2 DEF SentFor, Grows, Published
<1> QED
  BY <1>2, <1>3, <1>4

\* A new commit on top of one there is: by a gate, or by somebody on the host.
LEMMA CommitAppended ==
  ASSUME HostRecords, Tree, NEW parent \in CommitIds, NEW text \in Contents, NEW by \in Nat,
         commits' = Append(commits, NewCommit(text, parent, by))
  PROVE  /\ commits' \in Seq(CommitRecord) /\ Len(commits') = Len(commits) + 1
         /\ \A k \in CommitIds : commits'[k] = commits[k]
         /\ commits'[Len(commits')] = NewCommit(text, parent, by)
         /\ NewCommit(text, parent, by) =
              [content |-> text, parent |-> parent,
               line |-> {Len(commits')} \cup commits[parent].line, approval |-> by]
         /\ Tree'
<1> USE DEF HostRecords, CommitIds
<1> DEFINE n == Len(commits) + 1
           new == NewCommit(text, parent, by)
<1>1. new = [content |-> text, parent |-> parent, line |-> {n} \cup commits[parent].line,
             approval |-> by]
  BY DEF NewCommit
<1>2. commits[parent] \in CommitRecord /\ commits[parent].line \subseteq 1..parent
      /\ parent \in commits[parent].line
  BY DEF Tree
<1>3. new \in CommitRecord
  BY <1>1, <1>2 DEF CommitRecord
<1> HIDE DEF new
<1>4. /\ commits' \in Seq(CommitRecord) /\ Len(commits') = n
      /\ \A k \in CommitIds : commits'[k] = commits[k]
      /\ commits'[n] = new
  BY <1>3 DEF new
<1>5. Tree'
  <2> DEFINE L == commits[parent].line
  <2>0. L \subseteq CommitIds /\ new.line = {n} \cup L /\ new.parent = parent
    BY <1>1, <1>2
  <2>1. commits'[1] = commits[1]
    BY <1>4
  <2> DEFINE Placed(k) ==
               /\ k \in commits'[k].line /\ commits'[k].line \subseteq 1..k
               /\ \A j \in commits'[k].line : commits'[j].line \subseteq commits'[k].line
               /\ \A i, j \in commits'[k].line : i <= j => i \in commits'[j].line
               /\ k # 1 => /\ commits'[k].parent \in 1..(k - 1)
                           /\ commits'[k].line = {k} \cup commits'[commits'[k].parent].line
  <2>2. ASSUME NEW k \in CommitIds PROVE Placed(k)
    BY <1>4 DEF Tree
  <2>3. /\ n \in commits'[n].line /\ commits'[n].line \subseteq 1..n
        /\ n # 1 => /\ commits'[n].parent \in 1..(n - 1)
                    /\ commits'[n].line = {n} \cup commits'[commits'[n].parent].line
    BY <1>4, <2>0
  <2>4. ASSUME NEW j \in commits'[n].line PROVE commits'[j].line \subseteq commits'[n].line
    <3>1. CASE j = n
      BY <3>1
    <3>2. CASE j \in L
      BY <1>4, <2>0, <3>2 DEF Tree
    <3> QED
      BY <1>4, <2>0, <3>1, <3>2
  <2>5. ASSUME NEW i \in commits'[n].line, NEW j \in commits'[n].line, i <= j
        PROVE  i \in commits'[j].line
    <3>1. CASE j = n
      BY <3>1
    <3>2. CASE j \in L
      <4>1. i \in L
        BY <1>4, <2>0, <2>5, <3>2
      <4>2. i \in commits[j].line
        BY <2>5, <3>2, <4>1 DEF Tree
      <4> QED
        BY <1>4, <2>0, <3>2, <4>2
    <3> QED
      BY <1>4, <2>0, <3>1, <3>2
  <2>6. Placed(n)
    BY <2>3, <2>4, <2>5
  <2> HIDE DEF Placed
  <2>7. \A k \in 1..Len(commits') : Placed(k)
    <3>1. Len(commits') = n /\ Len(commits) \in Nat
      BY <1>4
    <3>2. \A k \in 1..Len(commits') : k \in 1..Len(commits) \/ k = n
      BY <3>1
    <3> QED
      BY <3>2, <2>2, <2>6
  <2>8. commits'[1].parent = 0 /\ commits'[1].line = {1} /\ commits'[1].approval = 0
    BY <2>1 DEF Tree
  <2> QED
    BY <2>7, <2>8 DEF Tree, Placed
<1> QED
  BY <1>1, <1>4, <1>5 DEF new

\* What is left to show of the commits after a step that takes nothing back.
LEMMA CommitsStaySound ==
  ASSUME HostSound, Grows, HostRecords', Tree',
         approvalsGiven' = approvalsGiven, recorded' = recorded, lastPush' = lastPush,
         \A k \in CommitIds' \ CommitIds :
            /\ CommitAsApproved(k)'
            /\ \A j \in commits'[k].line : j # k => j \in CommitIds /\ Reached(j),
         head' # 0 => Reached(head)',
         \A u \in Urls : published'[u] # 0 => Reached(published[u])',
         recorded => head' # 0
  PROVE  Commits'
<1>0. \A k \in CommitIds : CommitAsApproved(k)' /\ (Reached(k) => Reached(k)')
  BY WhatGrowsStays
<1> USE DEF HostSound, CommitIds, ApprovalIds
<1>1. /\ \A k \in CommitIds : CommitAsApproved(k)' /\ (Reached(k) => Reached(k)')
      /\ \A k \in CommitIds : commits'[k] = commits[k] /\ commits[k].line \subseteq 1..k
      /\ Len(commits) \in Nat /\ Len(commits) <= Len(commits')
  <2>1. \A k \in CommitIds : commits[k].line \subseteq 1..k
    BY DEF Commits, Tree
  <2>2. Len(commits) \in Nat
    BY DEF HostRecords
  <2> QED
    BY <1>0, <2>1, <2>2 DEF Grows
<1>2. \A k \in CommitIds' : CommitAsApproved(k)'
  BY <1>1
<1>3. ASSUME NEW k \in CommitIds', NEW j \in commits'[k].line, j # k PROVE Reached(j)'
  <2>1. CASE k \in CommitIds
    BY <1>1, <1>3, <2>1 DEF Commits
  <2>2. CASE k \notin CommitIds
    BY <1>1, <1>3, <2>2
  <2> QED
    BY <2>1, <2>2
<1>4. \A i \in ApprovalIds' : approvalsGiven'[i].head \in CommitIds'
  BY <1>1 DEF Commits
<1>5. \E u \in Urls : lastPush' \in Ancestry(published[u])'
  BY DEF Commits, Grows, Published
<1>6. /\ \A k \in CommitIds' : \A j \in commits'[k].line : j # k => Reached(j)'
      /\ recorded' => head' # 0
  BY <1>3
<1> QED
  BY <1>2, <1>4, <1>5, <1>6 DEF Commits

\* What a script that was sent for an approval does on the host when it runs.
LEMMA ScriptKeepsCommits ==
  ASSUME HostSound, NEW s \in ScriptRecord, SentFor(s), NEW succeeds \in BOOLEAN,
         ScriptRuns(s, succeeds), UNCHANGED storeVars
  PROVE  /\ HostRecords' /\ Commits' /\ Grows
         /\ s.run = "create" /\ succeeds => head' # 0
         /\ s.run = "build" /\ succeeds =>
              Len(commits') \in CommitIds' /\ commits'[Len(commits')].approval = s.approval
         /\ s.run = "push" /\ succeeds => s.commit \in Published(s.url)'
         /\ head \in Ancestry(head)'
         /\ Len(commits') \in Nat
<1> USE DEF storeVars, hostVars, CommitIds, ApprovalIds
<1>0. /\ HostRecords /\ BridgeRecords /\ Commits /\ Tree
      /\ Len(commits) \in Nat /\ Len(commits) # 0
  BY DEF HostSound, Commits, HostRecords
<1>1. CASE /\ UNCHANGED <<commits, published>> /\ content' \in Contents /\ originUrl' = originUrl
           /\ \/ head' = head /\ (s.run \notin {"create", "build", "push"} \/ ~ succeeds)
              \/ s.run = "create" /\ head = 0 /\ head' = 1
              \/ /\ s.run = "update" /\ head' = s.commit /\ head = s.parent
  <2>1. s.run = "update" =>
          /\ s.commit \in CommitIds /\ Reached(s.commit)
          /\ s.parent \in commits[s.commit].line
    <3> SUFFICES ASSUME s.run = "update"
                 PROVE  /\ s.commit \in CommitIds /\ Reached(s.commit)
                        /\ s.parent \in commits[s.commit].line
      OBVIOUS
    <3>1. /\ s.approval \in ApprovalIds /\ s.commit \in CommitIds
          /\ commits[s.commit].approval = s.approval
          /\ s.parent = approvalsGiven[s.approval].head
          /\ s.url = approvalsGiven[s.approval].url
          /\ s.commit \in Ancestry(published[s.url])
      BY DEF SentFor
    <3>2. s.approval # 0 /\ s.commit # 1
      BY <1>0, <3>1 DEF Tree
    <3>3. commits[s.commit].parent = s.parent
      BY <1>0, <3>1, <3>2 DEF Commits, CommitAsApproved
    <3>4. /\ s.parent \in CommitIds
          /\ commits[s.commit].line = {s.commit} \cup commits[s.parent].line
      <4>1. PICK k \in CommitIds : k = s.commit
        BY <3>1
      <4>2. /\ commits[k].parent \in 1..(k - 1)
            /\ commits[k].line = {k} \cup commits[commits[k].parent].line
        BY <1>0, <3>2, <4>1 DEF Tree
      <4>3. commits[k].parent = s.parent
        BY <3>3, <4>1
      <4>4. s.parent \in 1..(k - 1)
        BY <4>2, <4>3
      <4>5. s.parent \in CommitIds
        BY <1>0, <4>1, <4>4
      <4> QED
        BY <4>1, <4>2, <4>3, <4>5
    <3>5. s.parent \in commits[s.parent].line
      BY <1>0, <3>4 DEF Tree
    <3> QED
      BY <3>1, <3>4, <3>5 DEF Reached
  <2>2. HostRecords'
    BY <1>0, <1>1, <2>1 DEF HostRecords
  <2>3. Grows
    BY <1>0, <1>1 DEF Grows, Published, Ancestry, HostRecords, BridgeRecords, StoreRecords
  <2>4. Tree'
    BY <1>0, <1>1 DEF Tree
  <2>5. head' # 0 => Reached(head)'
    <3>1. Reached(1)
      BY <1>0 DEF Reached, Tree
    <3>2. head' # 0 => Reached(head')
      BY <1>0, <1>1, <2>1, <3>1 DEF Commits
    <3> QED
      BY <3>2, <1>1 DEF Reached, Ancestry
  <2>6. \A u \in Urls : published'[u] # 0 => Reached(published[u])'
    BY <1>0, <1>1 DEF Commits, Reached, Ancestry
  <2>7. recorded => head' # 0
    BY <1>0, <1>1, <2>1 DEF Commits
  <2>8. Commits'
    BY <1>1, <2>2, <2>3, <2>4, <2>5, <2>6, <2>7, CommitsStaySound
  <2>9. head \in Ancestry(head)'
    BY <1>0, <1>1, <2>1 DEF Ancestry, HostRecords, Tree
  <2> QED
    BY <1>0, <1>1, <2>1, <2>2, <2>3, <2>8, <2>9
<1>2. CASE /\ s.run = "build" /\ Buildable(s) /\ succeeds
           /\ commits' = Append(commits, NewCommit(content, s.parent, s.approval))
           /\ UNCHANGED <<content, head, originUrl, published>>
  <2>0. PICK n \in Nat : n = Len(commits) + 1
    BY <1>0
  <2> DEFINE a == approvalsGiven[s.approval]
             new == NewCommit(content, s.parent, s.approval)
  <2>1. /\ s.approval \in ApprovalIds /\ s.approval # 0 /\ s.approval \in Nat
        /\ s.content = a.content /\ s.parent = a.head /\ a \in ApprovalRecord
        /\ s.parent \in CommitIds /\ head = s.parent /\ content = s.content /\ content \in Contents
    BY <1>0, <1>2 DEF SentFor, Buildable, Commits, BridgeRecords, StoreRecords, HostRecords
  <2>2. /\ commits' \in Seq(CommitRecord) /\ Len(commits') = n
        /\ \A k \in CommitIds : commits'[k] = commits[k]
        /\ commits'[n] = new
        /\ new = [content |-> content, parent |-> s.parent,
                  line |-> {n} \cup commits[s.parent].line, approval |-> s.approval]
        /\ Tree'
    <3> HIDE DEF a
    <3>1. /\ commits' \in Seq(CommitRecord) /\ Len(commits') = n
          /\ \A k \in CommitIds : commits'[k] = commits[k]
          /\ commits'[Len(commits')] = new
          /\ new = [content |-> content, parent |-> s.parent,
                    line |-> {Len(commits')} \cup commits[s.parent].line, approval |-> s.approval]
          /\ Tree'
      BY <1>0, <1>2, <2>0, <2>1, CommitAppended
    <3> QED
      BY <2>0, <3>1
  <2> HIDE DEF new
  <2>3. HostRecords'
    <3>1. 0..Len(commits) \subseteq 0..Len(commits')
      BY <1>0, <2>0, <2>2
    <3> QED
      BY <1>0, <1>2, <2>2, <3>1 DEF HostRecords
  <2>4. Grows
    BY <1>0, <1>2, <2>0, <2>2 DEF Grows, Published, Ancestry, HostRecords, BridgeRecords, StoreRecords
  <2>5. CommitIds' \ CommitIds = {n}
    BY <1>0, <2>0, <2>2
  <2>6. CommitAsApproved(n)'
    <3>1. ~ SecretInDiff(s.content, s.parent)
      BY <1>2 DEF Buildable
    <3>2. ~ SecretInDiff(commits[n].content, commits[n].parent)'
      <4>1. /\ commits'[n].content = s.content /\ commits'[n].parent = s.parent
            /\ commits'[s.parent] = commits[s.parent]
        BY <2>1, <2>2
      <4> QED
        BY <3>1, <4>1 DEF SecretInDiff
    <3> QED
      BY <2>1, <2>2, <3>2 DEF CommitAsApproved
  <2>7. \A j \in commits'[n].line : j # n => j \in CommitIds /\ Reached(j)
    <3>1. commits[s.parent].line \subseteq CommitIds
      BY <1>0, <2>1 DEF Tree
    <3>2. \A j \in commits[s.parent].line : Reached(j)
      BY <1>0, <2>1 DEF Commits
    <3> QED
      BY <2>2, <3>1, <3>2
  <2>8. head' # 0 => Reached(head)'
    <3>1. \A k \in CommitIds : Reached(k) => Reached(k)'
      BY <2>4, WhatGrowsStays
    <3>2. Reached(head)
      BY <1>0, <2>1 DEF Commits
    <3>3. Reached(s.parent)'
      BY <2>1, <3>1, <3>2
    <3> QED
      BY <1>2, <2>1, <3>3 DEF Reached
  <2>9. \A u \in Urls : published'[u] # 0 => Reached(published[u])'
    <3>1. \A k \in CommitIds : Reached(k) => Reached(k)'
      BY <2>4, WhatGrowsStays
    <3>2. ASSUME NEW u \in Urls, published[u] # 0 PROVE Reached(published[u])'
      <4>1. PICK k \in CommitIds : k = published[u]
        BY <1>0, <3>2 DEF HostRecords
      <4>2. Reached(k)'
        BY <1>0, <3>1, <3>2, <4>1 DEF Commits
      <4> QED
        BY <1>2, <4>1, <4>2 DEF Reached
    <3> QED
      BY <1>2, <3>2
  <2>10. recorded => head' # 0
    BY <1>0, <1>2 DEF Commits
  <2>11. Commits'
    <3>1. \A k \in CommitIds' \ CommitIds :
            /\ CommitAsApproved(k)'
            /\ \A j \in commits'[k].line : j # k => j \in CommitIds /\ Reached(j)
      BY <2>5, <2>6, <2>7
    <3> QED
      BY <2>2, <2>3, <2>4, <2>8, <2>9, <2>10, <3>1, CommitsStaySound
  <2>12. head \in Ancestry(head)'
    <3>1. head \in CommitIds /\ head \in commits[head].line /\ commits'[head] = commits[head]
      BY <1>0, <2>1, <2>2 DEF Tree
    <3> QED
      BY <1>2, <3>1 DEF Ancestry
  <2> QED
    BY <1>0, <1>2, <2>0, <2>2, <2>3, <2>4, <2>11, <2>12 DEF new
<1>3. CASE /\ s.run = "push" /\ FastForward(s) /\ succeeds
           /\ published' = [published EXCEPT ![s.url] = s.commit]
           /\ UNCHANGED <<content, commits, head, originUrl>>
  <2>1. /\ s.approval \in ApprovalIds /\ s.approval # 0
        /\ s.url = approvalsGiven[s.approval].url /\ s.url \in Urls
        /\ s.commit \in CommitIds /\ commits[s.commit].approval = s.approval
    <3>1. /\ s.approval \in ApprovalIds /\ s.commit \in CommitIds
          /\ s.url = approvalsGiven[s.approval].url
          /\ commits[s.commit].approval = s.approval
      BY <1>3 DEF SentFor
    <3>2. s.approval # 0 /\ approvalsGiven[s.approval] \in ApprovalRecord
      BY <1>0, <3>1 DEF BridgeRecords, StoreRecords
    <3> QED
      BY <3>1, <3>2 DEF ApprovalRecord
  <2>2. /\ published' \in [Urls -> 0..Len(commits)]
        /\ published'[s.url] = s.commit
        /\ \A u \in Urls : u # s.url => published'[u] = published[u]
    BY <1>0, <1>3, <2>1 DEF HostRecords
  <2>3. HostRecords'
    BY <1>0, <1>3, <2>2 DEF HostRecords
  <2>4. s.commit \in Ancestry(s.commit)' /\ s.commit # 0
    BY <1>0, <1>3, <2>1 DEF Ancestry, Tree
  <2>5. \A u \in Urls : Published(u) \subseteq Published(u)'
    <3>1. ASSUME NEW u \in Urls, u # s.url PROVE Published(u) \subseteq Published(u)'
      BY <1>3, <2>2, <3>1 DEF Published, Ancestry
    <3>2. Ancestry(published[s.url]) \subseteq {0} \cup commits[s.commit].line
      <4>1. CASE published[s.url] = 0
        BY <4>1 DEF Ancestry
      <4>2. CASE published[s.url] \in commits[s.commit].line
        BY <1>0, <2>1, <4>2 DEF Ancestry, Tree
      <4> QED
        BY <1>3, <4>1, <4>2 DEF FastForward
    <3>3. ASSUME NEW u \in Urls, u = s.url PROVE Published(u) \subseteq Published(u)'
      BY <1>3, <2>2, <2>4, <3>2, <3>3 DEF Published, Ancestry
    <3> QED
      BY <3>1, <3>3
  <2>6. Grows
    BY <1>0, <1>3, <2>5 DEF Grows, BridgeRecords, StoreRecords
  <2>7. \A k \in CommitIds : Reached(k) => Reached(k)'
    BY <2>6, WhatGrowsStays
  <2>8. Tree'
    BY <1>0, <1>3 DEF Tree
  <2>9. head' # 0 => Reached(head)'
    <3> SUFFICES ASSUME head # 0 PROVE Reached(head)'
      BY <1>3
    <3>1. PICK k \in CommitIds : k = head
      BY <1>0 DEF HostRecords
    <3>2. Reached(k)'
      BY <1>0, <2>7, <3>1 DEF Commits
    <3> QED
      BY <1>3, <3>1, <3>2 DEF Reached
  <2>10. ASSUME NEW u \in Urls, published'[u] # 0 PROVE Reached(published[u])'
    <3>1. CASE u # s.url
      <4>1. PICK k \in CommitIds : k = published[u]
        BY <1>0, <2>2, <2>10, <3>1 DEF HostRecords
      <4>2. Reached(k)'
        BY <1>0, <2>2, <2>7, <2>10, <3>1, <4>1 DEF Commits
      <4> QED
        BY <2>2, <3>1, <4>1, <4>2 DEF Reached
    <3>2. CASE u = s.url
      BY <1>3, <2>1, <2>2, <2>4, <3>2 DEF Reached
    <3> QED
      BY <3>1, <3>2
  <2>11. recorded => head' # 0
    BY <1>0, <1>3 DEF Commits
  <2>12. CommitIds' \ CommitIds = {}
    BY <1>3
  <2>13. Commits'
    BY <2>3, <2>6, <2>8, <2>9, <2>10, <2>11, <2>12, CommitsStaySound
  <2>14. s.commit \in Published(s.url)'
    <3>1. PICK u \in Urls, k \in CommitIds : u = s.url /\ k = s.commit
      BY <2>1
    <3> QED
      BY <2>2, <2>4, <3>1 DEF Published
  <2>15. head \in Ancestry(head)'
    BY <1>0, <1>3 DEF Ancestry, HostRecords, Tree
  <2> QED
    BY <1>0, <1>3, <2>3, <2>6, <2>13, <2>14, <2>15
<1>4. content \in Contents
  BY <1>0 DEF HostRecords
<1>5. CASE /\ UNCHANGED <<commits, published>> /\ content' \in Contents
           /\ UNCHANGED <<head, originUrl>>
           /\ s.run \notin {"create", "build", "push"} \/ ~ succeeds
  BY <1>1, <1>5
<1>6. CASE s.run = "create"
  <2>1. commits[1].content \in Contents
    <3>1. 1 \in 1..Len(commits)
      BY <1>0
    <3>2. commits[1] \in CommitRecord
      BY <1>0, <3>1 DEF HostRecords
    <3> QED
      BY <3>2 DEF CommitRecord
  <2> QED
    BY <1>1, <1>6, <2>1 DEF ScriptRuns
<1>7. CASE s.run = "build"
  BY <1>2, <1>4, <1>5, <1>7 DEF ScriptRuns
<1>8. CASE s.run = "push"
  BY <1>3, <1>4, <1>5, <1>8 DEF ScriptRuns
<1>9. CASE s.run = "update"
  BY <1>1, <1>4, <1>5, <1>9 DEF ScriptRuns, RefAsExpected
<1>10. CASE s.run \in {"write", "validate", "recheck"}
  BY <1>4, <1>5, <1>10 DEF ScriptRuns
<1> QED
  BY <1>6, <1>7, <1>8, <1>9, <1>10 DEF ScriptRuns

\* What somebody on the host does: an edit, another push URL, or a commit on the branch.
LEMMA OutsideKeepsCommits ==
  ASSUME HostSound, OutsideChange
  PROVE  HostRecords' /\ Commits' /\ Grows /\ head \in Ancestry(head)'
<1> USE DEF CommitIds, ApprovalIds
<1>0. /\ HostRecords /\ BridgeRecords /\ Commits /\ Tree
      /\ Len(commits) \in Nat /\ Len(commits) # 0
      /\ UNCHANGED <<published, recorded, approvalsGiven, lastPush>>
      /\ head # 0 /\ head \in CommitIds /\ Reached(head)
  BY DEF HostSound, Commits, HostRecords, OutsideChange, storeVars
<1>1. CASE UNCHANGED <<commits, head>> /\ content' \in Contents /\ originUrl' \in Urls
  <2>1. HostRecords' /\ Grows /\ Tree'
    BY <1>0, <1>1 DEF HostRecords, BridgeRecords, StoreRecords, Grows, Published, Ancestry, Tree
  <2>2. /\ head' # 0 => Reached(head)'
        /\ \A u \in Urls : published'[u] # 0 => Reached(published[u])'
    BY <1>0, <1>1 DEF Commits, Reached, Ancestry
  <2>3. Commits'
    BY <1>0, <1>1, <2>1, <2>2, CommitsStaySound
  <2>4. head \in Ancestry(head)'
    BY <1>0, <1>1 DEF Ancestry, Tree
  <2> QED
    BY <2>1, <2>3, <2>4
<1>2. CASE /\ commits' = Append(commits, NewCommit(content, head, 0)) /\ head' = Len(commits')
           /\ UNCHANGED <<content, originUrl>>
  <2>0. PICK n \in Nat : n = Len(commits) + 1
    BY <1>0
  <2> DEFINE new == NewCommit(content, head, 0)
  <2>1. content \in Contents
    BY <1>0 DEF HostRecords
  <2>2. /\ commits' \in Seq(CommitRecord) /\ Len(commits') = n
        /\ \A k \in CommitIds : commits'[k] = commits[k]
        /\ commits'[n] = new
        /\ new = [content |-> content, parent |-> head,
                  line |-> {n} \cup commits[head].line, approval |-> 0]
        /\ Tree'
    <3>1. /\ commits' \in Seq(CommitRecord) /\ Len(commits') = n
          /\ \A k \in CommitIds : commits'[k] = commits[k]
          /\ commits'[Len(commits')] = new
          /\ new = [content |-> content, parent |-> head,
                    line |-> {Len(commits')} \cup commits[head].line, approval |-> 0]
          /\ Tree'
      BY <1>0, <1>2, <2>0, <2>1, CommitAppended
    <3> QED
      BY <2>0, <3>1
  <2> HIDE DEF new
  <2>3. HostRecords'
    <3>1. 0..Len(commits) \subseteq 0..Len(commits') /\ head' = n
      BY <1>0, <1>2, <2>0, <2>2
    <3> QED
      BY <1>0, <1>2, <2>0, <2>2, <3>1 DEF HostRecords
  <2>4. Grows
    BY <1>0, <1>2, <2>0, <2>2 DEF Grows, Published, Ancestry, HostRecords, BridgeRecords, StoreRecords
  <2>5. CommitIds' \ CommitIds = {n}
    BY <1>0, <2>0, <2>2
  <2>6. CommitAsApproved(n)' /\ Reached(n)'
    BY <2>2 DEF CommitAsApproved, Reached
  <2>7. \A j \in commits'[n].line : j # n => j \in CommitIds /\ Reached(j)
    <3>1. commits[head].line \subseteq CommitIds
      BY <1>0 DEF Tree
    <3>2. \A j \in commits[head].line : Reached(j)
      BY <1>0 DEF Commits
    <3> QED
      BY <2>2, <3>1, <3>2
  <2>8. head' # 0 => Reached(head)'
    BY <1>2, <2>2, <2>6 DEF Reached
  <2>9. \A u \in Urls : published'[u] # 0 => Reached(published[u])'
    <3>1. \A k \in CommitIds : Reached(k) => Reached(k)'
      BY <2>4, WhatGrowsStays
    <3>2. ASSUME NEW u \in Urls, published[u] # 0 PROVE Reached(published[u])'
      <4>1. PICK k \in CommitIds : k = published[u]
        BY <1>0, <3>2 DEF HostRecords
      <4>2. Reached(k)'
        BY <1>0, <3>1, <3>2, <4>1 DEF Commits
      <4> QED
        BY <1>0, <4>1, <4>2 DEF Reached
    <3> QED
      BY <1>0, <3>2
  <2>10. head' # 0
    BY <1>0, <1>2, <2>2
  <2>11. Commits'
    <3>1. \A k \in CommitIds' \ CommitIds :
            /\ CommitAsApproved(k)'
            /\ \A j \in commits'[k].line : j # k => j \in CommitIds /\ Reached(j)
      BY <2>5, <2>6, <2>7
    <3> QED
      BY <1>0, <2>2, <2>3, <2>4, <2>8, <2>9, <2>10, <3>1, CommitsStaySound
  <2>12. head \in Ancestry(head)'
    <3>1. head \in commits[head].line /\ head' = n
      BY <1>0, <1>2, <2>2 DEF Tree
    <3> QED
      BY <2>2, <2>10, <3>1 DEF Ancestry
  <2> QED
    BY <2>3, <2>4, <2>11, <2>12
<1> QED
  BY <1>0, <1>1, <1>2 DEF OutsideChange, HostRecords

\* A step of the Bridge that runs no script: what it records is on the host.
LEMMA HostUntouched ==
  ASSUME HostSound, UNCHANGED hostVars,
         Len(approvalsGiven) <= Len(approvalsGiven'),
         \A i \in ApprovalIds : approvalsGiven'[i] = approvalsGiven[i],
         \A i \in ApprovalIds' : approvalsGiven'[i].head \in CommitIds,
         recorded' => head # 0,
         \E u \in Urls : lastPush' \in Published(u)
  PROVE  HostRecords' /\ Commits' /\ Grows /\ head \in Ancestry(head)'
<1> USE DEF hostVars, CommitIds
<1>1. Grows
  BY DEF Grows, HostSound, HostRecords, Published, Ancestry
<1>2. \A k \in CommitIds : CommitAsApproved(k)' /\ (Reached(k) => Reached(k)')
  BY <1>1, WhatGrowsStays
<1>3. HostRecords' /\ Tree' /\ \A k \in CommitIds : commits[k].line \subseteq 1..k
  <2>1. HostRecords'
    BY DEF HostSound, HostRecords
  <2>2. Tree /\ Tree'
    BY DEF HostSound, Commits, Tree
  <2>3. \A k \in CommitIds : commits[k].line \subseteq 1..k
    BY <2>2 DEF Tree
  <2> QED
    BY <2>1, <2>2, <2>3
<1>4. \A k \in CommitIds : \A j \in commits[k].line : j # k => Reached(j)'
  BY <1>2, <1>3 DEF HostSound, HostRecords, Commits
<1>5. head # 0 => Reached(head)'
  <2> SUFFICES ASSUME head # 0 PROVE Reached(head)'
    OBVIOUS
  <2>1. PICK k \in CommitIds : k = head
    BY DEF HostSound, HostRecords
  <2>2. Reached(k)'
    BY <1>2, <2>1 DEF HostSound, Commits
  <2> QED
    BY <2>1, <2>2 DEF Reached
<1>6. ASSUME NEW u \in Urls, published[u] # 0 PROVE Reached(published[u])'
  <2>1. PICK k \in CommitIds : k = published[u]
    BY <1>6 DEF HostSound, HostRecords
  <2>2. Reached(k)'
    BY <1>2, <1>6, <2>1 DEF HostSound, Commits
  <2> QED
    BY <2>1, <2>2 DEF Reached
<1>7. \E u \in Urls : lastPush' \in Ancestry(published[u])'
  BY DEF Published, Ancestry
<1>8. Commits'
  BY <1>2, <1>3, <1>4, <1>5, <1>6, <1>7 DEF Commits
<1>9. head \in Ancestry(head)'
  BY DEF HostSound, HostRecords, Commits, Tree, Ancestry
<1> QED
  BY <1>1, <1>3, <1>8, <1>9

-----------------------------------------------------------------------------
\* A step of one call leaves what every other call holds.
CallUntouched(d) ==
  /\ at'[d] = at[d] /\ script'[d] = script[d] /\ remoteWire'[d] = remoteWire[d]
  /\ snap'[d] = snap[d] /\ mine'[d] = mine[d]

\* What a call holds stays true while other calls, scripts and people on the host act.
LEMMA HeldBesideOthers ==
  ASSUME RemoteInv, Grows, head \in Ancestry(head)', recorded => recorded', NEW d \in Calls,
         CallUntouched(d)
  PROVE  CallHolds(d)'
<1>1. SentFor(script[d])'
  <2>1. PICK s \in ScriptRecord : s = script[d]
    BY DEF RemoteInv, BridgeRecords, CallRecords
  <2>2. SentFor(s)'
    BY <2>1, WhatGrowsStays DEF RemoteInv, CallHolds, HostSound
  <2> QED
    BY <2>1, <2>2 DEF CallUntouched, SentFor
<1>2. head # 0 => head' # 0
  BY DEF Ancestry
<1>3. \A k \in CommitIds : commits'[k] = commits[k]
  BY DEF Grows
<1>4. CommitIds \subseteq CommitIds'
  BY DEF Grows, RemoteInv, HostRecords, CommitIds
<1>5. at[d] = "authorizing" => snap'[d].head \in CommitIds' /\ snap'[d].url \in Urls
  BY <1>4 DEF CallUntouched, RemoteInv, CallHolds
<1>6. at[d] = "building" /\ remoteWire[d] = "ok" =>
        /\ snap'[d].commit \in CommitIds'
        /\ commits'[snap'[d].commit].approval = script'[d].approval
  <2> SUFFICES ASSUME at[d] = "building", remoteWire[d] = "ok"
               PROVE  /\ snap'[d].commit \in CommitIds'
                      /\ commits'[snap'[d].commit].approval = script'[d].approval
    OBVIOUS
  <2>1. /\ snap[d].commit \in CommitIds
        /\ commits[snap[d].commit].approval = script[d].approval
    BY DEF RemoteInv, CallHolds
  <2>2. snap'[d] = snap[d] /\ script'[d] = script[d]
    BY DEF CallUntouched
  <2> QED
    BY <1>3, <1>4, <2>1, <2>2
<1>7. at[d] = "pushing" /\ remoteWire[d] = "ok" =>
        script'[d].commit \in Ancestry(published[script[d].url])'
  <2> SUFFICES ASSUME at[d] = "pushing", remoteWire[d] = "ok"
               PROVE  script'[d].commit \in Ancestry(published[script[d].url])'
    OBVIOUS
  <2>1. /\ SentFor(script[d]) /\ script[d].run = "push"
        /\ script[d].commit \in Published(script[d].url)
    BY DEF RemoteInv, CallHolds, Sends, Published
  <2>2. script[d].url \in Urls
    <3>1. /\ script[d].approval \in ApprovalIds
          /\ script[d].url = approvalsGiven[script[d].approval].url
      BY <2>1 DEF SentFor
    <3>2. approvalsGiven[script[d].approval] \in ApprovalRecord
      BY <3>1 DEF RemoteInv, BridgeRecords, StoreRecords, ApprovalIds
    <3> QED
      BY <3>1, <3>2 DEF ApprovalRecord
  <2>3. PICK u \in Urls : u = script[d].url
    BY <2>2
  <2>4. script[d].commit \in Published(u)'
    BY <2>1, <2>3 DEF Grows
  <2> QED
    BY <2>3, <2>4 DEF CallUntouched, Published
<1>8. at[d] = "pushed" => \E u \in Urls : snap'[d].commit \in Ancestry(published[u])'
  BY DEF CallUntouched, RemoteInv, CallHolds, Grows, Published
<1> QED
  BY <1>1, <1>2, <1>5, <1>6, <1>7, <1>8 DEF CallUntouched, RemoteInv, CallHolds

\* What a step of call c leaves of the Bridge: its own records and the scripts of others.
CallStep(c) ==
  /\ BridgeRecords'
  /\ \A d \in Calls \ {c} : CallUntouched(d)
  /\ recorded => recorded'
  /\ strays' \subseteq strays \cup {script[c]}

LEMMA NothingSent ==
  /\ NoScript \in ScriptRecord /\ NoScript.run = "" /\ NoSnap \in SnapRecord
  /\ SentFor(NoScript) /\ SentFor(NoScript)'
BY ContentAssumption
   DEF NoScript, NoSnap, ScriptRecord, SnapRecord, Runs, SentFor

\* The call returns, raises or is told that its script is lost.
LEMMA EndedCall ==
  ASSUME RemoteInv, NEW c \in Calls, EndCall(c), StoreRecords',
         Len(approvalsGiven) <= Len(approvalsGiven'),
         recorded => recorded', strays' \subseteq strays \cup {script[c]}
  PROVE  CallStep(c) /\ CallHolds(c)'
<1> USE DEF EndCall, Unlock, Goto, Silent
<1>1. /\ NoScript \in ScriptRecord /\ NoScript.run = "" /\ NoSnap \in SnapRecord
      /\ SentFor(NoScript)'
  BY NothingSent
<1> HIDE DEF NoScript, NoSnap
<1>2. /\ at' \in [Calls -> Steps] /\ script' \in [Calls -> ScriptRecord]
      /\ remoteWire' \in [Calls -> {"none", "sent", "ok", "failed"}]
      /\ snap' \in [Calls -> SnapRecord] /\ retried' \in [Calls -> BOOLEAN]
  BY <1>1 DEF RemoteInv, BridgeRecords, CallRecords, Steps
<1>3. mine' \in [Calls -> 0..Len(approvalsGiven')]
  <2>1. Len(approvalsGiven) \in Nat /\ Len(approvalsGiven') \in Nat
    BY DEF RemoteInv, BridgeRecords, StoreRecords
  <2>2. \A m \in 0..Len(approvalsGiven) : m \in 0..Len(approvalsGiven')
    BY <2>1
  <2>3. 0 \in 0..Len(approvalsGiven')
    BY <2>1
  <2> QED
    BY <2>2, <2>3 DEF RemoteInv, BridgeRecords, CallRecords
<1>4. \A d \in Calls \ {c} : CallUntouched(d)
  BY DEF RemoteInv, BridgeRecords, CallRecords, CallUntouched
<1>5. at'[c] = "idle" /\ script'[c] = NoScript /\ remoteWire'[c] = "none"
  BY DEF RemoteInv, BridgeRecords, CallRecords
<1>6. CallHolds(c)'
  <2>1. SentFor(script[c])'
    BY <1>1, <1>5 DEF SentFor
  <2> QED
    BY <1>1, <1>5, <2>1 DEF CallHolds, Sends, Sending
<1> QED
  BY <1>2, <1>3, <1>4, <1>6 DEF CallStep, BridgeRecords, CallRecords

\* A script goes out.
LEMMA SentScript ==
  ASSUME RemoteInv, NEW c \in Calls, NEW step \in Steps, NEW s \in ScriptRecord,
         Goto(c, step), Send(c, s), UNCHANGED <<storeVars, mine, snap>>,
         retried' \in [Calls -> BOOLEAN], StoreRecords'
  PROVE  /\ CallStep(c)
         /\ at'[c] = step /\ script'[c] = s /\ remoteWire'[c] = "sent" /\ snap'[c] = snap[c]
<1> USE DEF Goto, Send, storeVars
<1>1. /\ at' \in [Calls -> Steps] /\ script' \in [Calls -> ScriptRecord]
      /\ remoteWire' \in [Calls -> {"none", "sent", "ok", "failed"}]
      /\ snap' \in [Calls -> SnapRecord] /\ mine' \in [Calls -> 0..Len(approvalsGiven')]
  BY DEF RemoteInv, BridgeRecords, CallRecords
<1>2. \A d \in Calls \ {c} : CallUntouched(d)
  BY DEF RemoteInv, BridgeRecords, CallRecords, CallUntouched
<1>3. at'[c] = step /\ script'[c] = s /\ remoteWire'[c] = "sent" /\ snap'[c] = snap[c]
  BY DEF RemoteInv, BridgeRecords, CallRecords
<1> QED
  BY <1>1, <1>2, <1>3 DEF CallStep, BridgeRecords, CallRecords

\* What every step of the Bridge, of a script or of people on the host keeps.
HostKept == HostRecords' /\ Commits' /\ Grows /\ head \in Ancestry(head)'

LEMMA HostStays ==
  ASSUME RemoteInv, UNCHANGED <<hostVars, storeVars>>
  PROVE  HostKept
BY HostUntouched
   DEF HostKept, RemoteInv, HostSound, storeVars, BridgeRecords, StoreRecords, Commits, Published,
       ApprovalIds

LEMMA LostScripts ==
  ASSUME RemoteInv, NEW c \in Calls
  PROVE  /\ Abandoned({c}) \subseteq strays \cup {script[c]}
         /\ Abandoned({c}) \subseteq ScriptRecord
         /\ Released(c) \in Calls \cup {Nobody}
BY DEF RemoteInv, BridgeRecords, StoreRecords, CallRecords, Abandoned, Released

\* The waiting call's own script runs.
LEMMA AnsweredScript ==
  ASSUME RemoteInv, NEW c \in Calls, ScriptAnswered(c)
  PROVE  HostKept /\ CallStep(c) /\ CallHolds(c)'
<1>1. PICK s \in ScriptRecord : s = script[c]
  BY DEF RemoteInv, BridgeRecords, CallRecords
<1>2. PICK succeeds \in BOOLEAN :
        /\ ScriptRuns(s, succeeds)
        /\ remoteWire' = [remoteWire EXCEPT ![c] = IF succeeds THEN "ok" ELSE "failed"]
  BY <1>1 DEF ScriptAnswered
<1>3. SentFor(s) /\ Sends(at[c], s.run)
  BY <1>1 DEF RemoteInv, CallHolds
<1>4. /\ UNCHANGED storeVars
      /\ UNCHANGED <<lockHolder, script, strays, at, mine, retried>>
      /\ snap' = IF s.run = "build" THEN [snap EXCEPT ![c].commit = Len(commits')] ELSE snap
      /\ remoteWire[c] = "sent"
  BY <1>1 DEF ScriptAnswered
<1>5. /\ HostRecords' /\ Commits' /\ Grows
      /\ s.run = "create" /\ succeeds => head' # 0
      /\ s.run = "build" /\ succeeds =>
           Len(commits') \in CommitIds' /\ commits'[Len(commits')].approval = s.approval
      /\ s.run = "push" /\ succeeds => s.commit \in Published(s.url)'
      /\ head \in Ancestry(head)'
      /\ Len(commits') \in Nat
  BY <1>2, <1>3, <1>4, ScriptKeepsCommits DEF RemoteInv, HostSound
<1>6. /\ remoteWire' \in [Calls -> {"none", "sent", "ok", "failed"}]
      /\ remoteWire'[c] = IF succeeds THEN "ok" ELSE "failed"
      /\ \A d \in Calls \ {c} : remoteWire'[d] = remoteWire[d]
  BY <1>2 DEF RemoteInv, BridgeRecords, CallRecords
<1>7. /\ snap' \in [Calls -> SnapRecord]
      /\ s.run = "build" => snap'[c].commit = Len(commits')
      /\ s.run # "build" => snap'[c] = snap[c]
      /\ \A d \in Calls \ {c} : snap'[d] = snap[d]
  <2>1. CASE s.run # "build"
    BY <1>4, <2>1 DEF RemoteInv, BridgeRecords, CallRecords
  <2>2. CASE s.run = "build"
    <3> DEFINE k == [snap[c] EXCEPT !.commit = Len(commits')]
    <3>1. k \in SnapRecord /\ k.commit = Len(commits')
      BY <1>5 DEF RemoteInv, BridgeRecords, CallRecords, SnapRecord
    <3>2. snap' = [snap EXCEPT ![c] = k]
      BY <1>4, <2>2
    <3> HIDE DEF k
    <3> QED
      BY <2>2, <3>1, <3>2 DEF RemoteInv, BridgeRecords, CallRecords
  <2> QED
    BY <2>1, <2>2
<1>8. Len(commits) <= Len(commits') /\ Len(commits) \in Nat
  BY <1>5 DEF Grows, RemoteInv, HostRecords
<1>9. CallStep(c)
  <2>1. lastPush' \in 0..Len(commits')
    BY <1>4, <1>5, <1>8 DEF RemoteInv, BridgeRecords, StoreRecords, storeVars
  <2>2. BridgeRecords'
    BY <1>4, <1>6, <1>7, <2>1 DEF RemoteInv, BridgeRecords, StoreRecords, CallRecords, storeVars
  <2> QED
    BY <1>4, <1>6, <1>7, <2>2 DEF CallStep, CallUntouched, storeVars
<1>10. CallHolds(c)'
  <2>1. SentFor(script[c])'
    <3>1. SentFor(s)'
      BY <1>3, <1>5, WhatGrowsStays DEF RemoteInv, HostSound
    <3> QED
      BY <1>1, <1>4, <3>1 DEF SentFor
  <2>2. at'[c] = at[c] /\ script'[c] = s /\ at[c] \in Sending
    BY <1>1, <1>4 DEF RemoteInv, CallHolds
  <2>3. at[c] = "pushing" /\ remoteWire'[c] = "ok" => s.commit \in Ancestry(published[s.url])'
    BY <1>3, <1>5, <1>6 DEF Sends, Published
  <2>4. at[c] \in {"rechecking", "pushing", "updating"} => snap'[c].commit = s.commit
    BY <1>1, <1>3, <1>7 DEF Sends, RemoteInv, CallHolds
  <2>5. at[c] = "building" /\ remoteWire'[c] = "ok" =>
          snap'[c].commit \in CommitIds' /\ commits'[snap'[c].commit].approval = s.approval
    BY <1>3, <1>5, <1>6, <1>7 DEF Sends
  <2>6. at[c] = "creating" /\ remoteWire'[c] = "ok" => head' # 0
    BY <1>3, <1>5, <1>6 DEF Sends
  <2>7. at[c] = "validating" => recorded'
    BY <1>4 DEF RemoteInv, CallHolds, storeVars
  <2>8. script'[c].commit \in Ancestry(published[script[c].url])'
           \/ ~ (at[c] = "pushing" /\ remoteWire'[c] = "ok")
    BY <2>2, <2>3, <1>1, <1>4
  <2> QED
    BY <1>3, <2>1, <2>2, <2>4, <2>5, <2>6, <2>7, <2>8 DEF CallHolds, Sending
<1> QED
  BY <1>5, <1>9, <1>10 DEF HostKept

\* A call ends and has recorded nothing.
EndsQuietly(c) ==
  /\ EndCall(c) /\ UNCHANGED <<hostVars, storeVars>>
  /\ strays' = strays \/ strays' = Abandoned({c})

LEMMA QuietEnd ==
  ASSUME RemoteInv, NEW c \in Calls, EndsQuietly(c)
  PROVE  HostKept /\ CallStep(c) /\ CallHolds(c)'
<1>1. /\ EndCall(c) /\ UNCHANGED <<hostVars, storeVars>>
      /\ strays' \subseteq strays \cup {script[c]} /\ strays' \subseteq ScriptRecord
      /\ lockHolder' \in Calls \cup {Nobody}
  BY LostScripts DEF EndsQuietly, EndCall, Unlock, RemoteInv, BridgeRecords, StoreRecords
<1>2. HostKept
  BY <1>1, HostStays
<1>3. StoreRecords'
  BY <1>1 DEF RemoteInv, BridgeRecords, StoreRecords, storeVars, hostVars
<1> QED
  BY <1>1, <1>2, <1>3, EndedCall DEF RemoteInv, BridgeRecords, StoreRecords, storeVars

\* A call ends and has recorded what it did.
LEMMA RecordingEnd ==
  ASSUME RemoteInv, NEW c \in Calls, RecordWorkspace(c) \/ Authorize(c) \/ RecordPush(c)
  PROVE  HostKept /\ CallStep(c) /\ CallHolds(c)'
<1> USE DEF ApprovalIds
<1>1. /\ EndCall(c) /\ UNCHANGED hostVars /\ strays' = strays
      /\ lockHolder' \in Calls \cup {Nobody}
  BY LostScripts DEF RecordWorkspace, Authorize, RecordPush, EndCall, Unlock, storeVars
<1>2. /\ RemoteInv /\ HostSound /\ Commits /\ StoreRecords /\ Len(approvalsGiven) \in Nat
      /\ UNCHANGED commits
  BY <1>1 DEF RemoteInv, HostSound, BridgeRecords, StoreRecords, hostVars
<1>3. CASE RecordWorkspace(c)
  <2>1. /\ recorded' = TRUE /\ UNCHANGED <<approvalsGiven, approval, lastPush>>
        /\ head # 0
    BY <1>3 DEF RecordWorkspace, RemoteInv, CallHolds
  <2>2. HostKept
    BY <1>1, <1>2, <2>1, HostUntouched DEF HostKept, Commits, Published, StoreRecords
  <2>3. StoreRecords'
    BY <1>1, <1>2, <2>1 DEF StoreRecords
  <2> QED
    BY <1>1, <1>2, <2>1, <2>2, <2>3, EndedCall
<1>4. CASE Authorize(c)
  <2> DEFINE new == [content |-> snap[c].content, head |-> snap[c].head, url |-> snap[c].url]
  <2>1. /\ approvalsGiven' = Append(approvalsGiven, new) /\ approval' = Len(approvalsGiven')
        /\ UNCHANGED <<recorded, lastPush>> /\ at[c] = "authorizing"
    BY <1>4 DEF Authorize
  <2>2. new \in ApprovalRecord /\ new.head \in CommitIds
    BY <2>1 DEF RemoteInv, CallHolds, BridgeRecords, CallRecords, SnapRecord, ApprovalRecord
  <2> HIDE DEF new
  <2>3. /\ approvalsGiven' \in Seq(ApprovalRecord)
        /\ Len(approvalsGiven') = Len(approvalsGiven) + 1
        /\ \A i \in ApprovalIds : approvalsGiven'[i] = approvalsGiven[i]
        /\ approvalsGiven'[Len(approvalsGiven')] = new
    BY <1>2, <2>1, <2>2 DEF StoreRecords
  <2>4. \A i \in ApprovalIds' : i \in ApprovalIds \/ i = Len(approvalsGiven')
    BY <1>2, <2>3
  <2>5. HostKept
    <3>1. \A i \in ApprovalIds' : approvalsGiven'[i].head \in CommitIds
      BY <1>2, <2>2, <2>3, <2>4 DEF Commits
    <3>2. recorded' => head # 0
      BY <1>2, <2>1 DEF Commits
    <3>3. \E u \in Urls : lastPush' \in Published(u)
      BY <1>2, <2>1 DEF Commits, Published
    <3>4. Len(approvalsGiven) <= Len(approvalsGiven')
      BY <1>2, <2>3
    <3> QED
      BY <1>1, <1>2, <2>3, <3>1, <3>2, <3>3, <3>4, HostUntouched DEF HostKept
  <2>6. StoreRecords'
    BY <1>1, <1>2, <2>1, <2>3 DEF StoreRecords
  <2> QED
    BY <1>1, <1>2, <2>1, <2>3, <2>5, <2>6, EndedCall
<1>5. CASE RecordPush(c)
  <2>1. /\ approval' = 0 /\ lastPush' = snap[c].commit /\ UNCHANGED <<recorded, approvalsGiven>>
        /\ \E u \in Urls : snap[c].commit \in Published(u)
    BY <1>5 DEF RecordPush, RemoteInv, CallHolds, Published
  <2>2. HostKept
    BY <1>1, <1>2, <2>1, HostUntouched DEF HostKept, Commits, StoreRecords
  <2>3. lastPush' \in 0..Len(commits)
    <3>1. PICK u \in Urls : lastPush' \in Published(u)
      BY <2>1
    <3>2. published[u] = 0 \/ commits[published[u]].line \subseteq 1..Len(commits)
      <4>1. published[u] \in 0..Len(commits) /\ Len(commits) \in Nat
        BY DEF RemoteInv, HostRecords
      <4>2. published[u] # 0 => commits[published[u]].line \subseteq 1..published[u]
        BY <1>2, <4>1 DEF Commits, Tree, CommitIds
      <4> QED
        BY <4>1, <4>2
    <3>3. Len(commits) \in Nat
      BY DEF RemoteInv, HostRecords
    <3> QED
      BY <3>1, <3>2, <3>3 DEF Published, Ancestry
  <2>4. StoreRecords'
    BY <1>1, <1>2, <2>1, <2>3 DEF StoreRecords
  <2> QED
    BY <1>1, <1>2, <2>1, <2>2, <2>4, EndedCall
<1> QED
  BY <1>3, <1>4, <1>5

\* A call sends a script for what it holds.
LEMMA SendingStep ==
  ASSUME RemoteInv, NEW c \in Calls, NEW step \in Sending, NEW s \in ScriptRecord,
         Goto(c, step), Send(c, s), UNCHANGED <<hostVars, storeVars, mine, snap>>,
         retried' \in [Calls -> BOOLEAN], lockHolder' \in Calls \cup {Nobody},
         SentFor(s), Sends(step, s.run),
         step = "validating" => recorded,
         step \in {"rechecking", "pushing", "updating"} => snap[c].commit = s.commit
  PROVE  HostKept /\ CallStep(c) /\ CallHolds(c)'
<1>1. HostKept
  BY HostStays
<1>2. SentFor(s)'
  BY <1>1, WhatGrowsStays DEF HostKept, RemoteInv, HostSound
<1>3. StoreRecords'
  BY DEF RemoteInv, BridgeRecords, StoreRecords, storeVars, hostVars, Send
<1>4. step \in Steps
  BY DEF Sending, Steps
<1>5. /\ CallStep(c)
      /\ at'[c] = step /\ script'[c] = s /\ remoteWire'[c] = "sent" /\ snap'[c] = snap[c]
  BY <1>3, <1>4, SentScript
<1>6. SentFor(script[c])'
  BY <1>2, <1>5 DEF SentFor
<1>7. CallHolds(c)'
  BY <1>5, <1>6 DEF CallHolds, Sending, storeVars
<1> QED
  BY <1>1, <1>5, <1>7

\* The steps of a call that send a script.
LEMMA SendingSteps ==
  ASSUME RemoteInv, NEW c \in Calls,
         \/ PrepareRemote(c) \/ WriteRemote(c) \/ PlanRemote(c) \/ GateContinues(c)
         \/ SendPush(c) \/ SendUpdate(c) \/ (CheckApproved(c) /\ AsApproved(c))
  PROVE  HostKept /\ CallStep(c) /\ CallHolds(c)'
<1>1. /\ script[c] \in ScriptRecord /\ snap[c] \in SnapRecord
      /\ lockHolder \in Calls \cup {Nobody} /\ retried \in [Calls -> BOOLEAN]
      /\ SentFor(script[c]) /\ Sends(at[c], script[c].run)
      /\ mine[c] \in 0..Len(approvalsGiven)
  BY DEF RemoteInv, BridgeRecords, StoreRecords, CallRecords, CallHolds
<1>2. CASE PrepareRemote(c) \/ WriteRemote(c) \/ PlanRemote(c)
  <2> DEFINE New(run) == [NoScript EXCEPT !.run = run]
  <2>1. ASSUME NEW run \in {"create", "write", "validate"}
        PROVE  New(run) \in ScriptRecord /\ SentFor(New(run)) /\ New(run).run = run
    BY ContentAssumption DEF NoScript, ScriptRecord, Runs, SentFor
  <2> HIDE DEF New
  <2>2. CASE PrepareRemote(c)
    <3>1. /\ Goto(c, "creating") /\ Send(c, New("create"))
          /\ UNCHANGED <<hostVars, storeVars, lockHolder, mine, snap, retried>>
      BY <2>2 DEF PrepareRemote, New
    <3> QED
      BY <1>1, <2>1, <3>1, SendingStep DEF Sending, Sends
  <2>3. CASE WriteRemote(c)
    <3>1. /\ Goto(c, "writing") /\ Send(c, New("write")) /\ lockHolder' = c
          /\ UNCHANGED <<hostVars, storeVars, mine, snap, retried>>
      BY <2>3 DEF WriteRemote, New
    <3> QED
      BY <1>1, <2>1, <3>1, SendingStep DEF Sending, Sends
  <2>4. CASE PlanRemote(c)
    <3>1. /\ Goto(c, "validating") /\ Send(c, New("validate")) /\ lockHolder' = c /\ recorded
          /\ UNCHANGED <<hostVars, storeVars, mine, snap, retried>>
      BY <2>4 DEF PlanRemote, New
    <3> QED
      BY <1>1, <2>1, <3>1, SendingStep DEF Sending, Sends
  <2> QED
    BY <1>2, <2>2, <2>3, <2>4
<1>3. CASE GateContinues(c) \/ SendPush(c) \/ SendUpdate(c)
  <2>1. script[c].run \in {"build", "recheck", "push"}
    BY <1>1, <1>3 DEF GateContinues, SendPush, SendUpdate, Sends
  <2>2. snap[c].commit \in CommitIds /\ commits[snap[c].commit].approval = script[c].approval
    <3>1. CASE GateContinues(c)
      BY <3>1 DEF GateContinues, RemoteInv, CallHolds
    <3>2. CASE SendPush(c) \/ SendUpdate(c)
      <4>1. script[c].run \in {"recheck", "push"} /\ at[c] \in {"rechecking", "pushing"}
        BY <1>1, <3>2 DEF SendPush, SendUpdate, Sends
      <4>2. snap[c].commit = script[c].commit
        BY <4>1 DEF RemoteInv, CallHolds
      <4> QED
        BY <1>1, <4>1, <4>2 DEF SentFor
    <3> QED
      BY <1>3, <3>1, <3>2
  <2>3. ASSUME NEW run \in {"recheck", "push", "update"},
               run = "update" => snap[c].commit \in Ancestry(published[script[c].url])
        PROVE  /\ SameScript(c, run, snap[c].commit) \in ScriptRecord
               /\ SentFor(SameScript(c, run, snap[c].commit))
               /\ SameScript(c, run, snap[c].commit).run = run
               /\ SameScript(c, run, snap[c].commit).commit = snap[c].commit
    <3> DEFINE s == SameScript(c, run, snap[c].commit)
    <3>1. s \in ScriptRecord
      BY <1>1 DEF SameScript, ScriptRecord, SnapRecord, Runs
    <3>2. /\ s.run = run /\ s.commit = snap[c].commit
          /\ s.approval = script[c].approval /\ s.content = script[c].content
          /\ s.parent = script[c].parent /\ s.url = script[c].url
      BY <1>1 DEF SameScript, ScriptRecord
    <3> HIDE DEF s
    <3>3. SentFor(s)
      BY <1>1, <2>1, <2>2, <2>3, <3>2 DEF SentFor
    <3> QED
      BY <3>1, <3>2, <3>3 DEF s
  <2>4. CASE GateContinues(c)
    <3>1. /\ Goto(c, "rechecking") /\ Send(c, SameScript(c, "recheck", snap[c].commit))
          /\ UNCHANGED <<hostVars, storeVars, lockHolder, mine, snap, retried>>
      BY <2>4 DEF GateContinues
    <3> QED
      BY <1>1, <2>3, <3>1, SendingStep DEF Sending, Sends
  <2>5. CASE SendPush(c)
    <3>1. /\ Goto(c, "pushing") /\ Send(c, SameScript(c, "push", snap[c].commit))
          /\ UNCHANGED <<hostVars, storeVars, lockHolder, mine, snap>>
          /\ retried' \in [Calls -> BOOLEAN]
      BY <1>1, <2>5 DEF SendPush
    <3> QED
      BY <1>1, <2>3, <3>1, SendingStep DEF Sending, Sends
  <2>6. CASE SendUpdate(c)
    <3>1. /\ Goto(c, "updating") /\ Send(c, SameScript(c, "update", snap[c].commit))
          /\ UNCHANGED <<hostVars, storeVars, lockHolder, mine, snap, retried>>
          /\ snap[c].commit \in Ancestry(published[script[c].url])
      BY <2>6 DEF SendUpdate, RemoteInv, CallHolds
    <3> QED
      BY <1>1, <2>3, <3>1, SendingStep DEF Sending, Sends
  <2> QED
    BY <1>3, <2>4, <2>5, <2>6
<1>4. CASE CheckApproved(c) /\ AsApproved(c)
  <2> DEFINE s == PushScript(c, "build", 0)
             a == approvalsGiven[mine[c]]
  <2>1. /\ Goto(c, "building") /\ Send(c, s) /\ lockHolder' = c
        /\ UNCHANGED <<hostVars, storeVars, mine, snap, retried>>
        /\ at[c] = "approved"
    BY <1>4 DEF CheckApproved
  <2>2. mine[c] \in ApprovalIds /\ mine[c] \in Nat /\ a \in ApprovalRecord
    <3>1. mine[c] # 0 /\ Len(approvalsGiven) \in Nat /\ approvalsGiven \in Seq(ApprovalRecord)
      <4>1. CallHolds(c) /\ approvalsGiven \in Seq(ApprovalRecord)
        BY DEF RemoteInv, BridgeRecords, StoreRecords
      <4>2. at[c] = "approved" => mine[c] # 0
        BY <4>1 DEF CallHolds
      <4>3. Len(approvalsGiven) \in Nat
        BY <4>1
      <4> QED
        BY <2>1, <4>1, <4>2, <4>3
    <3>2. mine[c] \in 1..Len(approvalsGiven) /\ mine[c] \in Nat
      BY <1>1, <3>1
    <3> QED
      BY <3>1, <3>2 DEF ApprovalIds
  <2>3. content = a.content /\ head = a.head
    BY <1>4 DEF AsApproved
  <2>4. s = [run |-> "build", content |-> content, parent |-> head, url |-> a.url,
             commit |-> 0, approval |-> mine[c]]
    BY DEF PushScript
  <2>5. content \in Contents /\ head \in Nat
    BY DEF RemoteInv, HostRecords
  <2>6. s \in ScriptRecord
    <3>1. a.url \in Urls
      BY <2>2 DEF ApprovalRecord
    <3> HIDE DEF a, s
    <3> QED
      BY <2>2, <2>4, <2>5, <3>1 DEF ScriptRecord, Runs
  <2>7. SentFor(s) /\ s.run = "build"
    BY <2>2, <2>3, <2>4 DEF SentFor
  <2> HIDE DEF s
  <2> QED
    BY <1>1, <2>1, <2>6, <2>7, SendingStep DEF Sending, Sends
<1> QED
  BY <1>2, <1>3, <1>4

\* A call goes to another step, or learns that its script is lost, with nothing sent.
LEMMA QuietSteps ==
  ASSUME RemoteInv, NEW c \in Calls, NEW step \in Steps, NEW outcome \in {"none", "failed"},
         Goto(c, step), UNCHANGED <<hostVars, storeVars>>,
         \/ script' = [script EXCEPT ![c] = NoScript] /\ outcome = "none"
         \/ script' = script /\ step = at[c]
         \/ script' = script /\ at[c] \notin Sending /\ outcome = "none",
         step \in Sending => step = at[c],
         remoteWire' = [remoteWire EXCEPT ![c] = outcome],
         strays' \subseteq strays \cup {script[c]},
         lockHolder' \in Calls \cup {Nobody},
         mine' \in [Calls -> 0..Len(approvalsGiven)], snap' \in [Calls -> SnapRecord],
         retried' \in [Calls -> BOOLEAN],
         \A d \in Calls \ {c} : snap'[d] = snap[d] /\ mine'[d] = mine[d],
         step \in {"validating", "validated", "reviewed"} => recorded,
         step = "authorizing" => snap'[c].head \in CommitIds /\ snap'[c].url \in Urls,
         step = "approved" => mine'[c] # 0,
         step \in Sending => snap'[c] = snap[c],
         step = "pushed" => \E u \in Urls : snap'[c].commit \in Published(u),
         step \in Sending => outcome = "failed", step \notin Sending => outcome = "none"
  PROVE  HostKept /\ CallStep(c) /\ CallHolds(c)'
<1>0. /\ script[c] \in ScriptRecord /\ SentFor(script[c]) /\ Sends(at[c], script[c].run)
      /\ strays' \subseteq ScriptRecord
      /\ at[c] \notin Sending => script[c].run = ""
  <2>1. CallHolds(c) /\ script[c] \in ScriptRecord
    BY DEF RemoteInv, BridgeRecords, CallRecords
  <2>2. strays' \subseteq ScriptRecord
    BY <2>1 DEF RemoteInv, BridgeRecords, StoreRecords
  <2> QED
    BY <2>1, <2>2 DEF CallHolds
<1>1. HostKept
  BY HostStays
<1>2. NoScript \in ScriptRecord /\ SentFor(NoScript)' /\ NoScript.run = ""
  BY NothingSent
<1>3. /\ at' \in [Calls -> Steps] /\ at'[c] = step
      /\ remoteWire' \in [Calls -> {"none", "sent", "ok", "failed"}] /\ remoteWire'[c] = outcome
      /\ \A d \in Calls \ {c} : at'[d] = at[d] /\ remoteWire'[d] = remoteWire[d]
  BY DEF RemoteInv, BridgeRecords, CallRecords, Goto
<1> HIDE DEF NoScript
<1>4. /\ script' \in [Calls -> ScriptRecord]
      /\ \/ script'[c] = NoScript /\ outcome = "none"
         \/ script'[c] = script[c] /\ step = at[c]
         \/ script'[c] = script[c] /\ at[c] \notin Sending
      /\ \A d \in Calls \ {c} : script'[d] = script[d]
  BY <1>2 DEF RemoteInv, BridgeRecords, CallRecords
<1>5. CallStep(c)
  <2>1. StoreRecords'
    BY <1>0 DEF RemoteInv, BridgeRecords, StoreRecords, storeVars, hostVars
  <2>2. CallRecords'
    BY <1>3, <1>4 DEF CallRecords, storeVars
  <2> QED
    BY <1>3, <1>4, <2>1, <2>2 DEF CallStep, CallUntouched, BridgeRecords, storeVars
<1>6. SentFor(script[c])'
  <2>1. SentFor(script[c]) => \A s \in ScriptRecord : s = script[c] => SentFor(s)'
    BY <1>0, <1>1, WhatGrowsStays DEF HostKept, RemoteInv, HostSound
  <2>2. PICK s \in ScriptRecord : s = script'[c]
    BY <1>4
  <2>3. SentFor(s)'
    BY <1>0, <1>2, <1>4, <2>1, <2>2 DEF SentFor
  <2> QED
    BY <2>2, <2>3 DEF SentFor
<1>7. Sends(step, script'[c].run) /\ (step \notin Sending => script'[c].run = "")
  BY <1>0, <1>2, <1>4 DEF Sends, Sending
<1>8. step \in {"rechecking", "pushing", "updating"} => snap'[c].commit = script'[c].commit
  BY <1>4 DEF RemoteInv, CallHolds, Sending
<1>9. step = "pushed" => \E u \in Urls : snap'[c].commit \in Ancestry(published[u])'
  BY <1>1 DEF HostKept, Grows, Published
<1>10. CommitIds' = CommitIds /\ recorded' = recorded
  BY DEF hostVars, storeVars, CommitIds
<1>11. CallHolds(c)'
  BY <1>3, <1>6, <1>7, <1>8, <1>9, <1>10 DEF CallHolds, Sending
<1> QED
  BY <1>1, <1>5, <1>11

\* Every step of a call leaves the host, the store and what each call holds in order.
LEMMA CallSteps ==
  ASSUME RemoteInv, NEW c \in Calls, CallNext(c)
  PROVE  HostKept /\ CallStep(c) /\ CallHolds(c)'
<1>1. /\ at \in [Calls -> Steps] /\ script \in [Calls -> ScriptRecord]
      /\ remoteWire \in [Calls -> {"none", "sent", "ok", "failed"}]
      /\ mine \in [Calls -> 0..Len(approvalsGiven)] /\ snap \in [Calls -> SnapRecord]
      /\ retried \in [Calls -> BOOLEAN]
      /\ lockHolder \in Calls \cup {Nobody}
  BY DEF RemoteInv, BridgeRecords, StoreRecords, CallRecords
<1>2. /\ Abandoned({c}) \subseteq strays \cup {script[c]}
      /\ Released(c) \in Calls \cup {Nobody}
  BY LostScripts
<1>3. CallHolds(c)
  BY DEF RemoteInv
<1>4. remoteWire = [remoteWire EXCEPT ![c] = remoteWire[c]] /\ at = [at EXCEPT ![c] = at[c]]
  BY <1>1
<1>5. CASE ScriptAnswered(c)
  BY <1>5, AnsweredScript
<1>6. CASE ScriptTimesOut(c)
  <2>1. CASE at[c] # "validating"
    <3>1. EndsQuietly(c)
      BY <1>6, <2>1 DEF ScriptTimesOut, EndsQuietly
    <3> QED
      BY <3>1, QuietEnd
  <2>2. CASE at[c] = "validating"
    <3>1. /\ Goto(c, "validated") /\ UNCHANGED <<hostVars, storeVars, lockHolder, mine, snap, retried>>
          /\ script' = [script EXCEPT ![c] = NoScript]
          /\ remoteWire' = [remoteWire EXCEPT ![c] = "none"]
          /\ strays' \subseteq strays \cup {script[c]}
      BY <1>2, <1>6, <2>2 DEF ScriptTimesOut, Silent
    <3>2. recorded
      BY <1>3, <2>2 DEF CallHolds
    <3> QED
      BY <1>1, <3>1, <3>2, QuietSteps DEF Steps, Sending
  <2> QED
    BY <2>1, <2>2
<1>7. CASE ConnectionBreaks(c) \/ ContainerOutlives(c)
  <2>1. /\ at' = at /\ UNCHANGED <<hostVars, storeVars, lockHolder, script, mine, snap, retried>>
        /\ remoteWire' = [remoteWire EXCEPT ![c] = "failed"]
        /\ strays' \subseteq strays \cup {script[c]}
        /\ at[c] \in {"building", "pushing", "updating", "validating"}
    BY <1>2, <1>7 DEF ConnectionBreaks, ContainerOutlives, callVars
  <2>2. Goto(c, at[c]) /\ at[c] \in Steps /\ at[c] \in Sending
    BY <1>1, <1>4, <2>1 DEF Goto, Sending
  <2>3. at[c] \in {"validating", "validated", "reviewed"} => recorded
    BY <1>3 DEF CallHolds
  <2> QED
    BY <1>1, <2>1, <2>2, <2>3, QuietSteps DEF Sending
<1>8. CASE ScriptRefused(c) \/ WriteReturns(c) \/ PushGivesUp(c)
  <2>1. EndsQuietly(c)
    BY <1>8 DEF ScriptRefused, WriteReturns, PushGivesUp, EndsQuietly
  <2> QED
    BY <2>1, QuietEnd
<1>9. CASE \/ PrepareRemote(c) \/ WriteRemote(c) \/ PlanRemote(c) \/ GateContinues(c)
           \/ SendPush(c) \/ SendUpdate(c)
  BY <1>9, SendingSteps
<1>10. CASE RecordWorkspace(c) \/ Authorize(c) \/ RecordPush(c)
  BY <1>10, RecordingEnd
<1>11. CASE Validated(c)
  <2>1. CASE EndCall(c)
    <3>1. EndsQuietly(c)
      BY <1>11, <2>1 DEF Validated, EndsQuietly
    <3> QED
      BY <3>1, QuietEnd
  <2>2. CASE Goto(c, "validated") /\ Silent(c) /\ UNCHANGED <<lockHolder, mine, snap, retried>>
    <3>1. /\ UNCHANGED <<hostVars, storeVars, strays>>
          /\ script' = [script EXCEPT ![c] = NoScript]
          /\ remoteWire' = [remoteWire EXCEPT ![c] = "none"]
          /\ at[c] = "validating"
      BY <1>11, <2>2 DEF Validated, Silent
    <3>2. recorded
      BY <1>3, <3>1 DEF CallHolds
    <3> QED
      BY <1>1, <2>2, <3>1, <3>2, QuietSteps DEF Steps, Sending
  <2> QED
    BY <1>11, <2>1, <2>2 DEF Validated
<1>12. ASSUME NEW reviewable \in BOOLEAN, NEW allowSecret \in BOOLEAN,
              ReviewRemote(c, reviewable, allowSecret)
       PROVE  HostKept /\ CallStep(c) /\ CallHolds(c)'
  <2>1. CASE EndCall(c)
    <3>1. EndsQuietly(c)
      BY <1>12, <2>1 DEF ReviewRemote, EndsQuietly
    <3> QED
      BY <3>1, QuietEnd
  <2>2. CASE Goto(c, "reviewed") /\ UNCHANGED <<lockHolder, script, remoteWire, mine, snap, retried>>
    <3>1. UNCHANGED <<hostVars, storeVars, strays>> /\ at[c] = "validated" /\ remoteWire[c] = "none"
      BY <1>12 DEF ReviewRemote
    <3>2. recorded
      BY <1>3, <3>1 DEF CallHolds
    <3> QED
      BY <1>1, <1>4, <2>2, <3>1, <3>2, QuietSteps DEF Steps, Sending
  <2> QED
    BY <1>12, <2>1, <2>2 DEF ReviewRemote
<1>13. CASE SnapshotReviewed(c)
  <2> DEFINE k == [snap[c] EXCEPT !.content = content, !.head = head, !.url = originUrl]
  <2>1. /\ recorded /\ head # 0 /\ head \in CommitIds /\ originUrl \in Urls /\ content \in Contents
        /\ head \in Nat
    <3>1. recorded
      BY <1>3, <1>13 DEF SnapshotReviewed, CallHolds
    <3>2. head # 0
      BY <3>1 DEF RemoteInv, Commits
    <3> QED
      BY <3>1, <3>2 DEF RemoteInv, HostRecords, CommitIds
  <2>2. k \in SnapRecord /\ k.head = head /\ k.url = originUrl
    <3>1. snap[c] \in SnapRecord
      BY <1>1
    <3> QED
      BY <2>1, <3>1 DEF SnapRecord
  <2>3. snap' = [snap EXCEPT ![c] = k]
    BY <1>13 DEF SnapshotReviewed
  <2> HIDE DEF k
  <2>4. /\ snap' \in [Calls -> SnapRecord] /\ snap'[c] = k
        /\ \A d \in Calls \ {c} : snap'[d] = snap[d]
    BY <1>1, <2>2, <2>3
  <2>5. /\ Goto(c, "authorizing") /\ lockHolder' = Released(c)
        /\ script' = [script EXCEPT ![c] = NoScript]
        /\ remoteWire' = [remoteWire EXCEPT ![c] = "none"]
        /\ UNCHANGED <<hostVars, storeVars, strays, mine, retried>>
    BY <1>13 DEF SnapshotReviewed, Unlock, Silent
  <2> QED
    BY <1>1, <1>2, <2>1, <2>2, <2>4, <2>5, QuietSteps DEF Steps, Sending
<1>14. CASE PushBegins(c)
  <2>1. /\ Goto(c, "approved") /\ UNCHANGED <<hostVars, storeVars, lockHolder, sshVars, snap, retried>>
        /\ mine' = [mine EXCEPT ![c] = approval] /\ approval # 0 /\ at[c] = "idle"
    BY <1>14 DEF PushBegins
  <2>2. /\ mine' \in [Calls -> 0..Len(approvalsGiven)] /\ mine'[c] # 0
        /\ \A d \in Calls \ {c} : mine'[d] = mine[d]
    BY <1>1, <2>1 DEF RemoteInv, BridgeRecords, StoreRecords
  <2>3. remoteWire[c] = "none"
    BY <1>3, <2>1 DEF CallHolds, Sending
  <2> QED
    BY <1>1, <1>4, <2>1, <2>2, <2>3, QuietSteps DEF Steps, Sending, sshVars
<1>15. CASE CheckApproved(c)
  <2>1. CASE AsApproved(c)
    BY <1>15, <2>1, SendingSteps
  <2>2. CASE ~ AsApproved(c)
    <3>1. EndsQuietly(c)
      BY <1>15, <2>2 DEF CheckApproved, EndsQuietly
    <3> QED
      BY <3>1, QuietEnd
  <2> QED
    BY <2>1, <2>2
<1>16. CASE PushReturns(c)
  <2>1. /\ Goto(c, "pushed") /\ lockHolder' = Released(c)
        /\ script' = [script EXCEPT ![c] = NoScript]
        /\ remoteWire' = [remoteWire EXCEPT ![c] = "none"]
        /\ UNCHANGED <<hostVars, storeVars, strays, mine, snap, retried>>
        /\ at[c] = "updating"
    BY <1>16 DEF PushReturns, Unlock, Silent
  <2>2. \E u \in Urls : snap[c].commit \in Published(u)
    <3>1. /\ SentFor(script[c]) /\ script[c].run = "update" /\ snap[c].commit = script[c].commit
      BY <1>3, <2>1 DEF CallHolds, Sends
    <3>2. /\ script[c].approval \in ApprovalIds
          /\ script[c].url = approvalsGiven[script[c].approval].url
          /\ script[c].commit \in Ancestry(published[script[c].url])
      BY <3>1 DEF SentFor
    <3>3. approvalsGiven[script[c].approval] \in ApprovalRecord
      BY <3>2 DEF RemoteInv, BridgeRecords, StoreRecords, ApprovalIds
    <3>4. script[c].url \in Urls
      BY <3>2, <3>3 DEF ApprovalRecord
    <3> QED
      BY <3>1, <3>2, <3>4 DEF Published
  <2> QED
    BY <1>1, <1>2, <2>1, <2>2, QuietSteps DEF Steps, Sending
<1> QED
  BY <1>5, <1>6, <1>7, <1>8, <1>9, <1>10, <1>11, <1>12, <1>13, <1>14, <1>15, <1>16 DEF CallNext

LEMMA RemoteStarts ==
  ASSUME RemoteInit PROVE RemoteInv
<1> USE DEF RemoteInit
<1>1. NoScript \in ScriptRecord /\ NoScript.run = "" /\ NoSnap \in SnapRecord /\ SentFor(NoScript)
  BY NothingSent
<1>2. /\ BaseContent \in Contents
      /\ [content |-> BaseContent, parent |-> 0, line |-> {1}, approval |-> 0] \in CommitRecord
  BY ContentAssumption DEF CommitRecord
<1>3. HostRecords
  BY <1>2 DEF HostRecords
<1>4. BridgeRecords
  <2> HIDE DEF NoScript, NoSnap
  <2> QED
    <3>1. StoreRecords
      <4>1. approvalsGiven \in Seq(ApprovalRecord) /\ Len(approvalsGiven) = 0 /\ Len(commits) = 1
        OBVIOUS
      <4>2. /\ recorded \in BOOLEAN /\ approval = 0 /\ lastPush = 0 /\ strays = {}
            /\ lockHolder \in Calls \cup {Nobody}
        OBVIOUS
      <4> HIDE DEF RemoteInit
      <4> QED
        BY <4>1, <4>2 DEF StoreRecords
    <3>2. /\ at \in [Calls -> Steps] /\ remoteWire \in [Calls -> {"none", "sent", "ok", "failed"}]
          /\ mine \in [Calls -> 0..Len(approvalsGiven)] /\ retried \in [Calls -> BOOLEAN]
      BY DEF Steps
    <3>3. script \in [Calls -> ScriptRecord] /\ snap \in [Calls -> SnapRecord]
      BY <1>1
    <3> QED
      BY <3>1, <3>2, <3>3 DEF BridgeRecords, CallRecords
<1>5. CommitIds = {1} /\ ApprovalIds = {} /\ Urls # {}
  BY DEF CommitIds, ApprovalIds
<1>6. Commits
  <2>1. Tree
    BY <1>5 DEF Tree
  <2>2. \A k \in CommitIds : CommitAsApproved(k) /\ Reached(k)
    BY <1>5 DEF CommitAsApproved, Reached
  <2>3. \E u \in Urls : lastPush \in Ancestry(published[u])
    BY <1>5 DEF Ancestry
  <2> QED
    BY <1>5, <2>1, <2>2, <2>3 DEF Commits
<1>7. ASSUME NEW c \in Calls PROVE CallHolds(c)
  <2>1. script[c] = NoScript /\ at[c] = "idle" /\ remoteWire[c] = "none"
    OBVIOUS
  <2>2. SentFor(script[c])
    BY <1>1, <2>1
  <2> HIDE DEF NoScript
  <2> QED
    BY <1>1, <2>1, <2>2 DEF CallHolds, Sends, Sending
<1> QED
  BY <1>3, <1>4, <1>6, <1>7 DEF RemoteInv

\* Every step keeps the invariant, and keeps what was ever committed, approved, published
\* or checked out.
LEMMA RemoteSteps ==
  ASSUME RemoteInv, [RemoteNext]_remoteVars
  PROVE  RemoteInv' /\ HostKept
<1>0. HostSound /\ \A s \in strays : s \in ScriptRecord /\ SentFor(s)
  BY DEF RemoteInv, HostSound, BridgeRecords, StoreRecords
<1>1. CASE UNCHANGED remoteVars
  <2>1. HostKept
    BY <1>1, HostStays DEF remoteVars
  <2>2. BridgeRecords'
    BY <1>1 DEF remoteVars, hostVars, storeVars, sshVars, callVars, RemoteInv, BridgeRecords,
                StoreRecords, CallRecords
  <2>3. \A d \in Calls : CallUntouched(d)
    BY <1>1 DEF remoteVars, sshVars, callVars, CallUntouched
  <2>4. \A d \in Calls : CallHolds(d)'
    BY <1>1, <2>1, <2>3, HeldBesideOthers DEF HostKept, remoteVars, storeVars
  <2>5. \A s \in strays' : SentFor(s)'
    BY <1>0, <1>1, <2>1, WhatGrowsStays DEF HostKept, remoteVars, sshVars
  <2> QED
    BY <2>1, <2>2, <2>4, <2>5 DEF RemoteInv, HostKept
<1>2. ASSUME NEW c \in Calls, CallNext(c) PROVE RemoteInv' /\ HostKept
  <2>1. HostKept /\ CallStep(c) /\ CallHolds(c)'
    BY <1>2, CallSteps
  <2>2. \A d \in Calls \ {c} : CallHolds(d)'
    BY <2>1, HeldBesideOthers DEF HostKept, CallStep
  <2>3. \A s \in strays' : SentFor(s)'
    <3>1. script[c] \in ScriptRecord /\ SentFor(script[c])
      BY DEF RemoteInv, BridgeRecords, CallRecords, CallHolds
    <3> QED
      BY <1>0, <2>1, <3>1, WhatGrowsStays DEF HostKept, CallStep
  <2> QED
    BY <2>1, <2>2, <2>3 DEF RemoteInv, HostKept, CallStep
<1>3. CASE StrayRuns
  <2>1. PICK s \in strays :
          /\ \E succeeds \in BOOLEAN : ScriptRuns(s, succeeds)
          /\ strays' = strays \ {s}
    BY <1>3 DEF StrayRuns
  <2>2. UNCHANGED <<storeVars, lockHolder, script, remoteWire, callVars>>
    BY <1>3 DEF StrayRuns
  <2>3. HostKept
    BY <1>0, <2>1, <2>2, ScriptKeepsCommits DEF HostKept
  <2>4. BridgeRecords'
    <3>1. lastPush' \in 0..Len(commits')
      BY <2>2, <2>3 DEF storeVars, HostKept, Grows, HostRecords, RemoteInv, BridgeRecords,
                        StoreRecords
    <3> QED
      BY <2>1, <2>2, <3>1 DEF RemoteInv, BridgeRecords, StoreRecords, CallRecords, storeVars, callVars
  <2>5. \A d \in Calls : CallHolds(d)'
    BY <2>2, <2>3, HeldBesideOthers DEF HostKept, CallUntouched, storeVars, callVars
  <2>6. \A t \in strays' : SentFor(t)'
    BY <1>0, <2>1, <2>3, WhatGrowsStays DEF HostKept
  <2> QED
    BY <2>3, <2>4, <2>5, <2>6 DEF RemoteInv, HostKept
<1>4. CASE BridgeRestarts
  <2>1. HostKept
    BY <1>4, HostStays DEF BridgeRestarts
  <2>2. NoScript \in ScriptRecord /\ NoScript.run = "" /\ NoSnap \in SnapRecord /\ SentFor(NoScript)'
    BY NothingSent
  <2> HIDE DEF NoScript, NoSnap
  <2>3. strays' \subseteq strays \cup {script[d] : d \in Calls}
    BY <1>4 DEF BridgeRestarts, Abandoned
  <2>4. \A d \in Calls : script[d] \in ScriptRecord /\ SentFor(script[d])
    BY DEF RemoteInv, BridgeRecords, CallRecords, CallHolds
  <2>5. BridgeRecords'
    <3>1. strays' \subseteq ScriptRecord
      BY <1>0, <2>3, <2>4
    <3>2. StoreRecords'
      BY <1>4, <3>1 DEF BridgeRestarts, RemoteInv, BridgeRecords, StoreRecords, storeVars, hostVars
    <3>3. CallRecords'
      <4>1. 0 \in 0..Len(approvalsGiven')
        BY <3>2 DEF StoreRecords
      <4>2. "idle" \in Steps
        BY DEF Steps
      <4> QED
        BY <1>4, <2>2, <4>1, <4>2 DEF BridgeRestarts, CallRecords
    <3> QED
      BY <3>2, <3>3 DEF BridgeRecords
  <2>6. ASSUME NEW d \in Calls PROVE CallHolds(d)'
    <3>1. script'[d] = NoScript /\ at'[d] = "idle" /\ remoteWire'[d] = "none"
      BY <1>4 DEF BridgeRestarts
    <3>2. SentFor(script[d])'
      BY <2>2, <3>1 DEF SentFor
    <3> QED
      BY <2>2, <3>1, <3>2 DEF CallHolds, Sends, Sending
  <2>7. \A s \in strays' : SentFor(s)'
    BY <1>0, <2>1, <2>3, <2>4, WhatGrowsStays DEF HostKept
  <2> QED
    BY <2>1, <2>5, <2>6, <2>7 DEF RemoteInv, HostKept
<1>5. CASE OutsideChange
  <2>1. HostKept
    BY <1>0, <1>5, OutsideKeepsCommits DEF HostKept
  <2>2. UNCHANGED <<storeVars, lockHolder, sshVars, callVars>>
    BY <1>5 DEF OutsideChange
  <2>3. BridgeRecords'
    <3>1. lastPush' \in 0..Len(commits')
      BY <2>1, <2>2 DEF storeVars, HostKept, Grows, HostRecords, RemoteInv, BridgeRecords,
                        StoreRecords
    <3> QED
      BY <2>2, <3>1 DEF RemoteInv, BridgeRecords, StoreRecords, CallRecords, storeVars, callVars,
                        sshVars
  <2>4. \A d \in Calls : CallHolds(d)'
    BY <2>1, <2>2, HeldBesideOthers DEF HostKept, CallUntouched, storeVars, callVars, sshVars
  <2>5. \A s \in strays' : SentFor(s)'
    BY <1>0, <2>1, <2>2, WhatGrowsStays DEF HostKept, sshVars
  <2> QED
    BY <2>1, <2>3, <2>4, <2>5 DEF RemoteInv, HostKept
<1> QED
  BY <1>1, <1>2, <1>3, <1>4, <1>5 DEF RemoteNext

\* The invariant says what is published and recorded of a workspace.
LEMMA RemoteInvPublishes ==
  ASSUME RemoteInv PROVE RemotePublished
<1> USE DEF RemoteInv, CommitIds, ApprovalIds
<1>1. ASSUME NEW u \in Urls, NEW k \in BridgePublished(u)
      PROVE  /\ k \in CommitIds /\ commits[k].approval # 0 /\ Reached(k) /\ CommitAsApproved(k)
             /\ published[u] \in CommitIds /\ k \in commits[published[u]].line
  <2>1. /\ published[u] # 0 /\ published[u] \in CommitIds /\ k \in commits[published[u]].line
        /\ commits[k].approval # 0
    BY <1>1 DEF BridgePublished, Ancestry, HostRecords
  <2>2. k \in CommitIds
    BY <2>1 DEF Commits, Tree, HostRecords
  <2>3. Reached(k)
    BY <2>1 DEF Commits
  <2> QED
    BY <2>1, <2>2, <2>3 DEF Commits
<1>2. PublishedAsApproved
  <2> SUFFICES ASSUME NEW u \in Urls, NEW k \in BridgePublished(u)
               PROVE  LET a == approvalsGiven[commits[k].approval]
                      IN /\ commits[k].content = a.content /\ commits[k].parent = a.head
                         /\ k \in Ancestry(published[a.url])
                         /\ ~ SecretInDiff(commits[k].content, commits[k].parent)
    BY DEF PublishedAsApproved
  <2> QED
    BY <1>1 DEF Reached, CommitAsApproved
\* Both commits are in the line of one tip, so the older is in the line of the younger.  A
\* younger one would be built on a commit that is not its parent's.
<1>3. ASSUME NEW k \in CommitIds, NEW j \in commits[k].line, j # k,
             CommitAsApproved(k), CommitAsApproved(j),
             commits[j].approval = commits[k].approval, commits[k].approval # 0
      PROVE  FALSE
  <2>1. j \in CommitIds /\ j < k /\ j # 1
    BY <1>3 DEF Commits, Tree, HostRecords
  <2>2. /\ commits[k].parent \in 1..(k - 1)
        /\ commits[k].line = {k} \cup commits[commits[k].parent].line
        /\ commits[j].parent \in 1..(j - 1)
    BY <1>3, <2>1 DEF Commits, Tree, HostRecords
  <2>3. commits[j].parent = commits[k].parent
    BY <1>3 DEF CommitAsApproved
  <2>4. j \in commits[commits[k].parent].line
    BY <1>3, <2>2
  <2>5. commits[commits[k].parent].line \subseteq 1..commits[k].parent
    <3>1. commits[k].parent \in 1..Len(commits)
      BY <2>2 DEF HostRecords
    <3> QED
      BY <3>1 DEF Commits, Tree
  <2> QED
    BY <2>1, <2>2, <2>3, <2>4, <2>5
<1>4. OneCommitPerApproval
  <2> SUFFICES ASSUME NEW u \in Urls, NEW v \in Urls,
                      NEW j \in BridgePublished(u), NEW k \in BridgePublished(v),
                      commits[j].approval = commits[k].approval, j # k
               PROVE  FALSE
    BY DEF OneCommitPerApproval
  <2> DEFINE w == approvalsGiven[commits[k].approval].url
  <2>1. /\ j \in CommitIds /\ Reached(j) /\ CommitAsApproved(j)
        /\ k \in CommitIds /\ Reached(k) /\ CommitAsApproved(k) /\ commits[k].approval # 0
    BY <1>1
  <2>2. w \in Urls
    <3>1. commits[k].approval \in ApprovalIds
      BY <2>1 DEF CommitAsApproved
    <3>2. approvalsGiven[commits[k].approval] \in ApprovalRecord
      BY <3>1 DEF BridgeRecords, StoreRecords
    <3> QED
      BY <3>2 DEF ApprovalRecord
  <2>3. j \in Ancestry(published[w]) /\ k \in Ancestry(published[w])
    BY <2>1 DEF Reached
  <2>4. j # 0 /\ k # 0 /\ j \in Nat /\ k \in Nat
    BY <2>1
  <2>5. /\ published[w] \in CommitIds
        /\ j \in commits[published[w]].line /\ k \in commits[published[w]].line
    BY <2>2, <2>3, <2>4 DEF Ancestry, HostRecords
  <2>6. j \in commits[k].line \/ k \in commits[j].line
    BY <2>4, <2>5 DEF Commits, Tree
  <2> QED
    BY <1>3, <2>1, <2>6
<1> QED
  BY <1>2, <1>4 DEF RemotePublished, RecordedPushIsPublished, Commits

\* Whatever was retried, repeated or ran late on the host, and whatever people did there:
\* what is published is as approved, at the approved URL, once for each approval, without
\* a secret in its diff, and a recorded push is published (commit_push, the handler of it).
THEOREM OnlyApprovedPublished == RemoteSpec => []RemotePublished
<1>1. RemoteInit => RemoteInv
  BY RemoteStarts
<1>2. RemoteInv /\ [RemoteNext]_remoteVars => RemoteInv'
  BY RemoteSteps
<1>3. RemoteInv => RemotePublished
  BY RemoteInvPublishes
<1> QED
  BY <1>1, <1>2, <1>3, PTL DEF RemoteSpec

\* The branch of the worktree never leaves behind a commit that somebody made there, however
\* late the update of a push arrives (update-ref with the expected old value).
THEOREM LateUpdatesAreSafe == RemoteSpec => LocalCommitsKept
<1>1. RemoteInit => RemoteInv
  BY RemoteStarts
<1>2. RemoteInv /\ [RemoteNext]_remoteVars => RemoteInv'
  BY RemoteSteps
<1>3. RemoteInv /\ [RemoteNext]_remoteVars => [(head \in Ancestry(head)')]_remoteVars
  BY RemoteSteps DEF HostKept
<1> QED
  BY <1>1, <1>2, <1>3, PTL DEF RemoteSpec, LocalCommitsKept

-----------------------------------------------------------------------------
(***************************************************************************)
(* The deployment record, the prepared runtimes and their reviews.         *)
(***************************************************************************)
AdoptionSteps == {"idle", "reading", "already", "writing", "checking", "linking", "unlinking",
                  "discarding", "confirming", "verifying", "adopted", "outdated", "failed",
                  "killed"}
PreparationSteps == {"idle", "creating", "copying", "probing", "building", "observing",
                     "recording", "judging", "prepared", "failed"}
Kinds == {"record", "runtime", "launcher", "registration", "job"}
AdoptionRecord == [step : AdoptionSteps, expect : Nat, temporary : BOOLEAN]
RuntimeRecord == [made : BOOLEAN, wheels : Nat, python : Nat,
                  tree : {"none", "built", "changed"}, manifest : BOOLEAN]
PreparationRecord == [step : PreparationSteps, id : Inputs]
ReviewRecord == [step : {"idle", "reading", "failed", "verified"}, id : Inputs,
                 reads : Seq(Kinds), launcher : Nat, job : Nat]

RecordsTyped ==
  /\ registration \in Nat /\ wheels \in Nat /\ basePython \in Nat
  /\ launcher \in Nat /\ job \in Nat /\ edits \in 0..HostEdits
  /\ adopted \in Adoptions \cup {NoRecord}
  /\ adoption \in [Adopters -> AdoptionRecord]
  /\ runtimes \in [Inputs -> RuntimeRecord]
  /\ preparation \in [Preparers -> PreparationRecord]
  /\ review \in [Reviewers -> ReviewRecord]

\* Every version is one that some edit made.
Numbered ==
  /\ 1 <= registration /\ registration <= edits + 1
  /\ 1 <= wheels /\ wheels <= edits + 1
  /\ 1 <= basePython /\ basePython <= edits + 1
  /\ 1 <= launcher /\ launcher <= edits + 1
  /\ 1 <= job /\ job <= registration
  /\ adopted # NoRecord => adopted.digest <= registration

\* Before it links its file an adopter's is not the record; afterwards it is.
AdopterHolds(a) ==
  /\ adoption[a].expect <= registration
  /\ adoption[a].step # "idle" => adoption[a].expect # 0
  /\ adoption[a].step \in {"idle", "reading", "already", "writing", "checking", "linking",
                           "discarding"} =>
       adopted = NoRecord \/ adopted.by # a
  /\ adoption[a].step \in {"unlinking", "confirming", "verifying", "adopted", "outdated"} =>
       adopted = [digest |-> adoption[a].expect, by |-> a]
  /\ adoption[a].step = "already" => adopted # NoRecord /\ adopted.digest = adoption[a].expect

\* The steps at which a preparer owns the directory it has made.
Owning == {"copying", "probing", "building", "observing", "recording"}

DirectorySound(id) ==
  /\ ~ runtimes[id].made => ~ runtimes[id].manifest
  /\ runtimes[id].manifest =>
       /\ runtimes[id].wheels = id.wheels /\ runtimes[id].python = id.python
       /\ runtimes[id].tree # "none"
  /\ runtimes[id].wheels <= wheels /\ runtimes[id].python <= basePython

PreparerHolds(p) ==
  LET id == Target(p)  step == preparation[p].step
  IN /\ step \in Owning => runtimes[id].made /\ ~ runtimes[id].manifest
     /\ step \in {"probing", "building", "observing", "recording"} =>
          runtimes[id].wheels = id.wheels
     /\ step \in {"building", "observing"} => id.python <= basePython
     /\ step \in {"observing", "recording"} => runtimes[id].tree = "built"
     /\ step = "observing" => id.python <= runtimes[id].python
     /\ step = "recording" => runtimes[id].python = id.python

OwnersApart ==
  \A p, q \in Preparers :
    p # q /\ preparation[p].step \in Owning /\ preparation[q].step \in Owning =>
      Target(p) # Target(q)

\* A review's remaining reads are the last ones of the longest review.
Left(r) == Len(review[r].reads)
RecordWasRead(r) == Left(r) \notin {34, 10, 4} \/ review[r].launcher # 0
RuntimeWasRead(r) == Left(r) \notin {34, 33, 10, 9, 4, 3} \/ review[r].launcher # 0

\* What the remaining reads are about to confirm.
StillToConfirm(r) ==
  /\ Left(r) >= 2 => RecordHolds
  /\ Left(r) >= 1 => Prepared(review[r].id)
  /\ Left(r) >= 5 => Same(review[r].launcher, launcher)
  /\ Left(r) >= 12 => Same(review[r].job, job)

SawAMoment(r) ==
  \E c \in coexisted : /\ c.id = review[r].id
                       /\ Same(review[r].launcher, c.launcher)
                       /\ Same(review[r].job, c.job)

ReviewerHolds(r) ==
  /\ Left(r) <= 34
  /\ \A j \in 1..Left(r) : review[r].reads[j] = LoadedReads[34 - Left(r) + j]
  /\ review[r].launcher <= launcher /\ review[r].job <= job
  /\ review[r].job # 0 => review[r].launcher # 0
  /\ Left(r) \in 11..29 => review[r].launcher # 0
  /\ Left(r) >= 30 => review[r].launcher = 0
  /\ RecordWasRead(r) => adopted # NoRecord /\ Readable
  /\ RuntimeWasRead(r) => runtimes[review[r].id].manifest
  /\ RuntimeWasRead(r) /\ StillToConfirm(r) => SawAMoment(r)

ReviewSound(r) ==
  /\ review[r].step = "idle" => review[r].launcher = 0 /\ review[r].job = 0
  /\ review[r].step = "reading" => ReviewerHolds(r)
  /\ review[r].step = "verified" => SawAMoment(r)

RecordsInv ==
  /\ RecordsTyped /\ Numbered
  /\ \A a \in Adopters : AdopterHolds(a)
  /\ \A id \in Inputs : DirectorySound(id)
  /\ \A p \in Preparers : PreparerHolds(p)
  /\ OwnersApart
  /\ \A r \in Reviewers : ReviewSound(r)
  /\ \A id \in Inputs :
       Together(id) => [id |-> id, launcher |-> launcher, job |-> job] \in coexisted

LEMMA RecordsDiffer ==
  ASSUME NEW x \in Adoptions PROVE x # NoRecord /\ x.digest \in Nat /\ x.digest # 0 /\ x.by \in Adopters
<1>1. x.digest \in Nat /\ x.digest # 0 /\ x.by \in Adopters
  BY EditsAssumption DEF Adoptions, Versions
<1>2. NoRecord.digest = 0
  BY DEF NoRecord
<1> QED
  BY <1>1, <1>2

\* What no step on records and runtimes takes back.
Forward ==
  /\ adopted # NoRecord => adopted' = adopted
  /\ adopted # NoRecord /\ Readable => Readable'
  /\ registration <= registration' /\ basePython <= basePython'
  /\ launcher <= launcher' /\ job <= job'
  /\ \A id \in Inputs :
       runtimes[id].manifest =>
         /\ runtimes'[id].manifest
         /\ runtimes'[id].wheels = runtimes[id].wheels
         /\ runtimes'[id].python = runtimes[id].python
         /\ runtimes'[id].tree = "built" => runtimes[id].tree = "built"

\* An adopter's step changes its own records, and the record only where there is none.
AdopterMoves(a, k) ==
  /\ k \in AdoptionRecord
  /\ adoption' = [adoption EXCEPT ![a] = k]
  /\ \/ adopted' = adopted
     \/ adopted = NoRecord /\ adopted' = [digest |-> k.expect, by |-> a]
  /\ registration' = registration

AdoptionKept ==
  /\ adoption' \in [Adopters -> AdoptionRecord] /\ adopted' \in Adoptions \cup {NoRecord}
  /\ \A b \in Adopters : AdopterHolds(b)'
  /\ adopted # NoRecord => adopted' = adopted
  /\ adopted # NoRecord /\ Readable => Readable'
  /\ adopted' # NoRecord => adopted'.digest <= registration'
  /\ registration' = registration

LEMMA AdopterMoved ==
  ASSUME RecordsInv, NEW a \in Adopters, NEW k, AdopterMoves(a, k),
         k.expect <= registration, k.step # "idle", k.expect # 0,
         k.step \in {"reading", "already", "writing", "checking", "linking", "discarding"} =>
           adopted' = NoRecord \/ adopted'.by # a,
         k.step \in {"unlinking", "confirming", "verifying", "adopted", "outdated"} =>
           adopted' = [digest |-> k.expect, by |-> a],
         k.step = "already" => adopted' # NoRecord /\ adopted'.digest = k.expect,
         k.temporary => adoption[a].temporary \/ k.step = "checking"
  PROVE  AdoptionKept
<1>1. /\ adoption \in [Adopters -> AdoptionRecord] /\ adopted \in Adoptions \cup {NoRecord}
      /\ registration \in Nat /\ registration <= HostEdits + 1
      /\ \A b \in Adopters : AdopterHolds(b)
      /\ adopted # NoRecord => adopted.digest <= registration
  BY EditsAssumption DEF RecordsInv, RecordsTyped, Numbered
<1>2. /\ adoption' \in [Adopters -> AdoptionRecord] /\ adoption'[a] = k
      /\ \A b \in Adopters \ {a} : adoption'[b] = adoption[b]
  BY <1>1 DEF AdopterMoves
<1>3. /\ k.expect \in Versions /\ k.temporary \in BOOLEAN
  BY <1>1, EditsAssumption DEF AdopterMoves, AdoptionRecord, Versions
<1>4. adopted' \in Adoptions \cup {NoRecord}
  BY <1>1, <1>3 DEF AdopterMoves, Adoptions
<1>5. adopted # NoRecord => adopted' = adopted
  BY DEF AdopterMoves
<1>6. AdopterHolds(a)'
  BY <1>2 DEF AdopterHolds, AdopterMoves
<1>7. ASSUME NEW b \in Adopters \ {a} PROVE AdopterHolds(b)'
  <2>1. AdopterHolds(b) /\ adoption'[b] = adoption[b] /\ adoption[b] \in AdoptionRecord
    BY <1>1, <1>2
  <2>2. CASE adopted' = adopted
    BY <2>1, <2>2 DEF AdopterHolds, AdopterMoves
  <2>3. CASE adopted = NoRecord /\ adopted' = [digest |-> k.expect, by |-> a]
    <3>1. adopted'.by = a
      BY <2>3
    <3>2. adoption[b].step \notin {"unlinking", "confirming", "verifying", "adopted", "outdated",
                                   "already"}
      <4>1. \A x \in Adoptions : x # NoRecord
        BY RecordsDiffer
      <4>2. adoption[b].step \in {"unlinking", "confirming", "verifying", "adopted", "outdated"} =>
              [digest |-> adoption[b].expect, by |-> b] \in Adoptions
        BY <1>1, <2>1, EditsAssumption DEF AdopterHolds, AdoptionRecord, Adoptions, Versions
      <4> QED
        BY <2>1, <2>3, <4>1, <4>2 DEF AdopterHolds
    <3> QED
      BY <2>1, <2>3, <3>1, <3>2 DEF AdopterHolds, AdopterMoves
  <2> QED
    BY <2>2, <2>3 DEF AdopterMoves
<1>8. ASSUME adopted # NoRecord, Readable PROVE Readable'
  <2>1. adopted' = adopted /\ adopted.by \in Adopters /\ ~ adoption[adopted.by].temporary
    BY <1>1, <1>5, <1>8, RecordsDiffer DEF Readable
  <2>2. adopted.by = a => ~ k.temporary
    BY <1>8, <2>1
  <2> QED
    BY <1>2, <2>1, <2>2 DEF Readable
<1>9. adopted' # NoRecord => adopted'.digest <= registration'
  BY <1>1 DEF AdopterMoves
<1> QED
  BY <1>2, <1>4, <1>5, <1>6, <1>7, <1>8, <1>9 DEF AdoptionKept, AdopterMoves

LEMMA AdoptionKeeps ==
  ASSUME RecordsInv, NEW a \in Adopters, AdoptionStep(a) PROVE AdoptionKept
<1> DEFINE old == adoption[a]
           To(step) == [old EXCEPT !.step = step]
<1>1. /\ adoption \in [Adopters -> AdoptionRecord] /\ old \in AdoptionRecord
      /\ adopted \in Adoptions \cup {NoRecord}
      /\ registration \in Nat /\ AdopterHolds(a)
      /\ old.step \in AdoptionSteps /\ old.expect \in Nat /\ old.temporary \in BOOLEAN
  BY DEF RecordsInv, RecordsTyped, AdoptionRecord
<1>2. ASSUME NEW step \in AdoptionSteps
      PROVE  /\ To(step) \in AdoptionRecord /\ To(step).step = step
             /\ To(step).expect = old.expect /\ To(step).temporary = old.temporary
             /\ AdoptionGoto(a, step) => adoption' = [adoption EXCEPT ![a] = To(step)]
  BY <1>1 DEF AdoptionGoto, AdoptionRecord
<1>3. old.step # "idle" => old.expect # 0 /\ old.expect <= registration
  BY <1>1 DEF AdopterHolds
<1> HIDE DEF To
\* The steps that change nothing but how far the adopter is.
<1>4. ASSUME NEW step \in AdoptionSteps \ {"idle", "unlinking"},
             AdoptionGoto(a, step), old.step # "idle", UNCHANGED <<registration, adopted>>,
             step \in {"reading", "already", "writing", "checking", "linking", "discarding"} =>
               adopted = NoRecord \/ adopted.by # a,
             step \in {"confirming", "verifying", "adopted", "outdated"} =>
               adopted = [digest |-> old.expect, by |-> a],
             step = "already" => adopted # NoRecord /\ adopted.digest = old.expect
      PROVE  AdoptionKept
  <2>1. AdopterMoves(a, To(step))
    BY <1>2, <1>4 DEF AdopterMoves
  <2> QED
    BY <1>2, <1>3, <1>4, <2>1, AdopterMoved
<1>5. CASE BeginAdoption(a)
  <2>1. PICK digest \in 1..registration :
          adoption' = [adoption EXCEPT ![a].expect = digest,
                                       ![a].step = IF registration = digest THEN "reading" ELSE "failed"]
    BY <1>5 DEF BeginAdoption
  <2> DEFINE next == IF registration = digest THEN "reading" ELSE "failed"
             k == [old EXCEPT !.expect = digest, !.step = next]
  <2>0. digest \in Nat /\ next \in {"reading", "failed"} /\ next \in AdoptionSteps
    BY <1>1 DEF AdoptionSteps
  <2>2. /\ k \in AdoptionRecord /\ k.expect = digest /\ k.step \in {"reading", "failed"}
        /\ k.temporary = old.temporary
    <3> HIDE DEF next
    <3> QED
      BY <1>1, <2>0 DEF AdoptionRecord
  <2>3. adoption' = [adoption EXCEPT ![a] = k]
    BY <1>1, <2>1
  <2> HIDE DEF k
  <2>4. AdopterMoves(a, k) /\ adopted' = adopted /\ old.step = "idle"
    BY <1>5, <2>2, <2>3 DEF BeginAdoption, AdopterMoves, AdoptionAt
  <2>5. adopted = NoRecord \/ adopted.by # a
    BY <1>1, <2>4 DEF AdopterHolds
  <2> QED
    BY <1>1, <2>2, <2>4, <2>5, AdopterMoved
<1>6. CASE ReadRecord(a)
  <2>1. /\ old.step = "reading" /\ UNCHANGED <<registration, adopted>>
        /\ adopted = NoRecord \/ adopted.by # a
    BY <1>1, <1>6 DEF ReadRecord, AdoptionAt, AdopterHolds
  <2>2. \/ AdoptionGoto(a, "failed") \/ AdoptionGoto(a, "writing")
        \/ AdoptionGoto(a, "already") /\ adopted # NoRecord /\ adopted.digest = old.expect
    BY <1>6 DEF ReadRecord
  <2> QED
    BY <1>4, <2>1, <2>2 DEF AdoptionSteps
<1>7. CASE WriteTemporary(a)
  <2> DEFINE k == [old EXCEPT !.step = "checking", !.temporary = TRUE]
  <2>1. k \in AdoptionRecord /\ k.expect = old.expect /\ k.step = "checking"
    BY <1>1 DEF AdoptionRecord, AdoptionSteps
  <2>2. adoption' = [adoption EXCEPT ![a] = k]
    BY <1>1, <1>7 DEF WriteTemporary
  <2> HIDE DEF k
  <2>3. AdopterMoves(a, k) /\ adopted' = adopted /\ old.step = "writing"
    BY <1>7, <2>1, <2>2 DEF WriteTemporary, AdopterMoves, AdoptionAt
  <2>4. adopted = NoRecord \/ adopted.by # a
    BY <1>1, <2>3 DEF AdopterHolds
  <2> QED
    BY <1>3, <2>1, <2>3, <2>4, AdopterMoved
<1>8. CASE CheckRegistration(a)
  <2>1. /\ old.step = "checking" /\ UNCHANGED <<registration, adopted>>
        /\ adopted = NoRecord \/ adopted.by # a
    BY <1>1, <1>8 DEF CheckRegistration, AdoptionAt, AdopterHolds
  <2>2. AdoptionGoto(a, "linking") \/ AdoptionGoto(a, "discarding")
    BY <1>8 DEF CheckRegistration
  <2> QED
    BY <1>4, <2>1, <2>2 DEF AdoptionSteps
<1>9. CASE LinkRecord(a)
  <2>1. /\ old.step = "linking" /\ registration' = registration
        /\ adopted = NoRecord \/ adopted.by # a
    BY <1>1, <1>9 DEF LinkRecord, AdoptionAt, AdopterHolds
  <2>2. CASE adopted' = adopted /\ AdoptionGoto(a, "discarding")
    BY <1>4, <2>1, <2>2 DEF AdoptionSteps
  <2>3. CASE /\ adopted = NoRecord /\ adopted' = [digest |-> old.expect, by |-> a]
             /\ AdoptionGoto(a, "unlinking")
    <3>1. /\ To("unlinking") \in AdoptionRecord /\ To("unlinking").step = "unlinking"
          /\ To("unlinking").expect = old.expect /\ To("unlinking").temporary = old.temporary
          /\ adoption' = [adoption EXCEPT ![a] = To("unlinking")]
      BY <1>2, <2>3 DEF AdoptionSteps
    <3>2. AdopterMoves(a, To("unlinking"))
      BY <2>1, <2>3, <3>1 DEF AdopterMoves
    <3> QED
      BY <1>3, <2>1, <2>3, <3>1, <3>2, AdopterMoved
  <2> QED
    BY <1>9, <2>2, <2>3 DEF LinkRecord, NameFree
<1>10. CASE UnlinkTemporary(a)
  <2> DEFINE k == [old EXCEPT !.temporary = FALSE,
                              !.step = IF old.step = "unlinking" THEN "confirming" ELSE "failed"]
  <2>1. /\ k \in AdoptionRecord /\ k.expect = old.expect /\ ~ k.temporary
        /\ k.step = IF old.step = "unlinking" THEN "confirming" ELSE "failed"
    BY <1>1 DEF AdoptionRecord, AdoptionSteps
  <2>2. adoption' = [adoption EXCEPT ![a] = k]
    BY <1>1, <1>10 DEF UnlinkTemporary
  <2> HIDE DEF k
  <2>3. AdopterMoves(a, k) /\ adopted' = adopted /\ old.step \in {"unlinking", "discarding"}
    BY <1>10, <2>1, <2>2 DEF UnlinkTemporary, AdopterMoves
  <2>4. old.step = "unlinking" => adopted = [digest |-> old.expect, by |-> a]
    BY <1>1 DEF AdopterHolds
  <2> QED
    BY <1>3, <2>1, <2>3, <2>4, AdopterMoved
<1>11. CASE ConfirmRecord(a) \/ VerifyRegistration(a)
  <2>1. /\ UNCHANGED <<registration, adopted>> /\ old.step # "idle"
        /\ adopted = [digest |-> old.expect, by |-> a]
    BY <1>1, <1>11 DEF ConfirmRecord, VerifyRegistration, AdoptionAt, AdopterHolds
  <2>2. \/ AdoptionGoto(a, "verifying") \/ AdoptionGoto(a, "failed")
        \/ AdoptionGoto(a, "adopted") \/ AdoptionGoto(a, "outdated")
    BY <1>11 DEF ConfirmRecord, VerifyRegistration
  <2> QED
    BY <1>4, <2>1, <2>2 DEF AdoptionSteps
<1>12. CASE StorageFails(a)
  <2>1. /\ UNCHANGED <<registration, adopted>> /\ old.step # "idle"
        /\ \/ AdoptionGoto(a, "failed")
           \/ old.step \in {"checking", "linking"} /\ AdoptionGoto(a, "discarding")
    BY <1>12 DEF StorageFails
  <2>2. old.step \in {"checking", "linking"} => adopted = NoRecord \/ adopted.by # a
    BY <1>1 DEF AdopterHolds
  <2> QED
    BY <1>4, <2>1, <2>2 DEF AdoptionSteps
<1>13. CASE AdopterKilled(a)
  <2>1. UNCHANGED <<registration, adopted>> /\ old.step # "idle" /\ AdoptionGoto(a, "killed")
    BY <1>13 DEF AdopterKilled, Ended
  <2> QED
    BY <1>4, <2>1 DEF AdoptionSteps
<1> QED
  BY <1>5, <1>6, <1>7, <1>8, <1>9, <1>10, <1>11, <1>12, <1>13 DEF AdoptionStep

-----------------------------------------------------------------------------
\* A preparer's step changes its own record and the directory it was told of.
PreparationKept ==
  /\ preparation' \in [Preparers -> PreparationRecord]
  /\ runtimes' \in [Inputs -> RuntimeRecord]
  /\ \A id \in Inputs : DirectorySound(id)'
  /\ \A q \in Preparers : PreparerHolds(q)'
  /\ OwnersApart'
  /\ \A id \in Inputs :
       runtimes[id].manifest =>
         /\ runtimes'[id].manifest
         /\ runtimes'[id].wheels = runtimes[id].wheels
         /\ runtimes'[id].python = runtimes[id].python
         /\ runtimes'[id].tree = "built" => runtimes[id].tree = "built"

DirectoryBecomes(id, d) == runtimes' = [runtimes EXCEPT ![id] = d]

PreparerMoves(p, k, d) ==
  /\ k \in PreparationRecord /\ d \in RuntimeRecord
  /\ preparation' = [preparation EXCEPT ![p] = k]
  /\ DirectoryBecomes(k.id, d)
  /\ UNCHANGED <<wheels, basePython>>

MoveAllowed(p, k, d) ==
  /\ preparation[p].step \in Owning \/ ~ runtimes[k.id].made \/ d = runtimes[k.id]
  /\ preparation[p].step # "idle" => k.id = Target(p)
  /\ preparation[p].step = "idle" => d = runtimes[k.id] /\ k.step \notin Owning
  /\ k.step \in Owning =>
       /\ d.made /\ ~ d.manifest
       /\ preparation[p].step \in Owning \/ ~ runtimes[k.id].made
  /\ ~ d.made => ~ d.manifest
  /\ runtimes[k.id].manifest => d = runtimes[k.id]
  /\ d.manifest => d.wheels = k.id.wheels /\ d.python = k.id.python /\ d.tree # "none"
  /\ d.wheels <= wheels /\ d.python <= basePython
  /\ k.step \in {"probing", "building", "observing", "recording"} => d.wheels = k.id.wheels
  /\ k.step \in {"building", "observing"} => k.id.python <= basePython
  /\ k.step \in {"observing", "recording"} => d.tree = "built"
  /\ k.step = "observing" => k.id.python <= d.python
  /\ k.step = "recording" => d.python = k.id.python

LEMMA PreparerMoved ==
  ASSUME RecordsInv, NEW p \in Preparers, NEW k, NEW d, PreparerMoves(p, k, d),
         MoveAllowed(p, k, d)
  PROVE  PreparationKept
<1> USE DEF MoveAllowed
<1>1. /\ preparation \in [Preparers -> PreparationRecord]
      /\ runtimes \in [Inputs -> RuntimeRecord]
      /\ k.id \in Inputs
      /\ \A id \in Inputs : DirectorySound(id)
      /\ \A q \in Preparers : PreparerHolds(q) /\ Target(q) \in Inputs
      /\ OwnersApart
  BY DEF RecordsInv, RecordsTyped, PreparerMoves, PreparationRecord, Target
<1>2. /\ preparation' \in [Preparers -> PreparationRecord] /\ preparation'[p] = k
      /\ \A q \in Preparers \ {p} : preparation'[q] = preparation[q]
      /\ Target(p)' = k.id
      /\ \A q \in Preparers \ {p} : Target(q)' = Target(q)
  BY <1>1 DEF PreparerMoves, Target
<1>3. /\ runtimes' \in [Inputs -> RuntimeRecord] /\ runtimes'[k.id] = d
      /\ \A id \in Inputs : id # k.id => runtimes'[id] = runtimes[id]
      /\ UNCHANGED <<wheels, basePython>>
  BY <1>1 DEF PreparerMoves, DirectoryBecomes
<1>4. ASSUME NEW id \in Inputs PROVE DirectorySound(id)'
  <2>1. CASE id = k.id
    BY <1>3, <2>1 DEF DirectorySound
  <2>2. CASE id # k.id
    BY <1>1, <1>3, <2>2 DEF DirectorySound
  <2> QED
    BY <2>1, <2>2
<1>5. PreparerHolds(p)'
  BY <1>2, <1>3 DEF PreparerHolds
\* Nobody else is at work in the directory.
<1>6. ASSUME NEW q \in Preparers \ {p}, preparation[q].step \in Owning, Target(q) = k.id
      PROVE  d = runtimes[k.id] /\ k.step \notin Owning
  <2>1. runtimes[k.id].made
    BY <1>1, <1>6 DEF PreparerHolds
  <2>2. preparation[p].step \notin Owning
    <3>1. preparation[p].step \in Owning => k.id = Target(p)
      BY DEF Owning
    <3> QED
      BY <1>1, <1>6, <3>1 DEF OwnersApart
  <2> QED
    BY <2>1, <2>2
<1>7. ASSUME NEW q \in Preparers \ {p} PROVE PreparerHolds(q)'
  <2>1. PreparerHolds(q) /\ preparation'[q] = preparation[q] /\ Target(q)' = Target(q)
    BY <1>1, <1>2
  <2>2. CASE preparation[q].step \in Owning
    <3>1. runtimes'[Target(q)] = runtimes[Target(q)]
      BY <1>1, <1>3, <1>6, <2>2
    <3> QED
      BY <1>3, <2>1, <3>1 DEF PreparerHolds
  <2>3. CASE preparation[q].step \notin Owning
    BY <2>1, <2>3 DEF PreparerHolds, Owning
  <2> QED
    BY <2>2, <2>3
<1>8. OwnersApart'
  <2> SUFFICES ASSUME NEW q \in Preparers, NEW s \in Preparers, q # s,
                      preparation'[q].step \in Owning, preparation'[s].step \in Owning,
                      Target(q)' = Target(s)'
               PROVE  FALSE
    BY DEF OwnersApart
  <2>1. CASE q = p
    BY <1>2, <1>6, <2>1
  <2>2. CASE s = p
    BY <1>2, <1>6, <2>2
  <2>3. CASE q # p /\ s # p
    BY <1>1, <1>2, <2>3 DEF OwnersApart
  <2> QED
    BY <2>1, <2>2, <2>3
<1>9. \A id \in Inputs : runtimes[id].manifest => runtimes'[id] = runtimes[id]
  BY <1>3
<1> QED
  BY <1>2, <1>3, <1>4, <1>5, <1>7, <1>8, <1>9 DEF PreparationKept

LEMMA PreparationKeeps ==
  ASSUME RecordsInv, NEW p \in Preparers, PreparationStep(p)
  PROVE  PreparationKept /\ UNCHANGED <<wheels, basePython>>
<1> DEFINE old == preparation[p]
           dir(id) == runtimes[id]
           To(step) == [old EXCEPT !.step = step]
<1>1. /\ preparation \in [Preparers -> PreparationRecord] /\ old \in PreparationRecord
      /\ old.id \in Inputs /\ Target(p) = old.id /\ PreparerHolds(p)
      /\ runtimes \in [Inputs -> RuntimeRecord]
      /\ wheels \in Nat /\ basePython \in Nat
      /\ \A id \in Inputs : dir(id) \in RuntimeRecord /\ DirectorySound(id)
                            /\ id.wheels \in Nat /\ id.python \in Nat
      /\ wheels <= HostEdits + 1 /\ basePython <= HostEdits + 1
  <2>1. /\ preparation \in [Preparers -> PreparationRecord] /\ old \in PreparationRecord
        /\ runtimes \in [Inputs -> RuntimeRecord]
        /\ wheels \in Nat /\ basePython \in Nat
        /\ PreparerHolds(p) /\ \A id \in Inputs : DirectorySound(id)
    BY DEF RecordsInv, RecordsTyped
  <2>2. old.id \in Inputs /\ Target(p) = old.id
    BY <2>1 DEF PreparationRecord, Target
  <2>3. \A id \in Inputs : id.wheels \in Nat /\ id.python \in Nat
    BY EditsAssumption DEF Inputs, Versions
  <2>4. wheels <= HostEdits + 1 /\ basePython <= HostEdits + 1
    BY EditsAssumption DEF RecordsInv, RecordsTyped, Numbered
  <2>5. \A id \in Inputs : dir(id) \in RuntimeRecord
    BY <2>1
  <2> HIDE DEF dir
  <2> QED
    BY <2>1, <2>2, <2>3, <2>4, <2>5
<1>2. ASSUME NEW step \in PreparationSteps
      PROVE  /\ To(step) \in PreparationRecord /\ To(step).step = step /\ To(step).id = old.id
             /\ PreparationGoto(p, step) => preparation' = [preparation EXCEPT ![p] = To(step)]
  BY <1>1 DEF PreparationGoto, PreparationRecord
<1>3. \A id \in Inputs : runtimes' = runtimes => DirectoryBecomes(id, dir(id))
  BY <1>1 DEF DirectoryBecomes
<1> HIDE DEF To
\* The steps that change nothing but how far the preparer is.
<1>4. ASSUME NEW step \in PreparationSteps, PreparationGoto(p, step), old.step # "idle",
             UNCHANGED <<wheels, basePython, runtimes>>,
             step \in Owning => old.step \in Owning,
             step \in {"probing", "building", "observing", "recording"} =>
               dir(old.id).wheels = old.id.wheels,
             step \in {"building", "observing"} => old.id.python <= basePython,
             step \in {"observing", "recording"} => dir(old.id).tree = "built",
             step = "observing" => old.id.python <= dir(old.id).python,
             step = "recording" => dir(old.id).python = old.id.python
      PROVE  PreparationKept
  <2>1. PreparerMoves(p, To(step), dir(old.id))
    BY <1>1, <1>2, <1>3, <1>4 DEF PreparerMoves
  <2>2. old.step \in Owning => dir(old.id).made /\ ~ dir(old.id).manifest
    BY <1>1 DEF PreparerHolds
  <2>3. DirectorySound(old.id)
    BY <1>1
  <2> QED
    BY <1>1, <1>2, <1>4, <2>1, <2>2, <2>3, PreparerMoved DEF DirectorySound, MoveAllowed
\* The steps that change the directory.
<1>5. ASSUME NEW step \in PreparationSteps \ {"idle"}, PreparationGoto(p, step), old.step # "idle",
             UNCHANGED <<wheels, basePython>>,
             NEW d \in RuntimeRecord, DirectoryBecomes(old.id, d),
             ~ dir(old.id).manifest, old.step \in Owning \/ ~ dir(old.id).made,
             d.made, step \in Owning => ~ d.manifest,
             d.manifest => /\ d.wheels = old.id.wheels /\ d.python = old.id.python
                           /\ d.tree # "none",
             d.wheels <= wheels, d.python <= basePython,
             step \in {"probing", "building", "observing", "recording"} =>
               d.wheels = old.id.wheels,
             step \in {"building", "observing"} => old.id.python <= basePython,
             step \in {"observing", "recording"} => d.tree = "built",
             step = "observing" => old.id.python <= d.python,
             step = "recording" => d.python = old.id.python
      PROVE  PreparationKept
  <2>1. PreparerMoves(p, To(step), d)
    BY <1>1, <1>2, <1>5 DEF PreparerMoves
  <2> QED
    BY <1>1, <1>2, <1>5, <2>1, PreparerMoved DEF MoveAllowed
<1>6. CASE PlanRuntime(p)
  <2>1. PICK id \in [wheels : 1..wheels, python : 1..basePython] :
          preparation' = [preparation EXCEPT
            ![p] = [id |-> id, step |-> IF id = CurrentInputs /\ ~ runtimes[id].made
                                        THEN "creating" ELSE "failed"]]
    BY <1>6 DEF PlanRuntime
  <2> DEFINE next == IF id = CurrentInputs /\ ~ runtimes[id].made THEN "creating" ELSE "failed"
             k == [id |-> id, step |-> next]
  <2>2. id \in Inputs
    BY <1>1, EditsAssumption DEF Inputs, Versions
  <2>3. next \in {"creating", "failed"}
    OBVIOUS
  <2>4. preparation' = [preparation EXCEPT ![p] = k]
    BY <2>1
  <2> HIDE DEF next
  <2>5. k \in PreparationRecord /\ k.id = id /\ k.step = next
    BY <2>2, <2>3 DEF PreparationRecord, PreparationSteps
  <2> HIDE DEF k
  <2>6. PreparerMoves(p, k, dir(id))
    BY <1>1, <1>3, <1>6, <2>2, <2>4, <2>5 DEF PreparerMoves, PlanRuntime
  <2>7. old.step = "idle" /\ DirectorySound(id)
    BY <1>1, <1>6, <2>2 DEF PlanRuntime, PreparationAt
  <2>8. k.step \notin Owning /\ old.step \notin Owning
    BY <2>3, <2>5, <2>7 DEF Owning
  <2>9. PICK d : d = runtimes[k.id]
    OBVIOUS
  <2>10. /\ ~ d.made => ~ d.manifest
         /\ d.manifest => d.wheels = k.id.wheels /\ d.python = k.id.python /\ d.tree # "none"
         /\ d.wheels <= wheels /\ d.python <= basePython
    BY <2>5, <2>7, <2>9 DEF DirectorySound
  <2>11. k.step \notin {"probing", "building", "observing", "recording"}
    BY <2>3, <2>5
  <2>12. PreparerMoves(p, k, d)
    BY <2>5, <2>6, <2>9
  <2>13. /\ preparation[p].step = "idle" /\ d = runtimes[k.id]
         /\ k.step \notin Owning
         /\ k.step # "observing" /\ k.step # "recording"
         /\ k.step \notin {"building", "observing"} /\ k.step \notin {"observing", "recording"}
    BY <2>7, <2>8, <2>9, <2>11
  <2>14. ASSUME k.step \in Owning PROVE d.made /\ ~ d.manifest /\ ~ runtimes[k.id].made
    BY <2>13, <2>14
  <2> HIDE DEF dir, old
  <2> QED
    <3>1. MoveAllowed(p, k, d)
      BY <2>10, <2>11, <2>13, <2>14 DEF MoveAllowed
    <3> QED
      BY <2>12, <3>1, PreparerMoved DEF PreparerMoves
<1>7. CASE CreateDestination(p)
  <2>1. old.step = "creating" /\ UNCHANGED <<wheels, basePython>>
    BY <1>7 DEF CreateDestination, PreparationAt
  <2>2. CASE PreparationGoto(p, "failed") /\ runtimes' = runtimes
    BY <1>4, <2>1, <2>2 DEF PreparationSteps, Owning
  <2>3. CASE /\ ~ dir(old.id).made /\ PreparationGoto(p, "copying")
             /\ runtimes' = [runtimes EXCEPT ![old.id].made = TRUE]
    <3> DEFINE d == [dir(old.id) EXCEPT !.made = TRUE]
    <3>1. /\ d \in RuntimeRecord /\ d.made /\ d.manifest = dir(old.id).manifest
          /\ d.wheels = dir(old.id).wheels /\ d.python = dir(old.id).python
      BY <1>1 DEF RuntimeRecord
    <3>2. DirectoryBecomes(old.id, d)
      BY <1>1, <2>3 DEF DirectoryBecomes
    <3> HIDE DEF d
    <3>3. /\ ~ dir(old.id).manifest
          /\ dir(old.id).wheels <= wheels /\ dir(old.id).python <= basePython
      BY <1>1, <2>3 DEF DirectorySound
    <3> QED
      BY <1>5, <2>1, <2>3, <3>1, <3>2, <3>3 DEF PreparationSteps
  <2> QED
    BY <1>1, <1>7, <2>2, <2>3 DEF CreateDestination, First
<1>8. CASE CopyInputs(p)
  <2>1. /\ old.step = "copying" /\ UNCHANGED <<wheels, basePython>>
        /\ dir(old.id).made /\ ~ dir(old.id).manifest /\ dir(old.id).python <= basePython
    BY <1>1, <1>8 DEF CopyInputs, PreparationAt, PreparerHolds, DirectorySound, Owning
  <2>2. CASE PreparationGoto(p, "failed") /\ runtimes' = runtimes
    BY <1>4, <2>1, <2>2 DEF PreparationSteps, Owning
  <2>3. CASE /\ wheels = old.id.wheels /\ PreparationGoto(p, "probing")
             /\ runtimes' = [runtimes EXCEPT ![old.id].wheels = wheels]
    <3> DEFINE d == [dir(old.id) EXCEPT !.wheels = wheels]
    <3>1. /\ d \in RuntimeRecord /\ d.made /\ ~ d.manifest
          /\ d.wheels = wheels /\ d.python = dir(old.id).python
      BY <1>1, <2>1 DEF RuntimeRecord
    <3>2. DirectoryBecomes(old.id, d)
      BY <1>1, <2>3 DEF DirectoryBecomes
    <3> HIDE DEF d
    <3>3. d.wheels <= wheels
      BY <1>1, <3>1
    <3> QED
      BY <1>5, <2>1, <2>3, <3>1, <3>2, <3>3 DEF PreparationSteps, Owning
  <2> QED
    BY <1>1, <1>8, <2>2, <2>3 DEF CopyInputs, AsPlanned
<1>9. CASE ProbePython(p)
  <2>1. /\ old.step = "probing" /\ UNCHANGED <<wheels, basePython, runtimes>>
        /\ dir(old.id).wheels = old.id.wheels
    BY <1>1, <1>9 DEF ProbePython, PreparationAt, PreparerHolds
  <2>2. \/ PreparationGoto(p, "failed")
        \/ PreparationGoto(p, "building") /\ basePython = old.id.python
    BY <1>1, <1>9 DEF ProbePython
  <2> QED
    BY <1>1, <1>4, <2>1, <2>2 DEF PreparationSteps, Owning
<1>10. CASE BuildRuntime(p)
  <2> DEFINE d == [dir(old.id) EXCEPT !.tree = "built", !.python = basePython]
  <2>1. /\ old.step = "building" /\ UNCHANGED <<wheels, basePython>>
        /\ dir(old.id).made /\ ~ dir(old.id).manifest /\ dir(old.id).wheels <= wheels
        /\ dir(old.id).wheels = old.id.wheels /\ old.id.python <= basePython
        /\ PreparationGoto(p, "observing") /\ basePython <= basePython
    BY <1>1, <1>10 DEF BuildRuntime, PreparationAt, PreparerHolds, DirectorySound, Owning
  <2>2. /\ d \in RuntimeRecord /\ d.made /\ ~ d.manifest /\ d.tree = "built"
        /\ d.wheels = dir(old.id).wheels /\ d.python = basePython
    BY <1>1, <2>1 DEF RuntimeRecord
  <2>3. DirectoryBecomes(old.id, d)
    BY <1>1, <1>10 DEF BuildRuntime, DirectoryBecomes
  <2> HIDE DEF d
  <2> QED
    BY <1>5, <2>1, <2>2, <2>3 DEF PreparationSteps, Owning
<1>11. CASE ObservePackage(p)
  <2>1. /\ old.step = "observing" /\ UNCHANGED <<wheels, basePython, runtimes>>
        /\ dir(old.id).wheels = old.id.wheels /\ dir(old.id).tree = "built"
        /\ old.id.python <= dir(old.id).python /\ dir(old.id).python <= basePython
        /\ dir(old.id).python \in Nat
    BY <1>1, <1>11 DEF ObservePackage, PreparationAt, PreparerHolds, DirectorySound, RuntimeRecord
  <2>2. \/ PreparationGoto(p, "failed")
        \/ PreparationGoto(p, "recording") /\ basePython = old.id.python
    BY <1>1, <1>11 DEF ObservePackage
  <2>3. basePython = old.id.python => dir(old.id).python = old.id.python
    BY <1>1, <2>1
  <2> QED
    BY <1>1, <1>4, <2>1, <2>2, <2>3 DEF PreparationSteps, Owning
<1>12. CASE RecordManifest(p)
  <2> DEFINE d == [dir(old.id) EXCEPT !.manifest = TRUE]
  <2>1. /\ old.step = "recording" /\ UNCHANGED <<wheels, basePython>>
        /\ dir(old.id).made /\ ~ dir(old.id).manifest
        /\ dir(old.id).wheels <= wheels /\ dir(old.id).python <= basePython
        /\ dir(old.id).wheels = old.id.wheels /\ dir(old.id).python = old.id.python
        /\ dir(old.id).tree = "built"
        /\ PreparationGoto(p, "judging")
    BY <1>1, <1>12 DEF RecordManifest, PreparationAt, PreparerHolds, DirectorySound, Owning
  <2>2. /\ d \in RuntimeRecord /\ d.made /\ d.tree = dir(old.id).tree
        /\ d.wheels = dir(old.id).wheels /\ d.python = dir(old.id).python
    BY <1>1, <2>1 DEF RuntimeRecord
  <2>3. DirectoryBecomes(old.id, d)
    BY <1>1, <1>12 DEF RecordManifest, DirectoryBecomes
  <2> HIDE DEF d
  <2> QED
    BY <1>5, <2>1, <2>2, <2>3 DEF PreparationSteps, Owning
<1>13. CASE JudgeRuntime(p)
  <2>1. old.step = "judging" /\ UNCHANGED <<wheels, basePython, runtimes>>
    BY <1>13 DEF JudgeRuntime, PreparationAt
  <2>2. PreparationGoto(p, "failed") \/ PreparationGoto(p, "prepared")
    BY <1>13 DEF JudgeRuntime
  <2> QED
    BY <1>4, <2>1, <2>2 DEF PreparationSteps, Owning
<1>14. CASE PreparationStops(p)
  <2>1. /\ old.step # "idle" /\ UNCHANGED <<wheels, basePython, runtimes>>
        /\ PreparationGoto(p, "failed")
    BY <1>14 DEF PreparationStops, Ended
  <2> QED
    BY <1>4, <2>1 DEF PreparationSteps, Owning
<1>15. UNCHANGED <<wheels, basePython>>
  BY DEF PreparationStep, PlanRuntime, CreateDestination, CopyInputs, ProbePython, BuildRuntime,
         ObservePackage, RecordManifest, JudgeRuntime, PreparationStops
<1> QED
  BY <1>6, <1>7, <1>8, <1>9, <1>10, <1>11, <1>12, <1>13, <1>14, <1>15 DEF PreparationStep

-----------------------------------------------------------------------------
\* What two sequences put together hold, under a name.
Cat(s, t) == s \o t
IsJoin(w, s, t) ==
  /\ w \in Seq(Kinds) /\ Len(w) = Len(s) + Len(t)
  /\ \A i \in 1..Len(s) : w[i] = s[i]
  /\ \A i \in 1..Len(t) : w[Len(s) + i] = t[i]

LEMMA Joined ==
  ASSUME NEW s \in Seq(Kinds), NEW t \in Seq(Kinds)
  PROVE  IsJoin(Cat(s, t), s, t)
<1> DEFINE w == Cat(s, t)
<1>1. w \in Seq(Kinds) /\ Len(w) = Len(s) + Len(t)
  BY DEF Cat
<1>2. ASSUME NEW i \in 1..(Len(s) + Len(t))
      PROVE  w[i] = IF i <= Len(s) THEN s[i] ELSE t[i - Len(s)]
  BY DEF Cat
<1>3. Len(s) \in Nat /\ Len(t) \in Nat
  OBVIOUS
<1> HIDE DEF w
<1>4. ASSUME NEW i \in 1..Len(t) PROVE w[Len(s) + i] = t[i]
  <2>1. PICK j \in 1..(Len(s) + Len(t)) : j = Len(s) + i /\ ~ (j <= Len(s)) /\ j - Len(s) = i
    BY <1>3
  <2> QED
    BY <1>2, <2>1
<1>5. ASSUME NEW i \in 1..Len(s) PROVE w[i] = s[i]
  <2>1. i \in 1..(Len(s) + Len(t)) /\ i <= Len(s)
    BY <1>3
  <2> QED
    BY <1>2, <2>1
<1>6. IsJoin(w, s, t)
  BY <1>1, <1>4, <1>5 DEF IsJoin
<1> QED
  BY <1>6 DEF w

LEMMA PairingIs ==
  /\ PairingReads \in Seq(Kinds) /\ Len(PairingReads) = 4
  /\ PairingReads[1] = "record" /\ PairingReads[2] = "runtime"
  /\ PairingReads[3] = "record" /\ PairingReads[4] = "runtime"
BY DEF PairingReads, Kinds

LEMMA LaunchIs ==
  /\ LaunchReads \in Seq(Kinds) /\ Len(LaunchReads) = 10
  /\ \A i \in {1, 3, 7, 9} : LaunchReads[i] = "record"
  /\ \A i \in {2, 4, 8, 10} : LaunchReads[i] = "runtime"
  /\ \A i \in {5, 6} : LaunchReads[i] = "launcher"
<1> DEFINE pair == <<"launcher", "launcher">>
           front == PairingReads \o pair
<1>1. pair \in Seq(Kinds) /\ Len(pair) = 2 /\ pair[1] = "launcher" /\ pair[2] = "launcher"
  BY DEF Kinds
<1> HIDE DEF pair
<1>2. /\ front \in Seq(Kinds) /\ Len(front) = 4 + 2
      /\ \A i \in 1..4 : front[i] = PairingReads[i]
      /\ \A i \in 1..2 : front[4 + i] = pair[i]
  <2>1. front = Cat(PairingReads, pair)
    BY DEF Cat
  <2> HIDE DEF front
  <2>2. IsJoin(front, PairingReads, pair)
    BY <1>1, <2>1, PairingIs, Joined
  <2> QED
    BY <1>1, <2>2, PairingIs DEF IsJoin
<1> HIDE DEF front
<1>3. IsJoin(LaunchReads, front, PairingReads)
  <2>1. LaunchReads = Cat(front, PairingReads)
    BY DEF LaunchReads, front, pair, Cat
  <2> QED
    BY <1>2, <2>1, PairingIs, Joined
<1>4. /\ LaunchReads \in Seq(Kinds) /\ Len(LaunchReads) = 6 + 4
      /\ \A i \in 1..6 : LaunchReads[i] = front[i]
      /\ \A i \in 1..4 : LaunchReads[6 + i] = PairingReads[i]
  BY <1>2, <1>3, PairingIs DEF IsJoin
<1>5. front[5] = "launcher" /\ front[6] = "launcher"
  <2>1. front[4 + 1] = "launcher" /\ front[4 + 2] = "launcher"
    BY <1>1, <1>2
  <2> QED
    BY <2>1
<1>6. /\ LaunchReads[6 + 1] = "record" /\ LaunchReads[6 + 2] = "runtime"
      /\ LaunchReads[6 + 3] = "record" /\ LaunchReads[6 + 4] = "runtime"
  BY <1>4, PairingIs
<1>7. /\ LaunchReads[1] = "record" /\ LaunchReads[2] = "runtime"
      /\ LaunchReads[3] = "record" /\ LaunchReads[4] = "runtime"
      /\ LaunchReads[5] = "launcher" /\ LaunchReads[6] = "launcher"
  BY <1>2, <1>4, <1>5, PairingIs
<1> QED
  BY <1>4, <1>6, <1>7

LEMMA LoadedIs ==
  /\ LoadedReads \in Seq(Kinds) /\ Len(LoadedReads) = 34
  /\ \A i \in 1..10 : /\ LoadedReads[i] = LaunchReads[i]
                      /\ LoadedReads[11 + i] = LaunchReads[i]
                      /\ LoadedReads[24 + i] = LaunchReads[i]
  /\ LoadedReads[11] = "registration" /\ LoadedReads[24] = "registration"
  /\ LoadedReads[22] = "job" /\ LoadedReads[23] = "job"
<1> DEFINE one == <<"registration">>
           three == <<"job", "job", "registration">>
           c == LaunchReads \o one
           d == c \o LaunchReads
           e == d \o three
<1>1. /\ one \in Seq(Kinds) /\ Len(one) = 1 /\ one[1] = "registration"
      /\ three \in Seq(Kinds) /\ Len(three) = 3
      /\ three[1] = "job" /\ three[2] = "job" /\ three[3] = "registration"
  BY DEF Kinds
<1>2. LoadedReads = Cat(e, LaunchReads)
  BY DEF LoadedReads, Cat
<1> HIDE DEF one, three
<1>3. /\ c \in Seq(Kinds) /\ Len(c) = 10 + 1
      /\ \A i \in 1..10 : c[i] = LaunchReads[i]
      /\ \A i \in 1..1 : c[10 + i] = one[i]
  <2>1. c = Cat(LaunchReads, one)
    BY DEF Cat
  <2> HIDE DEF c
  <2>2. IsJoin(c, LaunchReads, one)
    BY <1>1, LaunchIs, <2>1, Joined
  <2> QED
    BY <1>1, LaunchIs, <2>2 DEF IsJoin
<1> HIDE DEF c
<1>4. /\ d \in Seq(Kinds) /\ Len(d) = 11 + 10
      /\ \A i \in 1..11 : d[i] = c[i]
      /\ \A i \in 1..10 : d[11 + i] = LaunchReads[i]
  <2>1. d = Cat(c, LaunchReads)
    BY DEF Cat
  <2> HIDE DEF d
  <2>2. IsJoin(d, c, LaunchReads)
    BY <1>3, LaunchIs, <2>1, Joined
  <2> QED
    BY <1>3, LaunchIs, <2>2 DEF IsJoin
<1> HIDE DEF d
<1>5. /\ e \in Seq(Kinds) /\ Len(e) = 21 + 3
      /\ \A i \in 1..21 : e[i] = d[i]
      /\ \A i \in 1..3 : e[21 + i] = three[i]
  <2>1. e = Cat(d, three)
    BY DEF Cat
  <2> HIDE DEF e
  <2>2. IsJoin(e, d, three)
    BY <1>1, <1>4, <2>1, Joined
  <2> QED
    BY <1>1, <1>4, <2>2 DEF IsJoin
<1> HIDE DEF e
<1>6. /\ LoadedReads \in Seq(Kinds) /\ Len(LoadedReads) = 24 + 10
      /\ \A i \in 1..24 : LoadedReads[i] = e[i]
      /\ \A i \in 1..10 : LoadedReads[24 + i] = LaunchReads[i]
  <2>1. IsJoin(LoadedReads, e, LaunchReads)
    BY <1>2, <1>5, LaunchIs, Joined
  <2> QED
    BY <1>5, <2>1, LaunchIs DEF IsJoin
<1>7. ASSUME NEW i \in 1..10 PROVE LoadedReads[i] = LaunchReads[i]
  <2>1. i \in 1..11 /\ i \in 1..21 /\ i \in 1..24
    OBVIOUS
  <2> QED
    BY <2>1, <1>3, <1>4, <1>5, <1>6
<1>8. ASSUME NEW i \in 1..10 PROVE LoadedReads[11 + i] = LaunchReads[i]
  <2>1. 11 + i \in 1..21 /\ 11 + i \in 1..24
    OBVIOUS
  <2> QED
    BY <2>1, <1>4, <1>5, <1>6
<1>9. LoadedReads[11] = "registration"
  <2>1. c[10 + 1] = "registration"
    BY <1>1, <1>3
  <2>2. c[11] = "registration"
    BY <2>1
  <2>3. LoadedReads[11] = e[11] /\ e[11] = d[11] /\ d[11] = c[11]
    BY <1>4, <1>5, <1>6
  <2> QED
    BY <2>2, <2>3
<1>10. LoadedReads[22] = "job" /\ LoadedReads[23] = "job" /\ LoadedReads[24] = "registration"
  <2>1. e[21 + 1] = "job" /\ e[21 + 2] = "job" /\ e[21 + 3] = "registration"
    BY <1>1, <1>5
  <2> QED
    BY <2>1, <1>6
<1> QED
  BY <1>6, <1>7, <1>8, <1>9, <1>10

\* What a review reads next, by how many reads are left.
LEMMA NextRead ==
  ASSUME NEW n \in 1..34
  PROVE  /\ LoadedReads[35 - n] \in Kinds
         /\ LoadedReads[35 - n] = "job" => n \in {12, 13}
         /\ LoadedReads[35 - n] = "launcher" => n \in {5, 6, 18, 19, 29, 30}
         /\ LoadedReads[35 - n] = "registration" => n \in {11, 24}
         /\ n \in {30, 29} => LoadedReads[35 - n] = "launcher"
         /\ n \in {3, 9, 33} => LoadedReads[35 - n] = "runtime"
         /\ n \in {4, 10, 34} => LoadedReads[35 - n] = "record"
<1>1. PICK i \in 1..34 : i = 35 - n
  OBVIOUS
<1>2. LoadedReads[i] \in Kinds
  <2>1. LoadedReads \in Seq(Kinds) /\ Len(LoadedReads) = 34
    BY LoadedIs
  <2> HIDE DEF LoadedReads
  <2> QED
    BY <2>1, ElementOfSeq
<1>3. CASE i \in 1..10
  <2>1. LoadedReads[i] = LaunchReads[i]
    BY <1>3, LoadedIs
  <2> QED
    BY <1>1, <1>2, <1>3, <2>1, LaunchIs
<1>4. CASE i \in 12..21
  <2>1. PICK j \in 1..10 : i = 11 + j
    <3>1. i - 11 \in 1..10 /\ i = 11 + (i - 11)
      BY <1>4
    <3> QED
      BY <3>1
  <2>2. LoadedReads[i] = LaunchReads[j]
    BY <2>1, LoadedIs
  <2>3. j = 24 - n
    BY <1>1, <2>1
  <2> QED
    BY <1>1, <1>2, <1>4, <2>1, <2>2, <2>3, LaunchIs
<1>5. CASE i \in 25..34
  <2>1. PICK j \in 1..10 : i = 24 + j
    <3>1. i - 24 \in 1..10 /\ i = 24 + (i - 24)
      BY <1>5
    <3> QED
      BY <3>1
  <2>2. LoadedReads[i] = LaunchReads[j]
    BY <2>1, LoadedIs
  <2>3. j = 11 - n
    BY <1>1, <2>1
  <2> QED
    BY <1>1, <1>2, <1>5, <2>1, <2>2, <2>3, LaunchIs
<1>6. CASE i \in {11, 22, 23, 24}
  <2>1. \/ i = 11 /\ n = 24
        \/ i = 22 /\ n = 13
        \/ i = 23 /\ n = 12
        \/ i = 24 /\ n = 11
    BY <1>1, <1>6
  <2>2. /\ LoadedReads[11] = "registration" /\ LoadedReads[24] = "registration"
        /\ LoadedReads[22] = "job" /\ LoadedReads[23] = "job"
    BY LoadedIs
  <2>3. LoadedReads[35 - n] = LoadedReads[i]
    BY <1>1
  <2> HIDE DEF LoadedReads
  <2> QED
    BY <1>2, <2>1, <2>2, <2>3
<1>7. i \in 1..10 \/ i \in 12..21 \/ i \in 25..34 \/ i \in {11, 22, 23, 24}
  BY <1>1
<1> QED
  BY <1>3, <1>4, <1>5, <1>6, <1>7

\* The reads after which less is left to confirm.
LEMMA LastReads ==
  /\ LoadedReads[35 - 2] = "record" /\ LoadedReads[35 - 1] = "runtime"
  /\ LoadedReads[35 - 5] = "launcher" /\ LoadedReads[35 - 12] = "job"
<1>1. LoadedReads[24 + 9] = "record" /\ LoadedReads[24 + 10] = "runtime" /\ LoadedReads[24 + 6] = "launcher"
  BY LoadedIs, LaunchIs
<1>2. LoadedReads[23] = "job"
  BY LoadedIs
<1> QED
  BY <1>1, <1>2

LEMMA SuffixesOfLoaded ==
  /\ \A j \in 1..4 : PairingReads[j] = LoadedReads[30 + j]
  /\ \A j \in 1..10 : LaunchReads[j] = LoadedReads[24 + j]
<1>1. ASSUME NEW j \in 1..4 PROVE PairingReads[j] = LoadedReads[30 + j]
  <2>1. PICK i \in 1..10 : i = 6 + j
    OBVIOUS
  <2>2. LoadedReads[24 + i] = LaunchReads[i]
    BY LoadedIs
  <2>3. PairingReads[j] = LaunchReads[i]
    BY <2>1, PairingIs, LaunchIs
  <2>4. 24 + i = 30 + j
    BY <2>1
  <2> QED
    BY <2>2, <2>3, <2>4
<1>2. \A j \in 1..10 : LaunchReads[j] = LoadedReads[24 + j]
  BY LoadedIs
<1> QED
  BY <1>1, <1>2

-----------------------------------------------------------------------------
(* A review keeps what it holds while others write. *)

\* What later steps leave true of what was read: a version that is back at what was read
\* never left it.
LEMMA StillWas ==
  ASSUME RecordsInv, RecordsTyped', Forward, NEW r \in Reviewers, review'[r] = review[r],
         ReviewerHolds(r), RuntimeWasRead(r), StillToConfirm(r)'
  PROVE  StillToConfirm(r)
<1> DEFINE id == review[r].id
<1>1. /\ review[r] \in ReviewRecord /\ id \in Inputs
      /\ Left(r) \in Nat /\ Left(r)' = Left(r)
      /\ review[r].launcher \in Nat /\ review[r].job \in Nat
  BY DEF RecordsInv, RecordsTyped, ReviewRecord, Left
<1>2. /\ registration \in Nat /\ basePython \in Nat /\ launcher \in Nat /\ job \in Nat
      /\ registration' \in Nat /\ basePython' \in Nat /\ launcher' \in Nat /\ job' \in Nat
  BY DEF RecordsInv, RecordsTyped
<1>3. id.python \in Nat
  BY <1>1, EditsAssumption DEF Inputs, Versions
<1>4. /\ adopted # NoRecord /\ Readable /\ runtimes[id].manifest
      /\ review[r].launcher <= launcher /\ review[r].job <= job
  BY <1>1 DEF ReviewerHolds, RuntimeWasRead, RecordWasRead
<1>5. adopted' = adopted /\ adopted.digest \in Nat /\ adopted.digest <= registration
  BY <1>4, RecordsDiffer DEF Forward, RecordsInv, RecordsTyped, Numbered
<1>6. Left(r) >= 2 => RecordHolds
  BY <1>1, <1>2, <1>4, <1>5 DEF StillToConfirm, RecordHolds, Forward
<1>7. Left(r) >= 1 => Prepared(id)
  <2>1. Prepared(id)' <=> runtimes'[id].manifest /\ runtimes'[id].tree = "built" /\ basePython' = id.python
    BY DEF Prepared, TreeMatches
  <2>2. Left(r) >= 1 => runtimes'[id].tree = "built" /\ basePython' = id.python
    BY <1>1, <2>1 DEF StillToConfirm
  <2>3. runtimes[id].python = id.python /\ runtimes[id].python <= basePython
    BY <1>1, <1>4 DEF RecordsInv, DirectorySound
  <2> QED
    BY <1>1, <1>2, <1>3, <1>4, <2>2, <2>3 DEF Forward, Prepared, TreeMatches
<1>8. Left(r) >= 5 => Same(review[r].launcher, launcher)
  BY <1>1, <1>2, <1>4 DEF StillToConfirm, Same, Forward
<1>9. Left(r) >= 12 => Same(review[r].job, job)
  BY <1>1, <1>2, <1>4 DEF StillToConfirm, Same, Forward
<1> QED
  BY <1>6, <1>7, <1>8, <1>9 DEF StillToConfirm

LEMMA ReviewKeptBesideOthers ==
  ASSUME RecordsInv, RecordsTyped', Forward, coexisted \subseteq coexisted',
         NEW r \in Reviewers, review'[r] = review[r]
  PROVE  ReviewSound(r)'
<1>1. ReviewSound(r) /\ review[r] \in ReviewRecord /\ review[r].id \in Inputs
  BY DEF RecordsInv, RecordsTyped, ReviewRecord
<1>2. SawAMoment(r) => SawAMoment(r)'
  BY DEF SawAMoment
<1>3. ASSUME ReviewerHolds(r) PROVE ReviewerHolds(r)'
  <2>1. /\ Left(r)' = Left(r)
        /\ RecordWasRead(r)' <=> RecordWasRead(r)
        /\ RuntimeWasRead(r)' <=> RuntimeWasRead(r)
    BY DEF Left, RecordWasRead, RuntimeWasRead
  <2>2. /\ launcher \in Nat /\ launcher' \in Nat /\ job \in Nat /\ job' \in Nat
        /\ review[r].launcher \in Nat /\ review[r].job \in Nat
    BY <1>1 DEF RecordsInv, RecordsTyped, ReviewRecord
  <2>3. review'[r].launcher <= launcher' /\ review'[r].job <= job'
    BY <1>3, <2>2 DEF ReviewerHolds, Forward
  <2>4. RecordWasRead(r) => adopted' # NoRecord /\ Readable'
    BY <1>3 DEF ReviewerHolds, Forward
  <2>5. RuntimeWasRead(r) => runtimes'[review[r].id].manifest
    BY <1>1, <1>3 DEF ReviewerHolds, Forward
  <2>6. RuntimeWasRead(r) /\ StillToConfirm(r)' => SawAMoment(r)'
    BY <1>2, <1>3, StillWas DEF ReviewerHolds
  <2> QED
    BY <1>3, <2>1, <2>3, <2>4, <2>5, <2>6 DEF ReviewerHolds
<1> QED
  BY <1>1, <1>2, <1>3 DEF ReviewSound

-----------------------------------------------------------------------------
(* A review's own steps. *)
ReviewerMoves(r, k) == k \in ReviewRecord /\ review' = [review EXCEPT ![r] = k]

ReviewsKept ==
  /\ review' \in [Reviewers -> ReviewRecord]
  /\ \A r \in Reviewers : ReviewSound(r)'

HostAsItWas ==
  /\ UNCHANGED <<registration, adopted, adoption, wheels, basePython, runtimes, preparation>>
  /\ UNCHANGED <<launcher, job, edits>>
  /\ coexisted \subseteq coexisted'

LEMMA ReviewerMoved ==
  ASSUME RecordsInv, HostAsItWas, NEW r \in Reviewers, NEW k, ReviewerMoves(r, k),
         ReviewSound(r)'
  PROVE  ReviewsKept
<1>1. review \in [Reviewers -> ReviewRecord]
  BY DEF RecordsInv, RecordsTyped
<1>2. /\ review' \in [Reviewers -> ReviewRecord]
      /\ \A s \in Reviewers \ {r} : review'[s] = review[s]
  BY <1>1 DEF ReviewerMoves
<1>3. RecordsTyped'
  BY <1>2 DEF HostAsItWas, RecordsInv, RecordsTyped
<1>4. Forward
  <2>1. registration \in Nat /\ basePython \in Nat /\ launcher \in Nat /\ job \in Nat
    BY DEF RecordsInv, RecordsTyped
  <2> QED
    BY <2>1 DEF Forward, HostAsItWas, Readable
<1>5. ASSUME NEW s \in Reviewers PROVE ReviewSound(s)'
  <2>1. CASE s = r
    BY <2>1
  <2>2. CASE s # r
    BY <1>2, <1>3, <1>4, <2>2, ReviewKeptBesideOthers DEF HostAsItWas
  <2> QED
    BY <2>1, <2>2
<1> QED
  BY <1>2, <1>5 DEF ReviewsKept

LEMMA ReviewBegins ==
  ASSUME RecordsInv, HostAsItWas, NEW r \in Reviewers, BeginReview(r)
  PROVE  ReviewsKept
<1> DEFINE old == review[r]
<1>1. review \in [Reviewers -> ReviewRecord] /\ old \in ReviewRecord /\ ReviewSound(r)
      /\ launcher \in Nat /\ job \in Nat
  BY DEF RecordsInv, RecordsTyped
<1>2. old.step = "idle" /\ old.launcher = 0 /\ old.job = 0
  BY <1>1 DEF BeginReview, ReviewSound
<1>3. PICK id \in Inputs, reads \in {PairingReads, LaunchReads, LoadedReads} :
        review' = [review EXCEPT ![r] = [@ EXCEPT !.step = "reading", !.id = id, !.reads = reads]]
  BY DEF BeginReview
<1> DEFINE k == [old EXCEPT !.step = "reading", !.id = id, !.reads = reads]
<1>4. /\ reads \in Seq(Kinds) /\ Len(reads) \in {4, 10, 34}
      /\ \A j \in 1..Len(reads) : reads[j] = LoadedReads[34 - Len(reads) + j]
  <2>1. CASE reads = PairingReads
    <3>1. reads \in Seq(Kinds) /\ Len(reads) = 4 /\ 34 - Len(reads) = 30
      BY <2>1, PairingIs
    <3>2. \A j \in 1..4 : reads[j] = LoadedReads[30 + j]
      BY <2>1, SuffixesOfLoaded
    <3> QED
      BY <3>1, <3>2
  <2>2. CASE reads = LaunchReads
    <3>1. reads \in Seq(Kinds) /\ Len(reads) = 10 /\ 34 - Len(reads) = 24
      BY <2>2, LaunchIs
    <3>2. \A j \in 1..10 : reads[j] = LoadedReads[24 + j]
      BY <2>2, SuffixesOfLoaded
    <3> QED
      BY <3>1, <3>2
  <2>3. CASE reads = LoadedReads
    <3>1. reads \in Seq(Kinds) /\ Len(reads) = 34 /\ 34 - Len(reads) = 0
      BY <2>3, LoadedIs
    <3>2. \A j \in 1..34 : 0 + j = j
      OBVIOUS
    <3> HIDE DEF LoadedReads
    <3> QED
      BY <2>3, <3>1, <3>2
  <2> QED
    BY <2>1, <2>2, <2>3
<1>5. /\ k \in ReviewRecord /\ k.step = "reading" /\ k.reads = reads
      /\ k.launcher = 0 /\ k.job = 0
  BY <1>1, <1>2, <1>4 DEF ReviewRecord
<1>6. review' = [review EXCEPT ![r] = k]
  BY <1>3
<1> HIDE DEF k
<1>7. review'[r] = k
  BY <1>1, <1>6
<1>8. Left(r)' = Len(reads)
  BY <1>5, <1>7 DEF Left
<1>9. ~ RecordWasRead(r)' /\ ~ RuntimeWasRead(r)'
  BY <1>4, <1>5, <1>7, <1>8 DEF RecordWasRead, RuntimeWasRead
<1>10. ReviewerHolds(r)'
  <2>1. /\ Left(r)' <= 34 /\ review'[r].launcher = 0 /\ review'[r].job = 0
        /\ ~ (Left(r)' \in 11..29)
    <3>1. PICK m \in {4, 10, 34} : m = Len(reads)
      BY <1>4
    <3>2. m <= 34 /\ ~ (m \in 11..29)
      OBVIOUS
    <3> QED
      BY <1>5, <1>7, <1>8, <3>1, <3>2
  <2>2. 0 <= launcher' /\ 0 <= job'
    BY <1>1 DEF HostAsItWas
  <2>3. \A j \in 1..Left(r)' : review'[r].reads[j] = LoadedReads[34 - Left(r)' + j]
    BY <1>4, <1>5, <1>7, <1>8
  <2> QED
    BY <1>9, <2>1, <2>2, <2>3 DEF ReviewerHolds
<1>11. ReviewSound(r)'
  BY <1>5, <1>7, <1>10 DEF ReviewSound
<1> QED
  BY <1>5, <1>6, <1>11, ReviewerMoved DEF ReviewerMoves

LEMMA ReviewFails ==
  ASSUME RecordsInv, HostAsItWas, NEW r \in Reviewers,
         review' = [review EXCEPT ![r] = NotReviewing("failed")]
  PROVE  ReviewsKept
<1> DEFINE k == NotReviewing("failed")
<1>1. k \in ReviewRecord /\ k.step = "failed"
  <2>1. [wheels |-> 1, python |-> 1] \in Inputs
    BY EditsAssumption DEF Inputs, Versions
  <2>2. << >> \in Seq(Kinds)
    OBVIOUS
  <2> QED
    BY <2>1, <2>2 DEF NotReviewing, ReviewRecord
<1>2. review' = [review EXCEPT ![r] = k]
  OBVIOUS
<1> HIDE DEF k
<1>3. review'[r] = k
  BY <1>2 DEF RecordsInv, RecordsTyped
<1>4. ReviewSound(r)'
  BY <1>1, <1>3 DEF ReviewSound
<1> QED
  BY <1>1, <1>2, <1>4, ReviewerMoved DEF ReviewerMoves

LEMMA ReviewEnds ==
  ASSUME RecordsInv, HostAsItWas, NEW r \in Reviewers, EndReview(r)
  PROVE  ReviewsKept
<1> DEFINE old == review[r]
           k == [old EXCEPT !.step = "verified"]
<1>1. /\ review \in [Reviewers -> ReviewRecord] /\ old \in ReviewRecord
      /\ old.step = "reading" /\ ReviewerHolds(r)
  BY DEF RecordsInv, RecordsTyped, ReviewSound, EndReview
<1>2. Left(r) = 0
  BY DEF EndReview, Left
<1>3. SawAMoment(r)
  BY <1>1, <1>2 DEF ReviewerHolds, RuntimeWasRead, StillToConfirm
<1>4. /\ k \in ReviewRecord /\ k.step = "verified" /\ k.id = old.id
      /\ k.launcher = old.launcher /\ k.job = old.job
  BY <1>1 DEF ReviewRecord
<1>5. review' = [review EXCEPT ![r] = k]
  BY <1>1 DEF EndReview
<1> HIDE DEF k
<1>6. review'[r] = k
  BY <1>1, <1>5
<1>7. SawAMoment(r)'
  BY <1>3, <1>4, <1>6 DEF SawAMoment, HostAsItWas
<1>8. ReviewSound(r)'
  BY <1>4, <1>6, <1>7 DEF ReviewSound
<1> QED
  BY <1>4, <1>5, <1>8, ReviewerMoved DEF ReviewerMoves

ReadingExpected(r) ==
  /\ review[r].step = "reading" /\ review[r].reads # << >>
  /\ Holds(r, Head(review[r].reads))

ReadingTaken(r) ==
  review' = [review EXCEPT
    ![r].reads = Tail(@),
    ![r].launcher = IF Head(review[r].reads) = "launcher" THEN launcher ELSE @,
    ![r].job = IF Head(review[r].reads) = "job" THEN job ELSE @]

ReviewBecomes(o, reads, seenLauncher, seenJob) ==
  [o EXCEPT !.reads = reads, !.launcher = seenLauncher, !.job = seenJob]

LEMMA ReviewBecame ==
  ASSUME NEW o \in ReviewRecord, NEW reads, NEW l, NEW j
  PROVE  ReviewBecomes(o, reads, l, j) =
           [step |-> o.step, id |-> o.id, reads |-> reads, launcher |-> l, job |-> j]
<1>1. PICK a, b, c, d, e : o = [step |-> a, id |-> b, reads |-> c, launcher |-> d, job |-> e]
  BY DEF ReviewRecord
<1>2. PICK p : p = [o EXCEPT !.reads = reads]
  OBVIOUS
<1>3. p = [step |-> a, id |-> b, reads |-> reads, launcher |-> d, job |-> e]
  BY <1>1, <1>2
<1>4. PICK q : q = [p EXCEPT !.launcher = l]
  OBVIOUS
<1>5. q = [step |-> a, id |-> b, reads |-> reads, launcher |-> l, job |-> e]
  BY <1>3, <1>4
<1>6. [q EXCEPT !.job = j] = [step |-> a, id |-> b, reads |-> reads, launcher |-> l, job |-> j]
  BY <1>5
<1>7. ReviewBecomes(o, reads, l, j) = [q EXCEPT !.job = j]
  BY <1>2, <1>4 DEF ReviewBecomes
<1>8. o.step = a /\ o.id = b
  BY <1>1
<1> QED
  BY <1>6, <1>7, <1>8

\* One reading that finds what it expects.  What was compared for the first time is what
\* is there, beside the record and the runtime that the remaining reads still confirm.
LEMMA ReviewReads ==
  ASSUME RecordsInv, HostAsItWas, NEW r \in Reviewers,
         ReadingExpected(r), ReadingTaken(r)
  PROVE  ReviewsKept
<1> DEFINE old == review[r]
           next == Head(old.reads)
           seenLauncher == IF next = "launcher" THEN launcher ELSE old.launcher
           seenJob == IF next = "job" THEN job ELSE old.job
           now == [step |-> old.step, id |-> old.id, reads |-> Tail(old.reads),
                   launcher |-> seenLauncher, job |-> seenJob]
<1>1. /\ review \in [Reviewers -> ReviewRecord] /\ old \in ReviewRecord /\ ReviewerHolds(r)
      /\ launcher \in Nat /\ job \in Nat /\ launcher # 0 /\ job # 0
  BY DEF RecordsInv, RecordsTyped, ReviewSound, Numbered, ReadingExpected
<1>2. /\ old.reads \in Seq(Kinds) /\ old.id \in Inputs
      /\ old.launcher \in Nat /\ old.job \in Nat
      /\ old.reads # << >> /\ old.step = "reading"
      /\ old = [step |-> old.step, id |-> old.id, reads |-> old.reads,
                launcher |-> old.launcher, job |-> old.job]
  BY <1>1 DEF ReviewRecord, ReadingExpected
<1>3. PICK k : k = now
  OBVIOUS
<1>4. review' = [review EXCEPT ![r] = k]
  <2>1. now = ReviewBecomes(old, Tail(old.reads), seenLauncher, seenJob)
    <3>1. old \in ReviewRecord
      BY <1>1
    <3>2. PICK x, l, j : x = Tail(old.reads) /\ l = seenLauncher /\ j = seenJob
      OBVIOUS
    <3> HIDE DEF seenLauncher, seenJob, old
    <3>3. ReviewBecomes(old, x, l, j) =
            [step |-> old.step, id |-> old.id, reads |-> x, launcher |-> l, job |-> j]
      BY <3>1, ReviewBecame
    <3> QED
      BY <3>2, <3>3
  <2> HIDE DEF now
  <2>2. review' = [review EXCEPT ![r] = ReviewBecomes(old, Tail(old.reads), seenLauncher, seenJob)]
    BY <1>1 DEF ReadingTaken, ReviewBecomes
  <2> QED
    BY <1>3, <2>1, <2>2
<1>5. PICK what \in Kinds : what = next
  BY <1>2
<1>6. /\ k.step = "reading" /\ k.id = old.id /\ k.reads = Tail(old.reads)
      /\ k.launcher = (IF what = "launcher" THEN launcher ELSE old.launcher)
      /\ k.job = (IF what = "job" THEN job ELSE old.job)
      /\ k \in ReviewRecord /\ review'[r] = k
  <2>1. /\ k.step = "reading" /\ k.id = old.id /\ k.reads = Tail(old.reads)
        /\ k.launcher = seenLauncher /\ k.job = seenJob
    <3> HIDE DEF seenLauncher, seenJob, old
    <3>1. old.step = "reading"
      BY <1>2
    <3> QED
      BY <1>3, <3>1
  <2>2. seenLauncher \in Nat /\ seenJob \in Nat /\ Tail(old.reads) \in Seq(Kinds)
    BY <1>1, <1>2
  <2>3. k \in ReviewRecord
    BY <1>2, <1>3, <2>2 DEF ReviewRecord
  <2>4. review'[r] = k
    BY <1>1, <1>4
  <2> QED
    BY <1>5, <2>1, <2>3, <2>4
<1>7. Len(old.reads) \in 1..34
  <2>1. PICK l : l = Len(old.reads)
    OBVIOUS
  <2>2. l \in Nat /\ l # 0
    BY <1>2, <2>1
  <2>3. l <= 34
    BY <1>1, <2>1 DEF Left, ReviewerHolds
  <2>4. l \in 1..34
    BY <2>2, <2>3
  <2> QED
    BY <2>1, <2>4
<1>23. PICK n : n = Len(old.reads)
  OBVIOUS
<1>24. n \in 1..34
  BY <1>7, <1>23
<1>8. /\ Len(k.reads) = n - 1 /\ what = old.reads[1]
      /\ \A j \in 1..(n - 1) : k.reads[j] = old.reads[j + 1]
  <2>1. Len(old.reads) = n /\ old.reads # << >>
    BY <1>2, <1>23
  <2>2. Len(Tail(old.reads)) = n - 1 /\ next = old.reads[1]
        /\ \A j \in 1..(n - 1) : Tail(old.reads)[j] = old.reads[j + 1]
    BY <1>2, <1>24, <1>23, <2>1
  <2> QED
    BY <1>5, <1>6, <2>2
<1>9. what = LoadedReads[35 - n]
  <2>1. old.reads[1] = LoadedReads[34 - n + 1]
    <3>1. \A j \in 1..n : old.reads[j] = LoadedReads[34 - n + j]
      BY <1>1, <1>23 DEF ReviewerHolds, Left
    <3>2. 1 \in 1..n
      BY <1>24
    <3> QED
      BY <3>1, <3>2
  <2>2. 34 - n + 1 = 35 - n
    BY <1>24
  <2> QED
    BY <1>8, <2>1, <2>2
<1>10. /\ what = "job" => n \in {12, 13}
       /\ what = "launcher" => n \in {5, 6, 18, 19, 29, 30}
       /\ n \in {30, 29} => what = "launcher"
       /\ n \in {3, 9, 33} => what = "runtime"
       /\ n \in {4, 10, 34} => what = "record"
  <2>1. /\ LoadedReads[35 - n] = "job" => n \in {12, 13}
        /\ LoadedReads[35 - n] = "launcher" => n \in {5, 6, 18, 19, 29, 30}
        /\ n \in {30, 29} => LoadedReads[35 - n] = "launcher"
        /\ n \in {3, 9, 33} => LoadedReads[35 - n] = "runtime"
        /\ n \in {4, 10, 34} => LoadedReads[35 - n] = "record"
    BY <1>24, NextRead
  <2> HIDE DEF LoadedReads
  <2> QED
    BY <1>9, <2>1
<1>11. /\ old.job # 0 => old.launcher # 0
       /\ n \in 11..29 => old.launcher # 0
       /\ n >= 30 => old.launcher = 0
       /\ old.launcher <= launcher /\ old.job <= job
       /\ RecordWasRead(r) => adopted # NoRecord /\ Readable
       /\ RuntimeWasRead(r) => runtimes[old.id].manifest
       /\ RuntimeWasRead(r) /\ StillToConfirm(r) => SawAMoment(r)
  BY <1>1, <1>24, <1>23 DEF ReviewerHolds, Left
<1>12. /\ RecordWasRead(r) <=> n \notin {34, 10, 4} \/ old.launcher # 0
       /\ RuntimeWasRead(r) <=> n \notin {34, 33, 10, 9, 4, 3} \/ old.launcher # 0
       /\ RecordWasRead(r)' <=> n - 1 \notin {34, 10, 4} \/ k.launcher # 0
       /\ RuntimeWasRead(r)' <=> n - 1 \notin {34, 33, 10, 9, 4, 3} \/ k.launcher # 0
  BY <1>6, <1>24, <1>23, <1>8 DEF RecordWasRead, RuntimeWasRead, Left
<1>13. /\ what = "record" => RecordHolds
       /\ what = "runtime" => Prepared(old.id)
       /\ what = "launcher" => Same(old.launcher, launcher)
       /\ what = "job" => Same(old.job, job)
  BY <1>5 DEF ReadingExpected, Holds
<1>14. /\ RecordHolds' <=> RecordHolds
       /\ Prepared(old.id)' <=> Prepared(old.id)
       /\ launcher' = launcher /\ job' = job /\ adopted' = adopted
       /\ Readable' <=> Readable
       /\ runtimes' = runtimes
  <2>1. Prepared(old.id)' <=>
          runtimes'[old.id'].manifest /\ runtimes'[old.id'].tree = "built" /\ basePython' = old.id'.python
    BY DEF Prepared, TreeMatches
  <2> QED
    BY <1>6, <2>1 DEF HostAsItWas, RecordHolds, Readable, Prepared, TreeMatches
<1>15. StillToConfirm(r)' =>
         /\ n - 1 >= 2 => RecordHolds
         /\ n - 1 >= 1 => Prepared(old.id)
         /\ n - 1 >= 5 => Same(k.launcher, launcher)
         /\ n - 1 >= 12 => Same(k.job, job)
  BY <1>6, <1>8, <1>14 DEF StillToConfirm, Left
<1>16. /\ k.launcher <= launcher /\ k.job <= job
       /\ k.job # 0 => k.launcher # 0
       /\ n - 1 \in 11..29 => k.launcher # 0
       /\ n - 1 >= 30 => k.launcher = 0
  <2>1. k.launcher <= launcher /\ k.job <= job
    <3>1. k.launcher \in {launcher, old.launcher} /\ k.job \in {job, old.job}
      BY <1>6
    <3>2. launcher <= launcher /\ job <= job
      BY <1>1
    <3> QED
      BY <1>11, <3>1, <3>2
  <2>2. k.job # 0 => k.launcher # 0
    <3>1. what = "job" => n \in 11..29
      BY <1>10
    <3> QED
      BY <1>1, <1>6, <1>11, <3>1
  <2>3. n - 1 \in 11..29 => k.launcher # 0
    <3>1. n - 1 \in 11..29 => n \in 11..29 \/ n = 30
      BY <1>24
    <3> QED
      BY <1>1, <1>6, <1>10, <1>11, <3>1
  <2>4. n - 1 >= 30 => k.launcher = 0
    <3>1. n - 1 >= 30 => n >= 30 /\ n \notin {5, 6, 18, 19, 29, 30}
      BY <1>24
    <3> QED
      BY <1>6, <1>10, <1>11, <3>1
  <2> QED
    BY <2>1, <2>2, <2>3, <2>4
<1>17. n - 1 \notin {34, 10, 4} \/ k.launcher # 0 => adopted # NoRecord /\ Readable
  <2>1. CASE n \notin {34, 10, 4} \/ old.launcher # 0
    BY <1>11, <1>12, <2>1
  <2>2. CASE n \in {34, 10, 4}
    BY <1>10, <1>13, <2>2 DEF RecordHolds
  <2> QED
    BY <2>1, <2>2
<1>18. n - 1 \notin {34, 33, 10, 9, 4, 3} \/ k.launcher # 0 => runtimes[old.id].manifest
  <2>1. CASE n \notin {34, 33, 10, 9, 4, 3} \/ old.launcher # 0
    BY <1>11, <1>12, <2>1
  <2>2. CASE n \in {33, 9, 3}
    BY <1>10, <1>13, <2>2 DEF Prepared
  <2>3. CASE n \in {34, 10, 4} /\ old.launcher = 0
    BY <1>6, <1>10, <2>3
  <2> QED
    BY <2>1, <2>2, <2>3
\* Where the record and the runtime hold now, this moment is the one.
<1>19. ASSUME RecordHolds, Prepared(old.id), Same(k.launcher, launcher), Same(k.job, job)
       PROVE  SawAMoment(r)'
  <2>1. PICK c : c = [id |-> old.id, launcher |-> launcher, job |-> job]
    OBVIOUS
  <2>2. c \in coexisted
    BY <1>2, <1>19, <2>1 DEF RecordsInv, Together
  <2>3. c \in coexisted' /\ c.id = review'[r].id /\ c.launcher = launcher /\ c.job = job
    BY <1>6, <2>1, <2>2 DEF HostAsItWas
  <2> QED
    BY <1>6, <1>19, <2>3 DEF SawAMoment
<1>20. ASSUME n - 1 \notin {34, 33, 10, 9, 4, 3} \/ k.launcher # 0, StillToConfirm(r)'
       PROVE  SawAMoment(r)'
  <2>1. CASE k.launcher # old.launcher
    <3>1. what = "launcher" /\ k.launcher = launcher /\ k.job = old.job
      BY <1>6, <2>1
    <3>2. old.launcher = 0 /\ old.job = 0
      BY <1>11, <1>13, <2>1, <3>1 DEF Same
    <3>3. n \in {5, 6, 30}
      BY <1>10, <1>11, <3>1, <3>2
    <3>4. RecordHolds /\ Prepared(old.id)
      BY <1>15, <1>20, <3>3
    <3> QED
      BY <1>19, <3>1, <3>2, <3>4 DEF Same
  <2>2. CASE k.launcher = old.launcher /\ k.job # old.job
    <3>1. what = "job" /\ k.job = job /\ n \in {12, 13}
      BY <1>6, <1>10, <2>2
    <3>2. RecordHolds /\ Prepared(old.id) /\ Same(k.launcher, launcher)
      BY <1>15, <1>20, <3>1
    <3> QED
      BY <1>19, <3>1, <3>2 DEF Same
  <2>3. CASE /\ k.launcher = old.launcher /\ k.job = old.job
             /\ ~ (n \notin {34, 33, 10, 9, 4, 3} \/ old.launcher # 0)
    <3>1. n \in {33, 9, 3} /\ old.launcher = 0 /\ old.job = 0
      BY <1>11, <1>20, <2>3
    <3>2. RecordHolds /\ Prepared(old.id)
      BY <1>15, <1>20, <3>1
    <3> QED
      BY <1>19, <2>3, <3>1, <3>2 DEF Same
  <2>4. CASE /\ k.launcher = old.launcher /\ k.job = old.job
             /\ n \notin {34, 33, 10, 9, 4, 3} \/ old.launcher # 0
    <3>1. /\ n = 2 => what = "record"
          /\ n = 1 => what = "runtime"
          /\ n = 5 => what = "launcher"
          /\ n = 12 => what = "job"
      BY <1>9, LastReads
    <3>2. StillToConfirm(r)
      <4>1. n >= 2 => RecordHolds
        BY <1>24, <1>13, <1>15, <1>20, <3>1
      <4>2. n >= 1 => Prepared(old.id)
        BY <1>24, <1>13, <1>15, <1>20, <3>1
      <4>3. n >= 5 => Same(old.launcher, launcher)
        BY <1>24, <1>13, <1>15, <1>20, <2>4, <3>1
      <4>4. n >= 12 => Same(old.job, job)
        BY <1>24, <1>13, <1>15, <1>20, <2>4, <3>1
      <4> QED
        BY <1>24, <1>23, <4>1, <4>2, <4>3, <4>4 DEF StillToConfirm, Left
    <3>3. SawAMoment(r)
      BY <1>11, <1>12, <2>4, <3>2
    <3> QED
      BY <1>6, <2>4, <3>3 DEF SawAMoment, HostAsItWas
  <2> QED
    BY <2>1, <2>2, <2>3, <2>4
<1>21. ReviewerHolds(r)'
  <2>1. n - 1 <= 34
    BY <1>24
  <2>2. ASSUME NEW j \in 1..(n - 1) PROVE k.reads[j] = LoadedReads[34 - (n - 1) + j]
    <3>1. PICK i \in 1..n : i = j + 1
      BY <1>24
    <3>2. k.reads[j] = old.reads[i] /\ old.reads[i] = LoadedReads[34 - n + i]
      BY <1>1, <1>24, <1>23, <1>8, <3>1 DEF ReviewerHolds, Left
    <3>3. 34 - n + i = 34 - (n - 1) + j
      BY <1>24, <3>1
    <3> QED
      BY <3>2, <3>3
  <2>3. /\ RecordWasRead(r)' => adopted' # NoRecord /\ Readable'
        /\ RuntimeWasRead(r)' => runtimes'[review'[r].id].manifest
        /\ RuntimeWasRead(r)' /\ StillToConfirm(r)' => SawAMoment(r)'
    BY <1>6, <1>12, <1>14, <1>17, <1>18, <1>20
  <2> QED
    BY <1>6, <1>8, <1>14, <1>16, <2>1, <2>2, <2>3 DEF ReviewerHolds, Left
<1>22. ReviewSound(r)'
  BY <1>6, <1>21 DEF ReviewSound
<1> QED
  BY <1>4, <1>6, <1>22, ReviewerMoved DEF ReviewerMoves

LEMMA ReviewKeeps ==
  ASSUME RecordsInv, HostAsItWas, NEW r \in Reviewers, ReviewStep(r)
  PROVE  ReviewsKept
<1>1. CASE BeginReview(r)
  BY <1>1, ReviewBegins
<1>2. CASE ReadNext(r) \/ QueryFails(r)
  <2>1. CASE ReadingExpected(r) /\ ReadingTaken(r)
    BY <2>1, ReviewReads
  <2>2. CASE review' = [review EXCEPT ![r] = NotReviewing("failed")]
    BY <2>2, ReviewFails
  <2> QED
    BY <1>2, <2>1, <2>2 DEF ReadNext, QueryFails, ReadingExpected, ReadingTaken
<1>3. CASE EndReview(r)
  BY <1>3, ReviewEnds
<1> QED
  BY <1>1, <1>2, <1>3 DEF ReviewStep

-----------------------------------------------------------------------------
(* Every step. *)

\* The record, the runtimes, and who works on them.
WritersKept ==
  /\ Numbered'
  /\ \A a \in Adopters : AdopterHolds(a)'
  /\ \A id \in Inputs : DirectorySound(id)'
  /\ \A p \in Preparers : PreparerHolds(p)'
  /\ OwnersApart'

LEMMA WritersStay ==
  ASSUME RecordsInv,
         UNCHANGED <<registration, adopted, adoption, wheels, basePython, runtimes, preparation>>,
         UNCHANGED <<launcher, job, edits>>
  PROVE  WritersKept /\ Forward
<1>1. registration \in Nat /\ basePython \in Nat /\ launcher \in Nat /\ job \in Nat
  BY DEF RecordsInv, RecordsTyped
<1>2. Forward
  BY <1>1 DEF Forward, Readable
<1>3. Numbered'
  BY DEF RecordsInv, Numbered
<1>4. \A a \in Adopters : AdopterHolds(a)'
  BY DEF RecordsInv, AdopterHolds
<1>5. \A id \in Inputs : DirectorySound(id)'
  BY DEF RecordsInv, DirectorySound
<1>6. \A p \in Preparers : PreparerHolds(p)'
  BY DEF RecordsInv, PreparerHolds, Target
<1>7. OwnersApart'
  BY DEF RecordsInv, OwnersApart, Target
<1> QED
  BY <1>2, <1>3, <1>4, <1>5, <1>6, <1>7 DEF WritersKept

\* Somebody edits a file, or loads the job again.
LEMMA EditKeeps ==
  ASSUME RecordsInv, HostEdit
  PROVE  RecordsTyped' /\ WritersKept /\ Forward
<1>1. /\ registration \in Nat /\ wheels \in Nat /\ basePython \in Nat
      /\ launcher \in Nat /\ job \in Nat /\ edits \in 0..HostEdits
      /\ runtimes \in [Inputs -> RuntimeRecord] /\ Numbered
  BY DEF RecordsInv, RecordsTyped
<1>2. /\ UNCHANGED <<adopted, adoption, preparation, review>>
      /\ edits' = edits + 1 /\ edits' \in 0..HostEdits
  BY <1>1, EditsAssumption DEF HostEdit
<1>3. /\ registration' \in Nat /\ wheels' \in Nat /\ basePython' \in Nat
      /\ launcher' \in Nat /\ job' \in Nat
      /\ registration <= registration' /\ wheels <= wheels' /\ basePython <= basePython'
      /\ launcher <= launcher' /\ job <= job'
      /\ Numbered'
  <2>1. CASE registration' = registration + 1 /\ UNCHANGED <<wheels, basePython, runtimes, launcher, job>>
    <3>1. /\ registration' = registration + 1 /\ wheels' = wheels /\ basePython' = basePython
          /\ launcher' = launcher /\ job' = job
      BY <2>1
    <3>2. adopted # NoRecord => adopted.digest \in Nat /\ adopted.digest <= registration
      BY <1>1, RecordsDiffer DEF RecordsInv, RecordsTyped, Numbered
    <3>3. adopted' # NoRecord => adopted'.digest <= registration'
      BY <1>1, <1>2, <3>1, <3>2
    <3>4. /\ 1 <= registration' /\ registration' <= edits' + 1
          /\ 1 <= wheels' /\ wheels' <= edits' + 1
          /\ 1 <= basePython' /\ basePython' <= edits' + 1
          /\ 1 <= launcher' /\ launcher' <= edits' + 1
          /\ 1 <= job' /\ job' <= registration'
      BY <1>1, <1>2, <3>1 DEF Numbered
    <3>5. registration <= registration' /\ wheels <= wheels' /\ basePython <= basePython'
          /\ launcher <= launcher' /\ job <= job'
      BY <1>1, <3>1
    <3> QED
      BY <1>1, <3>1, <3>3, <3>4, <3>5 DEF Numbered
  <2>2. CASE wheels' = wheels + 1 /\ UNCHANGED <<registration, basePython, runtimes, launcher, job>>
    BY <1>1, <1>2, <2>2, EditsAssumption DEF Numbered
  <2>3. CASE basePython' = basePython + 1 /\ UNCHANGED <<registration, wheels, runtimes, launcher, job>>
    BY <1>1, <1>2, <2>3, EditsAssumption DEF Numbered
  <2>4. CASE launcher' = launcher + 1 /\ UNCHANGED <<registration, wheels, basePython, runtimes, job>>
    BY <1>1, <1>2, <2>4, EditsAssumption DEF Numbered
  <2>5. CASE job' = registration /\ UNCHANGED <<registration, wheels, basePython, runtimes, launcher>>
    BY <1>1, <1>2, <2>5, EditsAssumption DEF Numbered
  <2>6. CASE UNCHANGED <<registration, wheels, basePython, launcher, job>>
    BY <1>1, <1>2, <2>6, EditsAssumption DEF Numbered
  <2> QED
    BY <2>1, <2>2, <2>3, <2>4, <2>5, <2>6 DEF HostEdit
\* Of the runtimes only a finished one's tree changes.
<1>4. /\ runtimes' \in [Inputs -> RuntimeRecord]
      /\ \A id \in Inputs :
           /\ runtimes'[id].made <=> runtimes[id].made
           /\ runtimes'[id].manifest <=> runtimes[id].manifest
           /\ runtimes'[id].wheels = runtimes[id].wheels
           /\ runtimes'[id].python = runtimes[id].python
           /\ \/ runtimes'[id].tree = runtimes[id].tree
              \/ runtimes[id].manifest /\ runtimes'[id].tree = "changed"
  <2>1. CASE runtimes' = runtimes
    BY <1>1, <2>1
  <2>2. CASE \E id \in Inputs : runtimes[id].manifest /\ runtimes' = [runtimes EXCEPT ![id].tree = "changed"]
    <3>1. PICK id \in Inputs : runtimes[id].manifest /\ runtimes' = [runtimes EXCEPT ![id].tree = "changed"]
      BY <2>2
    <3> DEFINE d == [runtimes[id] EXCEPT !.tree = "changed"]
    <3>2. runtimes[id] \in RuntimeRecord
      BY <1>1
    <3>3. /\ d \in RuntimeRecord /\ d.wheels = runtimes[id].wheels /\ d.python = runtimes[id].python
          /\ d.tree = "changed"
      BY <3>2 DEF RuntimeRecord
    <3>4. d.made <=> runtimes[id].made
      BY <3>2 DEF RuntimeRecord
    <3>5. d.manifest <=> runtimes[id].manifest
      BY <3>2 DEF RuntimeRecord
    <3>6. runtimes' = [runtimes EXCEPT ![id] = d]
      BY <1>1, <3>1
    <3> HIDE DEF d
    <3>7. runtimes' \in [Inputs -> RuntimeRecord] /\ runtimes'[id] = d
          /\ \A i \in Inputs : i # id => runtimes'[i] = runtimes[i]
      BY <1>1, <3>3, <3>6
    <3>8. ASSUME NEW i \in Inputs
          PROVE  /\ runtimes'[i].made <=> runtimes[i].made
                 /\ runtimes'[i].manifest <=> runtimes[i].manifest
                 /\ runtimes'[i].wheels = runtimes[i].wheels
                 /\ runtimes'[i].python = runtimes[i].python
                 /\ \/ runtimes'[i].tree = runtimes[i].tree
                    \/ runtimes[i].manifest /\ runtimes'[i].tree = "changed"
      <4>1. CASE i = id
        BY <3>1, <3>3, <3>4, <3>5, <3>7, <4>1
      <4>2. CASE i # id
        BY <3>7, <4>2
      <4> QED
        BY <4>1, <4>2
    <3> QED
      BY <3>7, <3>8
  <2> QED
    BY <2>1, <2>2 DEF HostEdit
<1>5. RecordsTyped'
  BY <1>2, <1>3, <1>4 DEF RecordsInv, RecordsTyped
<1>6. ASSUME NEW a \in Adopters PROVE AdopterHolds(a)'
  <2>1. adoption[a].expect \in Nat /\ AdopterHolds(a)
    BY DEF RecordsInv, RecordsTyped, AdoptionRecord
  <2> QED
    BY <1>1, <1>2, <1>3, <2>1 DEF AdopterHolds
<1>7. ASSUME NEW id \in Inputs PROVE DirectorySound(id)'
  <2>1. /\ DirectorySound(id) /\ runtimes[id].wheels \in Nat /\ runtimes[id].python \in Nat
    BY <1>1 DEF RecordsInv, RuntimeRecord
  <2>2. runtimes'[id].wheels <= wheels' /\ runtimes'[id].python <= basePython'
    BY <1>1, <1>3, <1>4, <2>1 DEF DirectorySound
  <2>3. runtimes[id].tree # "none" => runtimes'[id].tree # "none"
    BY <1>4
  <2> QED
    BY <1>4, <2>1, <2>2, <2>3 DEF DirectorySound
<1>8. ASSUME NEW p \in Preparers PROVE PreparerHolds(p)'
  <2>1. /\ PreparerHolds(p) /\ Target(p)' = Target(p) /\ preparation'[p] = preparation[p]
        /\ Target(p) \in Inputs
    BY <1>2 DEF RecordsInv, RecordsTyped, PreparationRecord, Target
  <2>2. Target(p).python \in Nat
    BY <2>1, EditsAssumption DEF Inputs, Versions
  <2>3. Target(p).python <= basePython => Target(p).python <= basePython'
    BY <1>1, <1>3, <2>2
  <2>4. preparation[p].step \in Owning =>
          runtimes'[Target(p)].tree = runtimes[Target(p)].tree
    BY <1>4, <2>1 DEF PreparerHolds
  <2> QED
    BY <1>4, <2>1, <2>3, <2>4 DEF PreparerHolds, Owning
<1>9. OwnersApart'
  BY <1>2 DEF RecordsInv, OwnersApart, Target
<1>10. Forward
  BY <1>1, <1>2, <1>3, <1>4 DEF Forward, Readable
<1> QED
  BY <1>3, <1>5, <1>6, <1>7, <1>8, <1>9, <1>10 DEF WritersKept

LEMMA RecordsStep ==
  ASSUME RecordsInv, RecordsNext PROVE RecordsInv' /\ Forward
<1>1. /\ coexisted \subseteq coexisted'
      /\ \A id \in Inputs :
           Together(id)' => [id |-> id, launcher |-> launcher', job |-> job'] \in coexisted'
  BY DEF RecordsNext
<1>2. CASE (\E a \in Adopters : AdoptionStep(a)) /\ UNCHANGED <<runtimeVars, reviewVars>>
  <2>1. /\ AdoptionKept
        /\ UNCHANGED <<wheels, basePython, runtimes, preparation, launcher, job, review, edits>>
    BY <1>2, AdoptionKeeps DEF runtimeVars, reviewVars
  <2>2. RecordsTyped'
    BY <2>1 DEF AdoptionKept, RecordsInv, RecordsTyped
  <2>3. registration \in Nat /\ basePython \in Nat /\ launcher \in Nat /\ job \in Nat
    BY DEF RecordsInv, RecordsTyped
  <2>4. Forward
    BY <2>1, <2>3 DEF AdoptionKept, Forward
  <2>5. Numbered'
    BY <2>1 DEF AdoptionKept, RecordsInv, Numbered
  <2>6. /\ \A id \in Inputs : DirectorySound(id)'
        /\ \A p \in Preparers : PreparerHolds(p)'
        /\ OwnersApart'
    BY <2>1 DEF RecordsInv, DirectorySound, PreparerHolds, OwnersApart, Target
  <2>7. \A r \in Reviewers : ReviewSound(r)'
    BY <1>1, <2>1, <2>2, <2>4, ReviewKeptBesideOthers
  <2> QED
    BY <1>1, <2>1, <2>2, <2>4, <2>5, <2>6, <2>7 DEF AdoptionKept, RecordsInv
<1>3. CASE (\E p \in Preparers : PreparationStep(p)) /\ UNCHANGED <<adoptionVars, reviewVars>>
  <2>1. /\ PreparationKept
        /\ UNCHANGED <<registration, adopted, adoption, wheels, basePython, launcher, job, review, edits>>
    BY <1>3, PreparationKeeps DEF adoptionVars, reviewVars
  <2>2. RecordsTyped'
    BY <2>1 DEF PreparationKept, RecordsInv, RecordsTyped
  <2>3. registration \in Nat /\ basePython \in Nat /\ launcher \in Nat /\ job \in Nat
    BY DEF RecordsInv, RecordsTyped
  <2>4. Forward
    BY <2>1, <2>3 DEF PreparationKept, Forward, Readable
  <2>5. Numbered'
    BY <2>1 DEF RecordsInv, Numbered
  <2>6. \A a \in Adopters : AdopterHolds(a)'
    BY <2>1 DEF RecordsInv, AdopterHolds
  <2>7. \A r \in Reviewers : ReviewSound(r)'
    BY <1>1, <2>1, <2>2, <2>4, ReviewKeptBesideOthers
  <2> QED
    BY <1>1, <2>1, <2>2, <2>4, <2>5, <2>6, <2>7 DEF PreparationKept, RecordsInv
<1>4. CASE (\E r \in Reviewers : ReviewStep(r)) /\ UNCHANGED <<adoptionVars, runtimeVars>>
  <2>1. HostAsItWas
    BY <1>1, <1>4 DEF HostAsItWas, adoptionVars, runtimeVars, ReviewStep, BeginReview, ReadNext,
                      QueryFails, EndReview
  <2>2. ReviewsKept
    BY <1>4, <2>1, ReviewKeeps
  <2>3. RecordsTyped'
    BY <2>1, <2>2 DEF HostAsItWas, ReviewsKept, RecordsInv, RecordsTyped
  <2>4. WritersKept /\ Forward
    BY <2>1, WritersStay DEF HostAsItWas
  <2> QED
    BY <1>1, <2>2, <2>3, <2>4 DEF ReviewsKept, WritersKept, RecordsInv
<1>5. CASE HostEdit
  <2>1. RecordsTyped' /\ WritersKept /\ Forward /\ review' = review
    BY <1>5, EditKeeps DEF HostEdit
  <2>2. \A r \in Reviewers : ReviewSound(r)'
    BY <1>1, <2>1, ReviewKeptBesideOthers
  <2> QED
    BY <1>1, <2>1, <2>2 DEF WritersKept, RecordsInv
<1> QED
  BY <1>2, <1>3, <1>4, <1>5 DEF RecordsNext

LEMMA RecordsStutter ==
  ASSUME RecordsInv, UNCHANGED recordsVars PROVE RecordsInv' /\ Forward
<1>1. /\ UNCHANGED <<registration, adopted, adoption, wheels, basePython, runtimes, preparation>>
      /\ UNCHANGED <<launcher, job, edits>>
      /\ UNCHANGED <<review, coexisted>>
  BY DEF recordsVars, adoptionVars, runtimeVars, reviewVars
<1>2. RecordsTyped'
  BY <1>1 DEF RecordsInv, RecordsTyped
<1>3. WritersKept /\ Forward
  BY <1>1, WritersStay
<1>4. \A r \in Reviewers : ReviewSound(r)'
  BY <1>1, <1>2, <1>3, ReviewKeptBesideOthers
<1>5. \A id \in Inputs :
        Together(id)' => [id |-> id, launcher |-> launcher', job |-> job'] \in coexisted'
  BY <1>1 DEF RecordsInv, Together, RecordHolds, Readable, Prepared, TreeMatches
<1> QED
  BY <1>2, <1>3, <1>4, <1>5 DEF WritersKept, RecordsInv

LEMMA RecordsStart == RecordsInit => RecordsInv
<1> SUFFICES ASSUME RecordsInit PROVE RecordsInv
  OBVIOUS
<1> USE DEF RecordsInit
<1>1. CurrentInputs \in Inputs /\ 1 \in Versions
  BY EditsAssumption DEF CurrentInputs, Inputs, Versions
<1>2. RecordsTyped
  <2>1. adoption \in [Adopters -> AdoptionRecord]
    BY DEF AdoptionRecord, AdoptionSteps
  <2>2. runtimes \in [Inputs -> RuntimeRecord]
    BY DEF NoDirectory, RuntimeRecord
  <2>3. preparation \in [Preparers -> PreparationRecord]
    BY <1>1 DEF PreparationRecord, PreparationSteps
  <2>4. review \in [Reviewers -> ReviewRecord]
    <3>1. [wheels |-> 1, python |-> 1] \in Inputs
      BY <1>1 DEF Inputs
    <3>2. NotReviewing("idle") \in ReviewRecord
      BY <3>1 DEF NotReviewing, ReviewRecord
    <3> QED
      BY <3>2
  <2> QED
    BY <2>1, <2>2, <2>3, <2>4, EditsAssumption DEF RecordsTyped
<1>3. Numbered
  BY EditsAssumption DEF Numbered
<1>4. \A a \in Adopters : AdopterHolds(a)
  BY DEF AdopterHolds
<1>5. \A id \in Inputs : DirectorySound(id)
  BY EditsAssumption DEF DirectorySound, NoDirectory
<1>6. \A p \in Preparers : PreparerHolds(p)
  BY DEF PreparerHolds, Owning
<1>7. OwnersApart
  BY DEF OwnersApart, Owning
<1>8. ASSUME NEW r \in Reviewers PROVE ReviewSound(r)
  BY DEF ReviewSound, NotReviewing
<1>9. \A id \in Inputs : ~ Together(id)
  BY DEF Together, RecordHolds
<1> QED
  BY <1>2, <1>3, <1>4, <1>5, <1>6, <1>7, <1>8, <1>9 DEF RecordsInv

\* The invariant says what an adoption, a runtime and a review that ended well promise.
LEMMA RecordsInvSound ==
  ASSUME RecordsInv PROVE RecordsSound
<1>1. AdoptionsTold
  <2> SUFFICES ASSUME NEW a \in Adopters
               PROVE  /\ adoption[a].step \in {"already", "adopted", "outdated"} =>
                           adopted # NoRecord /\ adopted.digest = adoption[a].expect
                      /\ adoption[a].step \in {"adopted", "outdated"} => adopted.by = a
    BY DEF AdoptionsTold
  <2>1. AdopterHolds(a)
    BY DEF RecordsInv
  <2>2. CASE adoption[a].step \in {"adopted", "outdated"}
    <3>1. /\ adopted = [digest |-> adoption[a].expect, by |-> a]
          /\ adoption[a].expect # 0
      BY <2>1, <2>2 DEF AdopterHolds
    <3> QED
      BY <3>1 DEF NoRecord
  <2>3. CASE adoption[a].step = "already"
    BY <2>1, <2>3 DEF AdopterHolds
  <2> QED
    BY <2>2, <2>3
<1>2. PreparedAsReviewed
  <2>1. ASSUME NEW p \in Preparers, NEW q \in Preparers, p # q, Target(p) = Target(q)
        PROVE  ~ {preparation[p].step, preparation[q].step} \subseteq Owning
    BY <2>1 DEF RecordsInv, OwnersApart
  <2>2. ASSUME NEW id \in Inputs, Prepared(id)
        PROVE  runtimes[id].wheels = id.wheels /\ runtimes[id].python = id.python
    BY <2>2 DEF RecordsInv, DirectorySound, Prepared
  <2> QED
    BY <2>1, <2>2 DEF PreparedAsReviewed, Owning
<1>3. ReviewsSawAMoment
  BY DEF RecordsInv, ReviewSound, SawAMoment, ReviewsSawAMoment
<1> QED
  BY <1>1, <1>2, <1>3 DEF RecordsSound

\* An adoption that says a record is there is right about it, one process builds in a
\* runtime's directory, a runtime that counts as prepared was built from what was reviewed,
\* and a review that succeeds has seen record, registration, runtime, launcher and loaded
\* job side by side at one moment, though nothing is locked while it reads (deployment.py,
\* runtime.py, pairing.py, launch_review.py, loaded_service.py).
THEOREM ReviewsSeeAMoment == RecordsSpec => []RecordsSound
<1>1. RecordsInv /\ [RecordsNext]_recordsVars => RecordsInv'
  BY RecordsStep, RecordsStutter
<1> QED
  BY <1>1, RecordsStart, RecordsInvSound, PTL DEF RecordsSpec

\* No record is replaced or removed, and neither is a runtime's manifest or what it says the
\* runtime was built from (the create-only link() and mkdir() of deployment.py and runtime.py).
THEOREM RecordsAreCreatedOnce == RecordsSpec => CreatedOnce
<1>1. RecordsInv /\ [RecordsNext]_recordsVars => RecordsInv'
  BY RecordsStep, RecordsStutter
<1>2. RecordsInv /\ [RecordsNext]_recordsVars =>
        [/\ adopted # NoRecord => adopted' = adopted
         /\ \A id \in Inputs :
              runtimes[id].manifest =>
                /\ runtimes'[id].manifest
                /\ runtimes'[id].wheels = runtimes[id].wheels
                /\ runtimes'[id].python = runtimes[id].python]_recordsVars
  BY RecordsStep DEF Forward
<1> QED
  BY <1>1, <1>2, RecordsStart, PTL DEF RecordsSpec, CreatedOnce

-----------------------------------------------------------------------------
(***************************************************************************)
(* The guided set-up of a host.                                            *)
(***************************************************************************)
Phases == {"gitlab", "worker", "tunnel", "bridge"}
CommandSteps == {"idle", "preflight", "reading", "writing", "loading", "saving", "readTunnel",
                 "bridgeTunnel", "repairRead", "repairBridge", "installed", "keepingPath",
                 "reloading", "connecting", "awaiting"}
Resumes == {"idle", "readTunnel", "bridgeTunnel", "repairRead", "repairBridge"}
ConfigRecord == [granted : SUBSET Projects, worker : BOOLEAN]
SetupRecord == [phases : SUBSET Phases, read : Tunnels \cup {Unset}, bridge : Tunnels \cup {Unset}]
CommandRecord ==
  [kind : Commandline \cup {"none"}, step : CommandSteps, resume : Resumes,
   grants : SUBSET Projects, worker : BOOLEAN, before : ConfigRecord, saw : SetupRecord,
   held : SetupRecord, runtime : Runtimes, id : Tunnels \cup {Unset}]
ServedRecord == [tunnel : Tunnels \cup {Unset}, ready : BOOLEAN]

HostTyped ==
  /\ config \in ConfigRecord /\ copies \subseteq ConfigRecord /\ record \in SetupRecord
  /\ bundle \in {"absent", "verified"}
  /\ running \in [Runtimes -> ServedRecord]

\* A tunnel id counts for a runtime once a command saw it ready there, or was overtaken.
Witnessed(r, id) == id # Unset => <<r, id>> \in seenReady \cup overtaken
RecordSound(rec) == Witnessed("read", rec.read) /\ Witnessed("bridge", rec.bridge)

\* Whatever a command holds from its earlier steps was reviewed, or seen ready, by then.
HoldsReviewed(c) ==
  /\ c.grants \subseteq approved /\ c.before.granted \subseteq approved
  /\ RecordSound(c.saw) /\ RecordSound(c.held)
  /\ c.step \in {"preflight", "reading", "writing"} => c.id = Unset
  /\ c.step \in {"loading", "saving"} => Witnessed(c.runtime, c.id)
  /\ c.step = "awaiting" =>
       running[c.runtime].tunnel = c.id \/ <<c.runtime, c.id>> \in overtaken
  /\ c.step = "connecting" => bundle = "verified"
  /\ c.kind = "repair" /\ c.step # "repairRead" => bundle = "verified"
  /\ c.step \in {"repairRead", "repairBridge"} => c.kind = "repair"
  /\ c.resume \in {"repairRead", "repairBridge"} => c.kind = "repair"
  /\ c.kind = "repair" =>
       /\ c.step \notin {"readTunnel", "bridgeTunnel"}
       /\ c.resume \notin {"readTunnel", "bridgeTunnel"}
       /\ c.step = "connecting" => <<c.runtime, c.id>> \in seenReady \cup overtaken

SetupInv ==
  /\ HostTyped
  /\ command \in [Terminals -> CommandRecord]
  /\ GrantsReviewed
  /\ RecordSound(record)
  /\ \A t \in Terminals : HoldsReviewed(command[t])

\* What no step takes back: an approval, a runtime seen ready or overtaken, a verified client.
HostGrows ==
  /\ HostTyped' /\ GrantsReviewed' /\ RecordSound(record)'
  /\ approved \subseteq approved' /\ seenReady \subseteq seenReady' /\ overtaken \subseteq overtaken'
  /\ bundle = "verified" => bundle' = "verified"
  /\ \A t \in Terminals :
       command[t].step = "awaiting" =>
         \/ running'[command[t].runtime].tunnel = running[command[t].runtime].tunnel
         \/ <<command[t].runtime, command[t].id>> \in overtaken'

CommandBecomes(t, k) == k \in CommandRecord /\ command' = [command EXCEPT ![t] = k]

LEMMA HostGrowsNot ==
  ASSUME SetupInv,
         UNCHANGED <<config, copies, record, bundle, running, approved, seenReady, overtaken>>
  PROVE  HostGrows
BY DEF SetupInv, HostGrows, HostTyped, GrantsReviewed, RecordSound, Witnessed

\* What one command holds stays so while others go on.
LEMMA CommandKept ==
  ASSUME SetupInv, HostGrows, NEW u \in Terminals, command'[u] = command[u]
  PROVE  HoldsReviewed(command[u])'
<1>1. HoldsReviewed(command[u])
  BY DEF SetupInv
<1>2. \A r, id : Witnessed(r, id) => Witnessed(r, id)'
  BY DEF Witnessed, HostGrows
<1>3. RecordSound(command[u].saw)' /\ RecordSound(command[u].held)'
  BY <1>1, <1>2 DEF HoldsReviewed, RecordSound, Witnessed, HostGrows
<1> QED
  BY <1>1, <1>3 DEF HoldsReviewed, HostGrows, Witnessed

LEMMA CommandMoved ==
  ASSUME SetupInv, HostGrows, NEW t \in Terminals, NEW k, CommandBecomes(t, k), HoldsReviewed(k)'
  PROVE  SetupInv'
<1>1. command \in [Terminals -> CommandRecord]
  BY DEF SetupInv
<1>2. /\ command' \in [Terminals -> CommandRecord] /\ command'[t] = k
      /\ \A u \in Terminals \ {t} : command'[u] = command[u]
  BY <1>1 DEF CommandBecomes
<1>3. HoldsReviewed(command[t])'
  BY <1>2 DEF HoldsReviewed
<1>4. \A u \in Terminals : HoldsReviewed(command[u])'
  BY <1>2, <1>3, CommandKept
<1> QED
  BY <1>2, <1>4 DEF SetupInv, HostGrows

\* Every command may end at any step.
LEMMA CommandEnded ==
  ASSUME SetupInv, HostGrows, NEW t \in Terminals, EndCommand(t)
  PROVE  SetupInv'
<1>1. PICK k : k = AtPrompt
  OBVIOUS
<1>2. /\ k \in CommandRecord /\ k.kind = "none" /\ k.step = "idle" /\ k.resume = "idle"
      /\ k.grants = {}
      /\ k.before.granted = {}
      /\ k.saw = NewRecord /\ k.held = NewRecord
  BY <1>1 DEF AtPrompt, NewRecord, CommandRecord, CommandSteps, Resumes, ConfigRecord, SetupRecord,
              Runtimes
<1>3. NewRecord.read = Unset /\ NewRecord.bridge = Unset
  BY DEF NewRecord
<1>4. CommandBecomes(t, k)
  BY <1>1, <1>2 DEF EndCommand, CommandBecomes
<1>5. HoldsReviewed(k)'
  BY <1>2, <1>3 DEF HoldsReviewed, RecordSound, Witnessed
<1> QED
  BY <1>4, <1>5, CommandMoved

\* The steps of a command that change no file: what it holds is what it read.
LEMMA CommandReads ==
  ASSUME SetupInv, NEW t \in Terminals, HostGrows,
         \/ ReadConfig(t) \/ LoadRecord(t) \/ LoadForPath(t) \/ ReloadRecord(t)
  PROVE  SetupInv'
<1> DEFINE old == command[t]
<1>1. /\ command \in [Terminals -> CommandRecord] /\ old \in CommandRecord /\ HoldsReviewed(old)
      /\ config \in ConfigRecord /\ record \in SetupRecord
      /\ RecordSound(record) /\ config.granted \subseteq approved
  BY DEF SetupInv, HostTyped, GrantsReviewed
<1>2. /\ \A r, id : Witnessed(r, id) => Witnessed(r, id)'
      /\ \A rec : RecordSound(rec) => RecordSound(rec)'
      /\ approved \subseteq approved'
      /\ bundle = "verified" => bundle' = "verified"
  BY DEF HostGrows, Witnessed, RecordSound
<1>3. CASE ReadConfig(t)
  <2>0. PICK k : k = [old EXCEPT !.before = config, !.step = "writing"]
    OBVIOUS
  <2>1. /\ k \in CommandRecord /\ k.step = "writing" /\ k.resume = old.resume /\ k.before = config
        /\ k.kind = old.kind /\ k.grants = old.grants /\ k.saw = old.saw /\ k.held = old.held
        /\ k.runtime = old.runtime /\ k.id = old.id
    BY <1>1, <2>0 DEF CommandRecord, CommandSteps
  <2>2. old.step = "reading" /\ command' = [command EXCEPT ![t] = k]
    BY <1>1, <1>3, <2>0 DEF ReadConfig, Doing
  <2>3. RecordSound(k.saw)' /\ RecordSound(k.held)'
    BY <1>1, <1>2, <2>1 DEF HoldsReviewed
  <2>4. HoldsReviewed(k)'
    BY <1>1, <1>2, <2>1, <2>2, <2>3 DEF HoldsReviewed
  <2> QED
    BY <2>1, <2>2, <2>4, CommandMoved DEF CommandBecomes
<1>4. CASE LoadRecord(t)
  <2>0. PICK k : k = [old EXCEPT !.held = record, !.step = "saving"]
    OBVIOUS
  <2>1. /\ k \in CommandRecord /\ k.step = "saving" /\ k.resume = old.resume /\ k.held = record
        /\ k.kind = old.kind /\ k.grants = old.grants /\ k.saw = old.saw /\ k.before = old.before
        /\ k.runtime = old.runtime /\ k.id = old.id
    BY <1>1, <2>0 DEF CommandRecord, CommandSteps
  <2>2. old.step = "loading" /\ command' = [command EXCEPT ![t] = k]
    BY <1>1, <1>4, <2>0 DEF LoadRecord, Doing
  <2>3. RecordSound(k.saw)' /\ RecordSound(k.held)'
    BY <1>1, <1>2, <2>1 DEF HoldsReviewed
  <2>4. HoldsReviewed(k)'
    BY <1>1, <1>2, <2>1, <2>2, <2>3 DEF HoldsReviewed
  <2> QED
    BY <2>1, <2>2, <2>4, CommandMoved DEF CommandBecomes
<1>5. CASE LoadForPath(t)
  <2>0. PICK k : k = [old EXCEPT !.held = record, !.step = "keepingPath"]
    OBVIOUS
  <2>1. /\ k \in CommandRecord /\ k.step = "keepingPath" /\ k.resume = old.resume /\ k.held = record
        /\ k.kind = old.kind /\ k.grants = old.grants /\ k.saw = old.saw /\ k.before = old.before
        /\ k.runtime = old.runtime /\ k.id = old.id
    BY <1>1, <2>0 DEF CommandRecord, CommandSteps
  <2>2. old.step = "installed" /\ command' = [command EXCEPT ![t] = k]
    BY <1>1, <1>5, <2>0 DEF LoadForPath, Doing
  <2>3. RecordSound(k.saw)' /\ RecordSound(k.held)'
    BY <1>1, <1>2, <2>1 DEF HoldsReviewed
  <2>4. HoldsReviewed(k)'
    BY <1>1, <1>2, <2>1, <2>2, <2>3 DEF HoldsReviewed
  <2> QED
    BY <2>1, <2>2, <2>4, CommandMoved DEF CommandBecomes
<1>6. CASE ReloadRecord(t)
  <2>0. PICK k : k = [old EXCEPT !.saw = record, !.resume = "idle", !.step = old.resume]
    OBVIOUS
  <2>1. /\ k \in CommandRecord /\ k.step = old.resume /\ old.resume \in Resumes /\ k.resume = "idle"
        /\ k.saw = record
        /\ k.kind = old.kind /\ k.grants = old.grants /\ k.held = old.held /\ k.before = old.before
        /\ k.runtime = old.runtime /\ k.id = old.id
    BY <1>1, <2>0 DEF CommandRecord, CommandSteps, Resumes
  <2>2. old.step = "reloading" /\ command' = [command EXCEPT ![t] = k]
    BY <1>1, <1>6, <2>0 DEF ReloadRecord, Doing
  <2>3. RecordSound(k.saw)' /\ RecordSound(k.held)'
    BY <1>1, <1>2, <2>1 DEF HoldsReviewed
  <2>4. HoldsReviewed(k)'
    BY <1>1, <1>2, <2>1, <2>2, <2>3 DEF HoldsReviewed, Resumes
  <2> QED
    BY <2>1, <2>2, <2>4, CommandMoved DEF CommandBecomes
<1> QED
  BY <1>3, <1>4, <1>5, <1>6

\* The steps at which a command is told what to do, by its user or by the record it read.
LEMMA CommandIsTold ==
  ASSUME SetupInv, NEW t \in Terminals, HostGrows,
         \/ \E kind \in Commandline : Run(t, kind)
         \/ Preflight(t) \/ ChooseReadTunnel(t) \/ ChooseBridgeTunnel(t)
         \/ RepairRead(t) \/ RepairBridge(t)
  PROVE  SetupInv'
<1> DEFINE old == command[t]
<1>1. /\ command \in [Terminals -> CommandRecord] /\ old \in CommandRecord /\ HoldsReviewed(old)
      /\ config \in ConfigRecord /\ record \in SetupRecord
      /\ bundle \in {"absent", "verified"}
      /\ RecordSound(record) /\ config.granted \subseteq approved
  BY DEF SetupInv, HostTyped, GrantsReviewed
<1>2. /\ \A r, id : Witnessed(r, id) => Witnessed(r, id)'
      /\ \A rec : RecordSound(rec) => RecordSound(rec)'
      /\ approved \subseteq approved'
      /\ bundle = "verified" => bundle' = "verified"
      /\ \A x : x \in seenReady \cup overtaken => x \in seenReady' \cup overtaken'
  BY DEF HostGrows, Witnessed, RecordSound
<1>3. CASE EndCommand(t)
  BY <1>3, CommandEnded
<1>4. NewRecord \in SetupRecord /\ NewRecord.read = Unset /\ NewRecord.bridge = Unset
  BY DEF NewRecord, SetupRecord
<1>5. RecordSound(NewRecord) /\ RecordSound(NewRecord)'
  BY <1>4 DEF RecordSound, Witnessed
<1>6. ASSUME NEW kind \in Commandline, Run(t, kind) PROVE SetupInv'
  <2>1. PICK g, sv, st, w :
          /\ g = IF kind \in {"setup", "project"} THEN config.granted ELSE {}
          /\ sv = IF kind \in {"bridge", "repair"} THEN record ELSE NewRecord
          /\ st = CASE kind \in {"setup", "project"} -> "preflight"
                    [] kind = "worker" -> "reading"
                    [] kind = "tunnel" -> "readTunnel"
                    [] kind = "bridge" -> "bridgeTunnel"
                    [] OTHER -> "repairRead"
          /\ w = (kind = "worker")
    OBVIOUS
  <2>2. /\ g \in SUBSET Projects /\ g \subseteq approved
        /\ sv \in SetupRecord /\ RecordSound(sv)
        /\ st \in {"preflight", "reading", "readTunnel", "bridgeTunnel", "repairRead"}
        /\ kind = "repair" <=> st = "repairRead"
        /\ w \in BOOLEAN
    <3>1. g \in SUBSET Projects /\ g \subseteq approved
      BY <1>1, <2>1 DEF ConfigRecord
    <3>2. sv \in SetupRecord /\ RecordSound(sv)
      BY <1>1, <1>4, <1>5, <2>1
    <3>3. /\ st \in {"preflight", "reading", "readTunnel", "bridgeTunnel", "repairRead"}
          /\ kind = "repair" <=> st = "repairRead"
      BY <2>1 DEF Commandline
    <3>4. w \in BOOLEAN
      BY <2>1
    <3> QED
      BY <3>1, <3>2, <3>3, <3>4
  <2>3. PICK k : k = [AtPrompt EXCEPT !.kind = kind, !.worker = w, !.grants = g, !.saw = sv, !.step = st]
    OBVIOUS
  <2>4. k = [kind |-> kind, step |-> st, resume |-> "idle", grants |-> g, worker |-> w,
             before |-> [granted |-> {}, worker |-> FALSE], saw |-> sv,
             held |-> NewRecord, runtime |-> "read", id |-> Unset]
    BY <2>3 DEF AtPrompt
  <2>5. command' = [command EXCEPT ![t] = k]
    BY <1>6, <2>1, <2>3 DEF Run
  <2>6. /\ k \in CommandRecord /\ k.kind = kind /\ k.step = st /\ k.resume = "idle" /\ k.grants = g
        /\ k.before.granted = {} /\ k.saw = sv /\ k.held = NewRecord /\ k.id = Unset
    BY <1>4, <2>2, <2>4 DEF CommandRecord, CommandSteps, Resumes, ConfigRecord, Runtimes
  <2>7. RecordSound(k.saw)' /\ RecordSound(k.held)'
    BY <1>2, <1>5, <2>2, <2>6
  <2>8. HoldsReviewed(k)'
    BY <1>2, <2>2, <2>6, <2>7 DEF HoldsReviewed
  <2> QED
    BY <2>5, <2>6, <2>8, CommandMoved DEF CommandBecomes
<1>7. CASE Preflight(t) /\ ~ EndCommand(t)
  <2>1. PICK p \in Projects, chosen \in BOOLEAN :
          /\ command' = [command EXCEPT ![t].grants = GrantsAfter(command[t], p), ![t].worker = chosen,
                                        ![t].step = "reading"]
          /\ approved' = approved \cup {p}
    BY <1>7 DEF Preflight
  <2>2. old.step = "preflight"
    BY <1>7 DEF Preflight, Doing
  <2>3. PICK k : k = [old EXCEPT !.grants = GrantsAfter(old, p), !.worker = chosen, !.step = "reading"]
    OBVIOUS
  <2>4. /\ k.step = "reading" /\ k.grants = old.grants \cup {p} /\ k.before = old.before
        /\ k.kind = old.kind /\ k.saw = old.saw /\ k.held = old.held
        /\ k.runtime = old.runtime /\ k.id = old.id /\ k.resume = old.resume
        /\ k \in CommandRecord
    BY <1>1, <2>3 DEF CommandRecord, CommandSteps, GrantsAfter
  <2>5. command' = [command EXCEPT ![t] = k]
    BY <1>1, <2>1, <2>3
  <2>6. RecordSound(k.saw)' /\ RecordSound(k.held)'
    BY <1>1, <1>2, <2>4 DEF HoldsReviewed
  <2>7. HoldsReviewed(k)'
    BY <1>1, <1>2, <2>1, <2>2, <2>4, <2>6 DEF HoldsReviewed
  <2> QED
    BY <2>4, <2>5, <2>7, CommandMoved DEF CommandBecomes
\* Only the step changes, and then to one that promises nothing more.
<1>8. ASSUME NEW st \in {"bridgeTunnel", "repairBridge"}, Proceed(t, st),
             old.kind = "repair" => bundle = "verified",
             old.kind = "repair" <=> st = "repairBridge"
      PROVE  SetupInv'
  <2>1. PICK k : k = [old EXCEPT !.step = st]
    OBVIOUS
  <2>2. /\ k \in CommandRecord /\ k.step = st /\ k.resume = old.resume /\ k.before = old.before
        /\ k.kind = old.kind /\ k.grants = old.grants /\ k.saw = old.saw /\ k.held = old.held
    BY <1>1, <2>1 DEF CommandRecord, CommandSteps
  <2>3. command' = [command EXCEPT ![t] = k]
    BY <1>1, <1>8, <2>1 DEF Proceed
  <2>4. RecordSound(k.saw)' /\ RecordSound(k.held)'
    BY <1>1, <1>2, <2>2 DEF HoldsReviewed
  <2>5. HoldsReviewed(k)'
    BY <1>1, <1>2, <1>8, <2>2, <2>4 DEF HoldsReviewed
  <2> QED
    BY <2>2, <2>3, <2>5, CommandMoved DEF CommandBecomes
\* A runtime is chosen.
<1>9. ASSUME NEW k, CommandBecomes(t, k), k.step = "connecting", k.kind = old.kind,
             k.resume = old.resume, k.before = old.before, k.grants = old.grants, k.held = old.held,
             RecordSound(k.saw), bundle = "verified",
             old.kind = "repair" => <<k.runtime, k.id>> \in seenReady \cup overtaken
      PROVE  SetupInv'
  <2>1. RecordSound(k.saw)' /\ RecordSound(k.held)'
    BY <1>1, <1>2, <1>9 DEF HoldsReviewed
  <2>2. HoldsReviewed(k)'
    BY <1>1, <1>2, <1>9, <2>1 DEF HoldsReviewed
  <2> QED
    BY <1>9, <2>2, CommandMoved
<1>10. old.saw \in SetupRecord /\ RecordSound(old.saw)
  BY <1>1 DEF CommandRecord, HoldsReviewed
<1>11. CASE ChooseReadTunnel(t) /\ ~ EndCommand(t)
  <2>1. bundle = "verified" /\ old.kind # "repair"
    BY <1>1, <1>11 DEF ChooseReadTunnel, HoldsReviewed, Doing
  <2>2. CASE Proceed(t, "bridgeTunnel")
    BY <1>8, <2>1, <2>2
  <2>3. CASE \E id \in Tunnels :
               command' = [command EXCEPT ![t].runtime = "read", ![t].id = id, ![t].step = "connecting"]
    <3>1. PICK id \in Tunnels :
            command' = [command EXCEPT ![t].runtime = "read", ![t].id = id, ![t].step = "connecting"]
      BY <2>3
    <3>2. PICK k : k = [old EXCEPT !.runtime = "read", !.id = id, !.step = "connecting"]
      OBVIOUS
    <3>3. command' = [command EXCEPT ![t] = k]
      BY <1>1, <3>1, <3>2
    <3>4. /\ k \in CommandRecord /\ k.step = "connecting" /\ k.resume = old.resume
          /\ k.before = old.before /\ k.kind = old.kind /\ k.grants = old.grants
          /\ k.saw = old.saw /\ k.held = old.held
      BY <1>1, <3>2 DEF CommandRecord, CommandSteps, Runtimes
    <3>5. CommandBecomes(t, k)
      BY <3>3, <3>4 DEF CommandBecomes
    <3> QED
      BY <1>9, <1>10, <2>1, <3>4, <3>5
  <2> QED
    BY <1>11, <2>2, <2>3 DEF ChooseReadTunnel
<1>12. CASE ChooseBridgeTunnel(t) /\ ~ EndCommand(t)
  <2>1. bundle = "verified" /\ old.kind # "repair"
    BY <1>1, <1>12 DEF ChooseBridgeTunnel, HoldsReviewed, Doing
  <2>2. PICK id \in Tunnels :
          command' = [command EXCEPT ![t].runtime = "bridge", ![t].id = id, ![t].saw = NewRecord,
                                     ![t].step = "connecting"]
    BY <1>12 DEF ChooseBridgeTunnel, BridgeIds
  <2>3. PICK k : k = [old EXCEPT !.runtime = "bridge", !.id = id, !.saw = NewRecord, !.step = "connecting"]
    OBVIOUS
  <2>4. command' = [command EXCEPT ![t] = k]
    BY <1>1, <2>2, <2>3
  <2>5. /\ k \in CommandRecord /\ k.step = "connecting" /\ k.resume = old.resume
        /\ k.before = old.before /\ k.kind = old.kind /\ k.grants = old.grants
        /\ k.saw = NewRecord /\ k.held = old.held
    BY <1>1, <1>4, <2>3 DEF CommandRecord, CommandSteps, Runtimes
  <2>6. CommandBecomes(t, k)
    BY <2>4, <2>5 DEF CommandBecomes
  <2> QED
    BY <1>9, <1>5, <2>1, <2>5, <2>6
<1>13. CASE RepairRead(t) /\ ~ EndCommand(t)
  <2>1. /\ bundle = "verified" /\ old.kind = "repair"
        /\ old.saw.read # Unset /\ old.saw.read \in Tunnels
    BY <1>1, <1>10, <1>13 DEF RepairRead, SetupRecord, HoldsReviewed, Doing
  <2>2. CASE Proceed(t, "repairBridge")
    BY <1>8, <2>1, <2>2
  <2>3. CASE command' = [command EXCEPT ![t].runtime = "read", ![t].id = command[t].saw.read,
                                        ![t].step = "connecting"]
    <3>1. PICK k : k = [old EXCEPT !.runtime = "read", !.id = old.saw.read, !.step = "connecting"]
      OBVIOUS
    <3>2. command' = [command EXCEPT ![t] = k]
      BY <1>1, <2>3, <3>1
    <3>3. /\ k \in CommandRecord /\ k.step = "connecting" /\ k.resume = old.resume
          /\ k.before = old.before /\ k.kind = old.kind /\ k.grants = old.grants
          /\ k.saw = old.saw /\ k.held = old.held /\ k.runtime = "read" /\ k.id = old.saw.read
      BY <1>1, <2>1, <3>1 DEF CommandRecord, CommandSteps, Runtimes
    <3>4. CommandBecomes(t, k)
      BY <3>2, <3>3 DEF CommandBecomes
    <3>5. <<k.runtime, k.id>> \in seenReady \cup overtaken
      BY <1>10, <2>1, <3>3 DEF RecordSound, Witnessed
    <3> QED
      BY <1>9, <1>10, <2>1, <3>3, <3>4, <3>5
  <2> QED
    BY <1>13, <2>2, <2>3 DEF RepairRead
<1>14. CASE RepairBridge(t) /\ ~ EndCommand(t)
  <2>1. /\ old.saw.bridge # Unset /\ old.saw.bridge \in Tunnels /\ old.step = "repairBridge"
        /\ command' = [command EXCEPT ![t].runtime = "bridge", ![t].id = old.saw.bridge,
                                      ![t].saw = NewRecord, ![t].step = "connecting"]
    BY <1>1, <1>10, <1>14 DEF RepairBridge, SetupRecord, Doing
  <2>2. bundle = "verified"
    BY <1>1, <2>1 DEF HoldsReviewed
  <2>3. PICK k : k = [old EXCEPT !.runtime = "bridge", !.id = old.saw.bridge, !.saw = NewRecord,
                                 !.step = "connecting"]
    OBVIOUS
  <2>4. command' = [command EXCEPT ![t] = k]
    BY <1>1, <2>1, <2>3
  <2>5. /\ k \in CommandRecord /\ k.step = "connecting" /\ k.resume = old.resume
        /\ k.before = old.before /\ k.kind = old.kind /\ k.grants = old.grants
        /\ k.saw = NewRecord /\ k.held = old.held /\ k.runtime = "bridge" /\ k.id = old.saw.bridge
    BY <1>1, <1>4, <2>1, <2>3 DEF CommandRecord, CommandSteps, Runtimes
  <2>6. CommandBecomes(t, k)
    BY <2>4, <2>5 DEF CommandBecomes
  <2>7. <<k.runtime, k.id>> \in seenReady \cup overtaken
    BY <1>10, <2>1, <2>5 DEF RecordSound, Witnessed
  <2> QED
    BY <1>9, <1>5, <2>2, <2>5, <2>6, <2>7
<1> QED
  BY <1>3, <1>6, <1>7, <1>11, <1>12, <1>13, <1>14

\* A save adds a phase to the record that is held, and the tunnel that is connected.
LEMMA SavedRecord ==
  ASSUME NEW c \in CommandRecord
  PROVE  /\ UpdatedRecord(c) \in SetupRecord
         /\ c.held.phases \subseteq UpdatedRecord(c).phases
         /\ \/ UpdatedRecord(c).read = c.held.read
            \/ c.id # Unset /\ c.runtime = "read" /\ UpdatedRecord(c).read = c.id
         /\ \/ UpdatedRecord(c).bridge = c.held.bridge
            \/ c.id # Unset /\ c.runtime = "bridge" /\ UpdatedRecord(c).bridge = c.id
<1>1. /\ c.held \in SetupRecord /\ c.id \in Tunnels \cup {Unset} /\ c.runtime \in Runtimes
  BY DEF CommandRecord
<1>2. PICK h : h = c.held
  OBVIOUS
<1>3. h \in SetupRecord
  BY <1>1, <1>2
<1>4. CASE c.id # Unset /\ c.runtime = "bridge"
  <2>1. PICK u : u = [h EXCEPT !.phases = @ \cup {"bridge"}, !.bridge = c.id]
    OBVIOUS
  <2>2. UpdatedRecord(c) = u
    BY <1>2, <1>4, <2>1 DEF UpdatedRecord
  <2>3. /\ u \in SetupRecord /\ u.phases = h.phases \cup {"bridge"} /\ u.read = h.read
        /\ u.bridge = c.id
    BY <1>1, <1>3, <2>1 DEF SetupRecord, Phases
  <2> QED
    BY <1>2, <1>4, <2>2, <2>3
<1>5. CASE c.id # Unset /\ c.runtime # "bridge"
  <2>1. PICK u : u = [h EXCEPT !.phases = @ \cup {"tunnel"}, !.read = c.id]
    OBVIOUS
  <2>2. UpdatedRecord(c) = u /\ c.runtime = "read"
    BY <1>1, <1>2, <1>5, <2>1 DEF UpdatedRecord, Runtimes
  <2>3. /\ u \in SetupRecord /\ u.phases = h.phases \cup {"tunnel"} /\ u.bridge = h.bridge
        /\ u.read = c.id
    BY <1>1, <1>3, <2>1 DEF SetupRecord, Phases
  <2> QED
    BY <1>2, <1>5, <2>2, <2>3
<1>6. CASE c.id = Unset
  <2>1. PICK more : more = {ph \in {"gitlab", "worker"} :
                              IF ph = "gitlab" THEN c.kind = "setup" ELSE c.worker}
    OBVIOUS
  <2>2. more \subseteq Phases
    BY <2>1 DEF Phases
  <2>3. PICK u : u = [h EXCEPT !.phases = @ \cup more]
    OBVIOUS
  <2>4. UpdatedRecord(c) = u
    BY <1>2, <1>6, <2>1, <2>3 DEF UpdatedRecord
  <2>5. /\ u \in SetupRecord /\ u.phases = h.phases \cup more /\ u.bridge = h.bridge
        /\ u.read = h.read
    BY <1>3, <2>2, <2>3 DEF SetupRecord
  <2> QED
    BY <1>2, <2>4, <2>5
<1> QED
  BY <1>4, <1>5, <1>6

LEMMA HostGrown ==
  ASSUME SetupInv, SetupNext PROVE HostGrows
<1>1. /\ HostTyped /\ GrantsReviewed /\ RecordSound(record)
      /\ command \in [Terminals -> CommandRecord]
      /\ \A t \in Terminals : HoldsReviewed(command[t])
  BY DEF SetupInv
<1>2. CASE UNCHANGED <<config, copies, record, bundle, running, approved, seenReady, overtaken>>
  BY <1>2, HostGrowsNot
<1>3. CASE approved \subseteq approved' /\ seenReady \subseteq seenReady'
           /\ UNCHANGED <<config, copies, record, bundle, running, overtaken>>
  BY <1>1, <1>3 DEF HostGrows, HostTyped, GrantsReviewed, RecordSound, Witnessed
<1>4. CASE bundle \in {"absent", "verified"} /\ bundle' = "verified"
           /\ UNCHANGED <<config, copies, record, running, approved, seenReady, overtaken>>
  BY <1>1, <1>4 DEF HostGrows, HostTyped, GrantsReviewed, RecordSound, Witnessed
<1>5. ASSUME NEW t \in Terminals, WriteConfig(t) PROVE HostGrows
  <2>1. PICK c : c = command[t]
    OBVIOUS
  <2>2. /\ c \in CommandRecord /\ c.grants \subseteq approved /\ c.before.granted \subseteq approved
        /\ c.before \in ConfigRecord
    BY <1>1, <2>1 DEF HoldsReviewed, CommandRecord
  <2>3. /\ RenderEnvUpdates(c) \in ConfigRecord /\ RenderEnvUpdates(c).granted \subseteq approved
    BY <2>2 DEF RenderEnvUpdates, ConfigRecord, CommandRecord
  <2>4. /\ config' \in {config, RenderEnvUpdates(c)} /\ copies' \subseteq copies \cup {c.before}
        /\ UNCHANGED <<record, bundle, running, approved, seenReady, overtaken>>
    BY <1>5, <2>1 DEF WriteConfig
  <2>5. HostTyped'
    BY <1>1, <2>2, <2>3, <2>4 DEF HostTyped
  <2>6. GrantsReviewed'
    BY <1>1, <2>2, <2>3, <2>4 DEF GrantsReviewed
  <2> QED
    BY <1>1, <2>4, <2>5, <2>6 DEF HostGrows, RecordSound, Witnessed
<1>6. ASSUME NEW t \in Terminals, SaveRecord(t) \/ SavePath(t) PROVE HostGrows
  <2>1. PICK c : c = command[t]
    OBVIOUS
  <2>2. /\ c \in CommandRecord /\ RecordSound(c.held) /\ c.held \in SetupRecord
        /\ c.step = "saving" => Witnessed(c.runtime, c.id)
    BY <1>1, <2>1 DEF HoldsReviewed, CommandRecord
  <2>3. /\ UNCHANGED <<config, copies, bundle, running, approved, seenReady, overtaken>>
        /\ \/ record' = c.held
           \/ c.step = "saving" /\ record' = UpdatedRecord(c)
    BY <1>6, <2>1 DEF SaveRecord, SavePath, Doing
  <2>4. record' \in SetupRecord /\ RecordSound(record')
    BY <2>2, <2>3, SavedRecord DEF RecordSound, Witnessed
  <2> QED
    BY <1>1, <2>3, <2>4 DEF HostGrows, HostTyped, GrantsReviewed, RecordSound, Witnessed
\* A client is replaced: who waits for the one before is overtaken.
<1>7. ASSUME NEW t \in Terminals, ConnectRuntime(t),
             ~ UNCHANGED <<config, copies, record, bundle, running, approved, seenReady, overtaken>>
      PROVE  HostGrows
  <2>1. PICK c : c = command[t]
    OBVIOUS
  <2>2. c \in CommandRecord /\ c.id \in Tunnels \cup {Unset} /\ c.runtime \in Runtimes
    BY <1>1, <2>1 DEF CommandRecord
  <2>3. /\ UNCHANGED <<config, copies, record, bundle, approved, seenReady>>
        /\ running' = [running EXCEPT ![c.runtime] = [tunnel |-> c.id, ready |-> FALSE]]
        /\ overtaken' = overtaken \cup
             {<<command[u].runtime, command[u].id>> : u \in {v \in Terminals :
                Doing(v, "awaiting") /\ command[v].runtime = c.runtime}}
    BY <1>7, <2>1 DEF ConnectRuntime, setupFiles
  <2>4. running' \in [Runtimes -> ServedRecord]
        /\ \A r \in Runtimes \ {c.runtime} : running'[r] = running[r]
    BY <1>1, <2>2, <2>3 DEF HostTyped, ServedRecord
  <2>5. ASSUME NEW u \in Terminals, command[u].step = "awaiting"
        PROVE  \/ running'[command[u].runtime].tunnel = running[command[u].runtime].tunnel
               \/ <<command[u].runtime, command[u].id>> \in overtaken'
    <3>1. command[u].runtime \in Runtimes
      BY <1>1 DEF CommandRecord
    <3>2. CASE command[u].runtime = c.runtime
      BY <2>3, <2>5, <3>2 DEF Doing
    <3>3. CASE command[u].runtime # c.runtime
      BY <2>4, <3>1, <3>3
    <3> QED
      BY <3>2, <3>3
  <2>6. overtaken \subseteq overtaken'
    BY <2>3
  <2>7. HostTyped' /\ GrantsReviewed' /\ RecordSound(record)'
    BY <1>1, <2>3, <2>4, <2>6 DEF HostTyped, GrantsReviewed, RecordSound, Witnessed
  <2> QED
    BY <2>3, <2>5, <2>6, <2>7 DEF HostGrows
<1>8. ASSUME NEW r \in Runtimes, RuntimeReady(r) \/ RuntimeLapses(r) PROVE HostGrows
  <2>1. PICK ready \in BOOLEAN : running' = [running EXCEPT ![r].ready = ready]
    BY <1>8 DEF RuntimeReady, RuntimeLapses
  <2>2. UNCHANGED <<config, copies, record, bundle, approved, seenReady, overtaken>>
    BY <1>8 DEF RuntimeReady, RuntimeLapses, setupFiles
  <2>3. PICK s : s = [running[r] EXCEPT !.ready = ready]
    OBVIOUS
  <2>4. s \in ServedRecord /\ s.tunnel = running[r].tunnel
    BY <1>1, <2>3 DEF HostTyped, ServedRecord
  <2>5. running' = [running EXCEPT ![r] = s]
    BY <1>1, <2>1, <2>3 DEF HostTyped
  <2>6. running' \in [Runtimes -> ServedRecord]
        /\ \A q \in Runtimes : running'[q].tunnel = running[q].tunnel
    BY <1>1, <2>4, <2>5 DEF HostTyped
  <2>7. \A t \in Terminals : command[t].runtime \in Runtimes
    BY <1>1 DEF CommandRecord
  <2> QED
    BY <1>1, <2>2, <2>6, <2>7 DEF HostGrows, HostTyped, GrantsReviewed, RecordSound, Witnessed
<1>9. ASSUME NEW t \in Terminals,
             \/ \E kind \in Commandline : Run(t, kind)
             \/ ReadConfig(t) \/ LoadRecord(t) \/ LoadForPath(t) \/ ReloadRecord(t)
             \/ ChooseReadTunnel(t) \/ ChooseBridgeTunnel(t) \/ RepairRead(t) \/ RepairBridge(t)
             \/ Interrupted(t)
      PROVE  HostGrows
  BY <1>2, <1>9 DEF Run, ReadConfig, LoadRecord, LoadForPath, ReloadRecord, ChooseReadTunnel,
                    ChooseBridgeTunnel, RepairRead, RepairBridge, Interrupted, setupFiles
<1>10. ASSUME NEW t \in Terminals, Preflight(t) \/ AwaitReady(t) PROVE HostGrows
  BY <1>3, <1>10 DEF Preflight, AwaitReady, setupFiles
<1>11. ASSUME NEW t \in Terminals, InstallClient(t) PROVE HostGrows
  <2>1. bundle \in {"absent", "verified"}
    BY <1>1 DEF HostTyped
  <2> QED
    BY <1>2, <1>4, <1>11, <2>1 DEF InstallClient, setupFiles
<1> QED
  BY <1>2, <1>5, <1>6, <1>7, <1>8, <1>9, <1>10, <1>11 DEF SetupNext, CommandStep

\* The steps of a command that change a file, the client or a runtime.
LEMMA CommandWrites ==
  ASSUME SetupInv, NEW t \in Terminals, HostGrows,
         \/ WriteConfig(t) \/ SaveRecord(t) \/ SavePath(t) \/ InstallClient(t)
         \/ ConnectRuntime(t) \/ AwaitReady(t)
  PROVE  SetupInv'
<1> DEFINE old == command[t]
<1>1. /\ command \in [Terminals -> CommandRecord] /\ old \in CommandRecord /\ HoldsReviewed(old)
      /\ bundle \in {"absent", "verified"} /\ running \in [Runtimes -> ServedRecord]
  BY DEF SetupInv, HostTyped
<1>2. /\ \A r, id : Witnessed(r, id) => Witnessed(r, id)'
      /\ \A rec : RecordSound(rec) => RecordSound(rec)'
      /\ approved \subseteq approved'
      /\ bundle = "verified" => bundle' = "verified"
  BY DEF HostGrows, Witnessed, RecordSound
<1>3. CASE EndCommand(t)
  BY <1>3, CommandEnded
<1>4. NewRecord \in SetupRecord /\ NewRecord.read = Unset /\ NewRecord.bridge = Unset
  BY DEF NewRecord, SetupRecord
<1>5. RecordSound(NewRecord)'
  BY <1>4 DEF RecordSound, Witnessed
<1>6. CASE WriteConfig(t) /\ ~ EndCommand(t)
  <2>1. /\ old.step = "writing"
        /\ command' = [command EXCEPT ![t].grants = {}, ![t].before = AtPrompt.before,
                                      ![t].step = "loading"]
    BY <1>6 DEF WriteConfig, Doing
  <2>2. PICK b : b = AtPrompt.before
    OBVIOUS
  <2>3. b \in ConfigRecord /\ b.granted = {}
    BY <2>2 DEF AtPrompt, ConfigRecord
  <2>4. PICK k : k = [old EXCEPT !.grants = {}, !.before = b, !.step = "loading"]
    OBVIOUS
  <2>5. command' = [command EXCEPT ![t] = k]
    BY <1>1, <2>1, <2>2, <2>4
  <2>6. /\ k \in CommandRecord /\ k.step = "loading" /\ k.grants = {} /\ k.before = b
        /\ k.kind = old.kind /\ k.resume = old.resume /\ k.saw = old.saw /\ k.held = old.held
        /\ k.runtime = old.runtime /\ k.id = old.id
    BY <1>1, <2>3, <2>4 DEF CommandRecord, CommandSteps
  <2>7. RecordSound(k.saw)' /\ RecordSound(k.held)'
    BY <1>1, <1>2, <2>6 DEF HoldsReviewed
  <2>8. k.id = Unset
    BY <1>1, <2>1, <2>6 DEF HoldsReviewed
  <2>9. HoldsReviewed(k)'
    BY <1>1, <1>2, <2>1, <2>3, <2>6, <2>7, <2>8 DEF HoldsReviewed, Witnessed
  <2> QED
    BY <2>5, <2>6, <2>9, CommandMoved DEF CommandBecomes
<1>7. CASE SaveRecord(t) /\ old.kind = "setup" /\ ~ EndCommand(t)
  <2>1. PICK step \in {"readTunnel", "bridgeTunnel"} :
          command' = [command EXCEPT ![t].held = NewRecord, ![t].worker = FALSE, ![t].step = step]
    BY <1>7 DEF SaveRecord
  <2>2. PICK k : k = [old EXCEPT !.held = NewRecord, !.worker = FALSE, !.step = step]
    OBVIOUS
  <2>3. command' = [command EXCEPT ![t] = k]
    BY <1>1, <2>1, <2>2
  <2>4. /\ k \in CommandRecord /\ k.step = step /\ k.grants = old.grants /\ k.before = old.before
        /\ k.kind = old.kind /\ k.resume = old.resume /\ k.saw = old.saw /\ k.held = NewRecord
    BY <1>1, <1>4, <2>2 DEF CommandRecord, CommandSteps
  <2>5. RecordSound(k.saw)' /\ RecordSound(k.held)'
    BY <1>1, <1>2, <1>5, <2>4 DEF HoldsReviewed
  <2>6. HoldsReviewed(k)'
    BY <1>1, <1>2, <1>7, <2>4, <2>5 DEF HoldsReviewed
  <2> QED
    BY <2>3, <2>4, <2>6, CommandMoved DEF CommandBecomes
<1>8. CASE SaveRecord(t) /\ old.kind = "repair" /\ ~ EndCommand(t)
  <2>1. /\ old.step = "saving"
        /\ command' = [command EXCEPT ![t].held = NewRecord, ![t].step = "reloading",
                                      ![t].resume = "repairBridge"]
    BY <1>8 DEF SaveRecord, Doing
  <2>2. PICK k : k = [old EXCEPT !.held = NewRecord, !.step = "reloading", !.resume = "repairBridge"]
    OBVIOUS
  <2>3. command' = [command EXCEPT ![t] = k]
    BY <1>1, <2>1, <2>2
  <2>4. /\ k \in CommandRecord /\ k.step = "reloading" /\ k.grants = old.grants /\ k.before = old.before
        /\ k.kind = old.kind /\ k.resume = "repairBridge" /\ k.saw = old.saw /\ k.held = NewRecord
    BY <1>1, <1>4, <2>2 DEF CommandRecord, CommandSteps, Resumes
  <2>5. RecordSound(k.saw)' /\ RecordSound(k.held)'
    BY <1>1, <1>2, <1>5, <2>4 DEF HoldsReviewed
  <2>6. HoldsReviewed(k)'
    BY <1>1, <1>2, <1>8, <2>1, <2>4, <2>5 DEF HoldsReviewed
  <2> QED
    BY <2>3, <2>4, <2>6, CommandMoved DEF CommandBecomes
<1>9. CASE SavePath(t)
  <2>1. PICK step, resume :
          /\ step = IF old.kind = "repair" THEN "reloading" ELSE old.resume
          /\ resume = IF old.kind = "repair" THEN old.resume ELSE "idle"
    OBVIOUS
  <2>2. PICK k : k = [old EXCEPT !.held = NewRecord, !.resume = resume, !.step = step]
    OBVIOUS
  <2>3. command' = [command EXCEPT ![t] = k] /\ old.step = "keepingPath"
    BY <1>1, <1>9, <2>1, <2>2 DEF SavePath, Doing
  <2>4. old.resume \in Resumes /\ resume \in Resumes /\ step \in Resumes \cup {"reloading"}
    BY <1>1, <2>1 DEF CommandRecord, Resumes
  <2>5. /\ k \in CommandRecord /\ k.step = step /\ k.grants = old.grants /\ k.before = old.before
        /\ k.kind = old.kind /\ k.resume = resume /\ k.saw = old.saw /\ k.held = NewRecord
    BY <1>1, <1>4, <2>2, <2>4 DEF CommandRecord, CommandSteps, Resumes
  <2>6. RecordSound(k.saw)' /\ RecordSound(k.held)'
    BY <1>1, <1>2, <1>5, <2>5 DEF HoldsReviewed
  <2>7. HoldsReviewed(k)'
    <3>1. CASE old.kind = "repair"
      BY <1>1, <1>2, <2>1, <2>3, <2>5, <2>6, <3>1 DEF HoldsReviewed
    <3>2. CASE old.kind # "repair"
      BY <1>1, <1>2, <2>1, <2>3, <2>4, <2>5, <2>6, <3>2 DEF HoldsReviewed, Resumes
    <3> QED
      BY <3>1, <3>2
  <2> QED
    BY <2>3, <2>5, <2>7, CommandMoved DEF CommandBecomes
<1>10. CASE InstallClient(t) /\ ~ EndCommand(t)
  <2>1. /\ old.step \in {"readTunnel", "bridgeTunnel", "repairRead"} /\ bundle' = "verified"
        /\ command' = [command EXCEPT ![t].resume = old.step, ![t].step = "installed"]
    BY <1>10 DEF InstallClient
  <2>2. PICK k : k = [old EXCEPT !.resume = old.step, !.step = "installed"]
    OBVIOUS
  <2>3. command' = [command EXCEPT ![t] = k]
    BY <1>1, <2>1, <2>2
  <2>4. /\ k \in CommandRecord /\ k.step = "installed" /\ k.grants = old.grants /\ k.before = old.before
        /\ k.kind = old.kind /\ k.resume = old.step /\ k.saw = old.saw /\ k.held = old.held
    BY <1>1, <2>1, <2>2 DEF CommandRecord, CommandSteps, Resumes
  <2>5. RecordSound(k.saw)' /\ RecordSound(k.held)'
    BY <1>1, <1>2, <2>4 DEF HoldsReviewed
  <2>6. HoldsReviewed(k)'
    BY <1>1, <1>2, <2>1, <2>4, <2>5 DEF HoldsReviewed
  <2> QED
    BY <2>3, <2>4, <2>6, CommandMoved DEF CommandBecomes
<1>11. ASSUME NEW step \in {"awaiting", "loading"}, Proceed(t, step),
              old.step # "repairRead",
              step = "awaiting" =>
                running'[old.runtime].tunnel = old.id,
              step = "loading" => <<old.runtime, old.id>> \in seenReady' \cup overtaken'
       PROVE  SetupInv'
  <2>1. PICK k : k = [old EXCEPT !.step = step]
    OBVIOUS
  <2>2. command' = [command EXCEPT ![t] = k]
    BY <1>1, <1>11, <2>1 DEF Proceed
  <2>3. /\ k \in CommandRecord /\ k.step = step /\ k.grants = old.grants /\ k.before = old.before
        /\ k.kind = old.kind /\ k.resume = old.resume /\ k.saw = old.saw /\ k.held = old.held
        /\ k.runtime = old.runtime /\ k.id = old.id
    BY <1>1, <2>1 DEF CommandRecord, CommandSteps
  <2>4. RecordSound(k.saw)' /\ RecordSound(k.held)'
    BY <1>1, <1>2, <2>3 DEF HoldsReviewed
  <2>5. HoldsReviewed(k)'
    BY <1>1, <1>2, <1>11, <2>3, <2>4 DEF HoldsReviewed, Witnessed
  <2> QED
    BY <2>2, <2>3, <2>5, CommandMoved DEF CommandBecomes
<1>12. old.runtime \in Runtimes /\ old.id \in Tunnels \cup {Unset}
  BY <1>1 DEF CommandRecord
<1>13. CASE ConnectRuntime(t) /\ ~ EndCommand(t)
  <2>1. /\ old.step = "connecting" /\ Proceed(t, "awaiting")
        /\ running' = [running EXCEPT ![old.runtime] = [tunnel |-> old.id, ready |-> FALSE]]
    BY <1>13 DEF ConnectRuntime, Doing
  <2>2. running'[old.runtime].tunnel = old.id
    BY <1>1, <1>12, <2>1
  <2> QED
    BY <1>11, <2>1, <2>2
<1>14. CASE AwaitReady(t) /\ ~ EndCommand(t)
  <2>1. /\ old.step = "awaiting" /\ Proceed(t, "loading")
        /\ seenReady' = seenReady \cup {<<old.runtime, running[old.runtime].tunnel>>}
        /\ UNCHANGED overtaken
    BY <1>14 DEF AwaitReady, Doing
  <2>2. running[old.runtime].tunnel = old.id \/ <<old.runtime, old.id>> \in overtaken
    BY <1>1, <2>1 DEF HoldsReviewed
  <2>3. <<old.runtime, old.id>> \in seenReady' \cup overtaken'
    BY <2>1, <2>2
  <2> QED
    BY <1>11, <2>1, <2>3
<1> QED
  BY <1>3, <1>6, <1>7, <1>8, <1>9, <1>10, <1>13, <1>14 DEF SaveRecord

LEMMA SetupSteps ==
  ASSUME SetupInv, [SetupNext]_setupVars PROVE SetupInv'
<1>1. CASE UNCHANGED setupVars
  <2>1. HostGrows
    BY <1>1, HostGrowsNot DEF setupVars
  <2>2. command' = command
    BY <1>1 DEF setupVars
  <2>3. \A t \in Terminals : HoldsReviewed(command[t])'
    BY <2>1, <2>2, CommandKept
  <2> QED
    BY <2>1, <2>2, <2>3 DEF HostGrows, SetupInv
<1>2. CASE SetupNext
  <2>1. HostGrows
    BY <1>2, HostGrown
  <2>2. CASE \E r \in Runtimes : RuntimeReady(r) \/ RuntimeLapses(r)
    <3>1. command' = command
      BY <2>2 DEF RuntimeReady, RuntimeLapses
    <3>2. \A t \in Terminals : HoldsReviewed(command[t])'
      BY <2>1, <3>1, CommandKept
    <3> QED
      BY <2>1, <3>1, <3>2 DEF HostGrows, SetupInv
  <2>3. ASSUME NEW t \in Terminals,
               (\E kind \in Commandline : Run(t, kind)) \/ CommandStep(t) \/ Interrupted(t)
        PROVE  SetupInv'
    <3>1. CASE Interrupted(t)
      BY <2>1, <3>1, CommandEnded DEF Interrupted
    <3>2. CASE (\E kind \in Commandline : Run(t, kind)) \/ CommandStep(t)
      BY <2>1, <3>2, CommandReads, CommandIsTold, CommandWrites DEF CommandStep
    <3> QED
      BY <2>3, <3>1, <3>2
  <2> QED
    BY <1>2, <2>2, <2>3 DEF SetupNext
<1> QED
  BY <1>1, <1>2

LEMMA SetupStart == SetupInit => SetupInv
<1> SUFFICES ASSUME SetupInit PROVE SetupInv
  OBVIOUS
<1>1. /\ NewRecord \in SetupRecord /\ RecordSound(NewRecord)
      /\ AtPrompt \in CommandRecord /\ HoldsReviewed(AtPrompt)
  <2>1. NewRecord \in SetupRecord /\ RecordSound(NewRecord)
    BY DEF NewRecord, SetupRecord, RecordSound, Witnessed
  <2>2. AtPrompt \in CommandRecord
    BY <2>1 DEF AtPrompt, CommandRecord, CommandSteps, Resumes, ConfigRecord, Runtimes
  <2>3. HoldsReviewed(AtPrompt)
    BY <2>1 DEF AtPrompt, HoldsReviewed
  <2> QED
    BY <2>1, <2>2, <2>3
<1>2. /\ command \in [Terminals -> CommandRecord]
      /\ \A t \in Terminals : HoldsReviewed(command[t])
      /\ copies = {}
  BY <1>1 DEF SetupInit
<1>3. CASE NewHost
  <2>1. HostTyped
    BY <1>1, <1>2, <1>3 DEF NewHost, HostTyped, ConfigRecord, ServedRecord
  <2>2. GrantsReviewed
    BY <1>2, <1>3 DEF NewHost, GrantsReviewed
  <2> QED
    BY <1>1, <1>2, <1>3, <2>1, <2>2 DEF NewHost, SetupInv
<1>4. CASE ConfiguredHost
  <2>1. PICK p \in Projects, id \in Tunnels, other \in Tunnels \cup {Unset} :
          /\ config = [granted |-> {p}, worker |-> TRUE]
          /\ LET bridge == IF other = Unset THEN {} ELSE {"bridge"}
             IN record = [phases |-> {"gitlab", "worker", "tunnel"} \cup bridge,
                          read |-> id, bridge |-> other]
          /\ bundle = "verified"
          /\ running = [r \in Runtimes |-> [tunnel |-> RecordedId(record, r), ready |-> FALSE]]
          /\ approved = {p}
          /\ seenReady = {<<r, RecordedId(record, r)>> : r \in Runtimes}
    BY <1>4 DEF ConfiguredHost
  <2>2. PICK phases : phases = {"gitlab", "worker", "tunnel"} \cup
                                (IF other = Unset THEN {} ELSE {"bridge"})
    OBVIOUS
  <2>3. phases \subseteq Phases /\ record = [phases |-> phases, read |-> id, bridge |-> other]
    BY <2>1, <2>2 DEF Phases
  <2>4. record \in SetupRecord /\ record.read = id /\ record.bridge = other
    BY <2>3 DEF SetupRecord
  <2>5. running \in [Runtimes -> ServedRecord]
    BY <2>1, <2>4 DEF ServedRecord, RecordedId
  <2>6. HostTyped
    BY <1>2, <2>1, <2>4, <2>5 DEF HostTyped, ConfigRecord
  <2>7. GrantsReviewed
    BY <1>2, <2>1 DEF GrantsReviewed
  <2>8. RecordSound(record)
    BY <2>1 DEF RecordSound, Witnessed, RecordedId, Runtimes
  <2> QED
    BY <1>2, <2>6, <2>7, <2>8 DEF SetupInv
<1> QED
  BY <1>3, <1>4 DEF SetupInit

LEMMA SetupInvSound ==
  ASSUME SetupInv PROVE SetupSound
<1>1. RecordedWasReady
  BY DEF SetupInv, RecordedWasReady, RecordSound, Witnessed, RecordedId, Runtimes
<1> QED
  BY <1>1 DEF SetupInv, SetupSound

\* However the commands of several terminals overlap, and wherever they are interrupted, the
\* allowlist in force and its backups grant only projects whose preflight passed and that
\* the user approved, and every recorded tunnel was seen ready under its runtime's name, or
\* was overtaken while a command waited for it (setup_config.py, setup_state.py,
\* setup_tunnel.py, setup_bridge.py).
THEOREM SetupLeavesTheReviewed == SetupSpec => []SetupSound
<1>1. SetupInv /\ [SetupNext]_setupVars => SetupInv'
  BY SetupSteps
<1> QED
  BY <1>1, SetupStart, SetupInvSound, PTL DEF SetupSpec

\* A save that loses a phase holds a record that has changed under it.
LEMMA PhasesStay ==
  ASSUME SetupInv, SetupNext
  PROVE  \/ record.phases \subseteq record'.phases
         \/ \E t \in Terminals : /\ command[t].step \in {"saving", "keepingPath"}
                                 /\ command[t].held # record
<1>1. CASE record' = record
  BY <1>1
<1>2. CASE \E t \in Terminals : SaveRecord(t) \/ SavePath(t)
  <2>1. PICK t \in Terminals : SaveRecord(t) \/ SavePath(t)
    BY <1>2
  <2>2. PICK c : c = command[t]
    OBVIOUS
  <2>3. c \in CommandRecord /\ c.step \in {"saving", "keepingPath"}
    BY <2>1, <2>2 DEF SetupInv, SaveRecord, SavePath, Doing
  <2>4. record' = c.held \/ record' = UpdatedRecord(c)
    BY <2>1, <2>2 DEF SaveRecord, SavePath
  <2>5. c.held.phases \subseteq record'.phases
    BY <2>3, <2>4, SavedRecord
  <2> QED
    BY <2>2, <2>3, <2>5
<1>3. CASE ~ (\E t \in Terminals : SaveRecord(t) \/ SavePath(t))
  <2> SUFFICES record' = record
    BY <1>1
  <2>1. \A t \in Terminals : Preflight(t) \/ WriteConfig(t) \/ InstallClient(t) => record' = record
    BY DEF Preflight, WriteConfig, InstallClient, setupFiles
  <2>2. \A t \in Terminals : ReadConfig(t) \/ LoadRecord(t) \/ LoadForPath(t) \/ ReloadRecord(t)
                               => record' = record
    BY DEF ReadConfig, LoadRecord, LoadForPath, ReloadRecord, setupFiles
  <2>3. \A t \in Terminals : ChooseReadTunnel(t) \/ ChooseBridgeTunnel(t) \/ RepairRead(t)
                               \/ RepairBridge(t) => record' = record
    BY DEF ChooseReadTunnel, ChooseBridgeTunnel, RepairRead, RepairBridge, setupFiles
  <2>4. \A t \in Terminals : ConnectRuntime(t) \/ AwaitReady(t) \/ Interrupted(t) => record' = record
    BY DEF ConnectRuntime, AwaitReady, Interrupted, setupFiles
  <2>5. \A t \in Terminals, kind \in Commandline : Run(t, kind) => record' = record
    BY DEF Run, setupFiles
  <2>6. \A r \in Runtimes : RuntimeReady(r) \/ RuntimeLapses(r) => record' = record
    BY DEF RuntimeReady, RuntimeLapses, setupFiles
  <2>7. ASSUME NEW t \in Terminals, CommandStep(t), ~ (SaveRecord(t) \/ SavePath(t))
        PROVE  record' = record
    BY <2>1, <2>2, <2>3, <2>4, <2>7 DEF CommandStep
  <2>8. CASE \E t \in Terminals, kind \in Commandline : Run(t, kind)
    BY <2>5, <2>8
  <2>9. CASE \E t \in Terminals : CommandStep(t) \/ Interrupted(t)
    BY <1>3, <2>4, <2>7, <2>9
  <2>10. CASE \E r \in Runtimes : RuntimeReady(r) \/ RuntimeLapses(r)
    BY <2>6, <2>10
  <2> QED
    BY <2>8, <2>9, <2>10 DEF SetupNext
<1> QED
  BY <1>1, <1>2, <1>3

\* What is connected is what a connecting command chose; a repair chose what was recorded.
LEMMA ConnectedWasRecorded ==
  ASSUME SetupInv, SetupNext, NEW r \in Runtimes, running'[r].tunnel # running[r].tunnel
  PROVE  /\ bundle = "verified"
         /\ \E t \in Terminals :
              /\ Doing(t, "connecting")
              /\ command[t].kind = "repair" =>
                   <<r, running'[r].tunnel>> \in seenReady \cup overtaken
<1>1. running \in [Runtimes -> ServedRecord] /\ command \in [Terminals -> CommandRecord]
  BY DEF SetupInv, HostTyped
<1>2. CASE \E t \in Terminals : ConnectRuntime(t)
  <2>1. PICK t \in Terminals : ConnectRuntime(t)
    BY <1>2
  <2>2. PICK c : c = command[t]
    OBVIOUS
  <2>3. c \in CommandRecord /\ HoldsReviewed(c) /\ c.runtime \in Runtimes
    BY <1>1, <2>2 DEF SetupInv, CommandRecord
  <2>4. /\ Doing(t, "connecting") /\ c.step = "connecting"
        /\ running' = [running EXCEPT ![c.runtime] = [tunnel |-> c.id, ready |-> FALSE]]
    BY <2>1, <2>2 DEF ConnectRuntime, Doing
  <2>5. r = c.runtime /\ running'[r].tunnel = c.id
    BY <1>1, <2>3, <2>4
  <2>6. bundle = "verified"
    BY <2>3, <2>4 DEF HoldsReviewed
  <2>7. c.kind = "repair" => <<r, running'[r].tunnel>> \in seenReady \cup overtaken
    BY <2>3, <2>4, <2>5 DEF HoldsReviewed
  <2> QED
    BY <2>2, <2>4, <2>6, <2>7
<1>3. CASE \E q \in Runtimes : RuntimeReady(q) \/ RuntimeLapses(q)
  <2>1. PICK q \in Runtimes, ready \in BOOLEAN : running' = [running EXCEPT ![q].ready = ready]
    BY <1>3 DEF RuntimeReady, RuntimeLapses
  <2>2. running'[r].tunnel = running[r].tunnel
    BY <1>1, <2>1 DEF ServedRecord
  <2> QED
    BY <2>2
<1>4. CASE ~ (\E t \in Terminals : ConnectRuntime(t))
  <2>1. \A t \in Terminals : Preflight(t) \/ WriteConfig(t) \/ InstallClient(t) => running' = running
    BY DEF Preflight, WriteConfig, InstallClient
  <2>2. \A t \in Terminals : ReadConfig(t) \/ LoadRecord(t) \/ LoadForPath(t) \/ ReloadRecord(t)
                               => running' = running
    BY DEF ReadConfig, LoadRecord, LoadForPath, ReloadRecord
  <2>3. \A t \in Terminals : ChooseReadTunnel(t) \/ ChooseBridgeTunnel(t) \/ RepairRead(t)
                               \/ RepairBridge(t) => running' = running
    BY DEF ChooseReadTunnel, ChooseBridgeTunnel, RepairRead, RepairBridge
  <2>4. \A t \in Terminals : SaveRecord(t) \/ SavePath(t) \/ AwaitReady(t) \/ Interrupted(t)
                               => running' = running
    BY DEF SaveRecord, SavePath, AwaitReady, Interrupted
  <2>5. \A t \in Terminals, kind \in Commandline : Run(t, kind) => running' = running
    BY DEF Run
  <2>6. ASSUME NEW t \in Terminals, CommandStep(t), ~ ConnectRuntime(t)
        PROVE  running' = running
    BY <2>1, <2>2, <2>3, <2>4, <2>6 DEF CommandStep
  <2>7. CASE \E t \in Terminals, kind \in Commandline : Run(t, kind)
    BY <2>5, <2>7
  <2>8. CASE \E t \in Terminals : CommandStep(t) \/ Interrupted(t)
    BY <1>4, <2>4, <2>6, <2>8
  <2> QED
    BY <1>3, <2>7, <2>8 DEF SetupNext
<1> QED
  BY <1>2, <1>4

\* No phase is lost unless the record changed under the command that saves it
\* (persist_tunnel_state(), persist_bridge_state() and _persist_progress() save all of what
\* they loaded).
THEOREM PhasesAreKept == SetupSpec => PhasesKept
<1>1. SetupInv /\ [SetupNext]_setupVars => SetupInv'
  BY SetupSteps
<1>2. SetupInv /\ [SetupNext]_setupVars =>
        [record.phases \subseteq record'.phases
           \/ \E t \in Terminals : /\ command[t].step \in {"saving", "keepingPath"}
                                   /\ command[t].held # record]_setupVars
  BY PhasesStay
<1> QED
  BY <1>1, <1>2, SetupStart, PTL DEF SetupSpec, PhasesKept

\* No client runs that was not verified, and what a repair connects was recorded, and so
\* seen ready or overtaken, before (_run_setup_repair(): "it only uses tunnel IDs already
\* persisted").
THEOREM RepairsConnectTheRecorded == SetupSpec => RepairOnlyRecorded
<1>1. SetupInv /\ [SetupNext]_setupVars => SetupInv'
  BY SetupSteps
<1>2. SetupInv /\ [SetupNext]_setupVars =>
        [\A r \in Runtimes : running'[r].tunnel # running[r].tunnel =>
           /\ bundle = "verified"
           /\ \E t \in Terminals :
                /\ Doing(t, "connecting")
                /\ command[t].kind = "repair" =>
                     <<r, running'[r].tunnel>> \in seenReady \cup overtaken]_setupVars
  BY ConnectedWasRecorded
<1> QED
  BY <1>1, <1>2, SetupStart, PTL DEF SetupSpec, RepairOnlyRecorded

-----------------------------------------------------------------------------
(***************************************************************************)
(* Side by side: the subjects share no variable, so each keeps its own     *)
(* invariant while another one moves.                                      *)
(***************************************************************************)
SideInv == SetupInv /\ RecordsInv /\ RemoteInv

\* A step of one subject is a step or a stutter of every other.
LEMMA SidesApart ==
  ASSUME [SideNext]_setupSideVars
  PROVE  [SetupNext]_setupVars /\ [RecordsNext]_recordsVars /\ [RemoteNext]_remoteVars
BY DEF SideNext, setupSideVars

LEMMA SideStart ==
  ASSUME SideInit PROVE SideInv
BY SetupStart, RecordsStart, RemoteStarts DEF SideInit, SideInv

LEMMA SideKept ==
  ASSUME SideInv, [SideNext]_setupSideVars PROVE SideInv'
<1>1. [SetupNext]_setupVars /\ [RecordsNext]_recordsVars /\ [RemoteNext]_remoteVars
  BY SidesApart
<1>2. SetupInv'
  BY <1>1, SetupSteps DEF SideInv
<1>3. RecordsInv'
  BY <1>1, RecordsStep, RecordsStutter DEF SideInv
<1>4. RemoteInv'
  BY <1>1, RemoteSteps DEF SideInv
<1> QED
  BY <1>2, <1>3, <1>4 DEF SideInv

\* What is set up on a host, and what is recorded there for an upgrade, is what was
\* reviewed, for every number of terminals, adopters, preparers and reviewers.
THEOREM HostIsAsReviewed == SideSpec => []HostRecordsSound
<1>1. SideInit => SideInv
  BY SideStart
<1>2. SideInv /\ [SideNext]_setupSideVars => SideInv'
  BY SideKept
<1>3. SideInv => HostRecordsSound
  BY SetupInvSound, RecordsInvSound DEF SideInv, HostRecordsSound
<1> QED
  BY <1>1, <1>2, <1>3, PTL DEF SideSpec

\* The fourth subject is proved of in ApprovalProofs; beside the others it behaves as alone.
LEMMA ApprovalBeside == SideSpec => ApprovalSpec
<1>1. SideInit => ApprovalInit
  BY DEF SideInit
<1>2. [SideNext]_setupSideVars => [ApprovalNext]_allVars
  BY DEF SideNext, setupSideVars
<1> QED
  BY <1>1, <1>2, PTL DEF SideSpec, ApprovalSpec

\* No step loses a recorded phase that its command had read, connects a tunnel that nobody
\* recorded, replaces a record, leaves a commit of the worktree behind, or answers a request
\* otherwise than was promised.
THEOREM NoStepForgets == SideSpec => SideSteps
<1>1. SideInit => SideInv
  BY SideStart
<1>2. SideInv /\ [SideNext]_setupSideVars => SideInv'
  BY SideKept
<1>3. [SideNext]_setupSideVars =>
        [SetupNext]_setupVars /\ [RecordsNext]_recordsVars /\ [RemoteNext]_remoteVars
  BY SidesApart
<1>4. SideInv => SetupInv /\ RecordsInv /\ RemoteInv
  BY DEF SideInv
<1>5. SetupInv /\ [SetupNext]_setupVars =>
        [record.phases \subseteq record'.phases
           \/ \E t \in Terminals : /\ command[t].step \in {"saving", "keepingPath"}
                                   /\ command[t].held # record]_setupVars
  BY PhasesStay
<1>6. SetupInv /\ [SetupNext]_setupVars =>
        [\A r \in Runtimes : running'[r].tunnel # running[r].tunnel =>
           /\ bundle = "verified"
           /\ \E t \in Terminals :
                /\ Doing(t, "connecting")
                /\ command[t].kind = "repair" =>
                     <<r, running'[r].tunnel>> \in seenReady \cup overtaken]_setupVars
  BY ConnectedWasRecorded
<1>7. RecordsInv /\ [RecordsNext]_recordsVars =>
        [/\ adopted # NoRecord => adopted' = adopted
         /\ \A id \in Inputs :
              runtimes[id].manifest =>
                /\ runtimes'[id].manifest
                /\ runtimes'[id].wheels = runtimes[id].wheels
                /\ runtimes'[id].python = runtimes[id].python]_recordsVars
  BY RecordsStep DEF Forward
<1>8. RemoteInv /\ [RemoteNext]_remoteVars => [(head \in Ancestry(head)')]_remoteVars
  BY RemoteSteps DEF HostKept
<1>9. SideSpec => PhasesKept
  BY <1>1, <1>2, <1>3, <1>4, <1>5, PTL DEF SideSpec, PhasesKept
<1>10. SideSpec => RepairOnlyRecorded
  BY <1>1, <1>2, <1>3, <1>4, <1>6, PTL DEF SideSpec, RepairOnlyRecorded
<1>11. SideSpec => CreatedOnce
  BY <1>1, <1>2, <1>3, <1>4, <1>7, PTL DEF SideSpec, CreatedOnce
<1>12. SideSpec => LocalCommitsKept
  BY <1>1, <1>2, <1>3, <1>4, <1>8, PTL DEF SideSpec, LocalCommitsKept
<1>13. SideSpec => ImplementsPromise
  BY ApprovalBeside, PromiseImplemented, PTL
<1> QED
  BY <1>9, <1>10, <1>11, <1>12, <1>13 DEF SideSteps

\* A review never remembers a launcher or a job that is still to come.
ReviewsBehind ==
  \A r \in Reviewers : review[r].launcher <= launcher /\ review[r].job <= job

LEMMA ReviewBehind ==
  ASSUME RecordsInv, ReviewsBehind, NEW r \in Reviewers, ReviewStep(r)
  PROVE  /\ UNCHANGED <<launcher, job>>
         /\ \A s \in Reviewers \ {r} : review'[s] = review[s]
         /\ review'[r].launcher \in {review[r].launcher, launcher, 0}
         /\ review'[r].job \in {review[r].job, job, 0}
<1>1. review \in [Reviewers -> ReviewRecord] /\ review[r] \in ReviewRecord
  BY DEF RecordsInv, RecordsTyped
<1>2. CASE BeginReview(r)
  BY <1>1, <1>2 DEF BeginReview, ReviewRecord
<1>3. CASE ReadNext(r)
  <2>1. UNCHANGED <<launcher, job>>
    BY <1>3 DEF ReadNext
  <2>2. CASE Holds(r, Head(review[r].reads))
    BY <1>1, <1>3, <2>1, <2>2 DEF ReadNext, ReviewRecord
  <2>3. CASE ~ Holds(r, Head(review[r].reads))
    BY <1>1, <1>3, <2>1, <2>3 DEF ReadNext, ReviewRecord, NotReviewing
  <2> QED
    BY <2>2, <2>3
<1>4. CASE QueryFails(r)
  BY <1>1, <1>4 DEF QueryFails, ReviewRecord, NotReviewing
<1>5. CASE EndReview(r)
  BY <1>1, <1>5 DEF EndReview, ReviewRecord
<1> QED
  BY <1>2, <1>3, <1>4, <1>5 DEF ReviewStep

LEMMA ReviewsStayBehind ==
  ASSUME RecordsInv, ReviewsBehind, [RecordsNext]_recordsVars PROVE ReviewsBehind'
<1>1. /\ launcher \in Nat /\ job \in Nat
      /\ \A r \in Reviewers : review[r].launcher \in Nat /\ review[r].job \in Nat
  BY DEF RecordsInv, RecordsTyped, ReviewRecord
<1>2. launcher' \in Nat /\ job' \in Nat /\ launcher <= launcher' /\ job <= job'
  <2>1. RecordsInv' /\ Forward
    BY RecordsStep, RecordsStutter
  <2> QED
    BY <2>1 DEF RecordsInv, RecordsTyped, Forward
<1>3. CASE UNCHANGED review
  BY <1>1, <1>2, <1>3 DEF ReviewsBehind
<1>4. CASE \E r \in Reviewers : ReviewStep(r)
  <2>1. PICK r \in Reviewers : ReviewStep(r)
    BY <1>4
  <2>2. ASSUME NEW s \in Reviewers
        PROVE  review'[s].launcher <= launcher' /\ review'[s].job <= job'
    <3>1. CASE s = r
      BY <1>1, <2>1, <3>1, ReviewBehind DEF ReviewsBehind
    <3>2. CASE s # r
      BY <1>1, <1>2, <2>1, <3>2, ReviewBehind DEF ReviewsBehind
    <3> QED
      BY <3>1, <3>2
  <2> QED
    BY <2>2 DEF ReviewsBehind
<1> QED
  BY <1>3, <1>4 DEF RecordsNext, reviewVars, recordsVars, HostEdit

LEMMA TypesOfSides ==
  ASSUME SideInv, ReviewsBehind PROVE SetupTypeOK /\ RecordsTypeOK /\ RemoteTypeOK
<1>1. SetupTypeOK
  BY DEF SideInv, SetupInv, HostTyped, ConfigRecord, SetupRecord, ServedRecord, Phases, SetupTypeOK
<1>2. RemoteTypeOK
  BY DEF SideInv, RemoteInv, HostRecords, BridgeRecords, StoreRecords, CallRecords, RemoteTypeOK
<1>3. RecordsTypeOK
  <2>1. RecordsTyped /\ Numbered /\ HostEdits \in Nat
    BY EditsAssumption DEF SideInv, RecordsInv
  <2>2. {registration, wheels, basePython, launcher, job} \subseteq Versions
    BY <2>1 DEF RecordsTyped, Numbered, Versions
  <2>3. \A a \in Adopters :
          adoption[a].expect \in 0..registration /\ adoption[a].temporary \in BOOLEAN
    BY <2>1 DEF SideInv, RecordsInv, RecordsTyped, AdopterHolds, AdoptionRecord
  <2>4. \A id \in Inputs :
          runtimes[id].wheels \in 0..wheels /\ runtimes[id].python \in 0..basePython
    BY <2>1 DEF SideInv, RecordsInv, RecordsTyped, DirectorySound, RuntimeRecord
  <2>5. \A p \in Preparers : Target(p) \in Inputs
    BY <2>1 DEF RecordsTyped, Target, PreparationRecord
  <2>6. \A r \in Reviewers : review[r].launcher \in 0..launcher /\ review[r].job \in 0..job
    BY <2>1 DEF RecordsTyped, ReviewRecord, ReviewsBehind
  <2> QED
    BY <2>1, <2>2, <2>3, <2>4, <2>5, <2>6 DEF RecordsTypeOK, RecordsTyped
<1> QED
  BY <1>1, <1>2, <1>3

\* The set-up, the records, the remote workspace and the approvals keep their types,
\* whichever of them is the subject: every version is one that was made, and nobody
\* remembers a later one.
THEOREM SidesTyped == SideSpec => []SideTypes
<1>1. SideInit => SideInv /\ ReviewsBehind
  <2>1. SideInit => SideInv
    BY SideStart
  <2>2. SideInit => ReviewsBehind
    BY DEF SideInit, RecordsInit, ReviewsBehind, NotReviewing
  <2> QED
    BY <2>1, <2>2
<1>2. (SideInv /\ ReviewsBehind) /\ [SideNext]_setupSideVars => (SideInv /\ ReviewsBehind)'
  <2> SUFFICES ASSUME SideInv, ReviewsBehind, [SideNext]_setupSideVars
               PROVE  SideInv' /\ ReviewsBehind'
    OBVIOUS
  <2>1. RecordsInv /\ [RecordsNext]_recordsVars
    BY SidesApart DEF SideInv
  <2> QED
    BY <2>1, SideKept, ReviewsStayBehind
<1>3. SideInv /\ ReviewsBehind => SetupTypeOK /\ RecordsTypeOK /\ RemoteTypeOK
  BY TypesOfSides
<1>4. SideSpec => []ApprovalTypeOK
  BY ApprovalBeside, BrokerTypeCorrect, PTL
<1>5. SetupTypeOK /\ RecordsTypeOK /\ RemoteTypeOK /\ ApprovalTypeOK => SideTypes
  BY DEF SideTypes
<1> QED
  BY <1>1, <1>2, <1>3, <1>4, <1>5, PTL DEF SideSpec

\* In the composition that is checked: what a remote workspace publishes was approved, and
\* after a restart each request is accounted for once and keeps maintenance off.
THEOREM SidesAccounted == SideSpec => [](RemotePublished /\ RecoverySound)
<1>1. SideInit => SideInv
  BY SideStart
<1>2. SideInv /\ [SideNext]_setupSideVars => SideInv'
  BY SideKept
<1>3. SideInv => RemotePublished
  BY RemoteInvPublishes DEF SideInv
<1> QED
  BY <1>1, <1>2, <1>3, ApprovalBeside, RestartsAccounted, PTL DEF SideSpec

=============================================================================
