---------------------------- MODULE ApprovalProofs ----------------------------
(***************************************************************************)
(* The answer to a request that a person must approve, for any number of   *)
(* requests, people and restarts.                                          *)
(*                                                                         *)
(* A request is followed through the steps of its handler: what it holds,  *)
(* and what nobody else can change meanwhile, which is the reservation in  *)
(* the ledger and the place among those that wait.                         *)
(***************************************************************************)
EXTENDS ApprovalBroker, ControllerAdmissionProofs, SequenceTheorems

-----------------------------------------------------------------------------
(* The ledger under the broker. *)

LEMMA TokensOK ==
  /\ \A q \in ApprovalRequests : ReplyToken(q) \in OperationTokens
                                 /\ HandlerToken(q) \in OperationTokens
  /\ Resolvers \subseteq OperationTokens
  BY ApprovalAssumption DEF ReplyToken, HandlerToken

\* Types of what the broker adds to the ledger.
BrokerTypes ==
  /\ handler \in [ApprovalRequests -> Handler]
  /\ wire \in [ApprovalRequests -> Seq(Answers)]
  /\ waiting \subseteq ApprovalRequests
  /\ results \in [ApprovalRequests -> Answers \cup {None}]
  /\ pending \subseteq ApprovalRequests
  /\ history \in Seq(Settled) /\ Len(history) <= MaxHistory
  /\ disk \in [pending : SUBSET ApprovalRequests, history : Seq(Settled)]
  /\ resolution \in [Resolvers -> Resolutions]
  /\ resolveCalls \in 0 .. MaxResolutions
  /\ granted \in [ApprovalRequests -> Seq(Answers)]
  /\ wireOpen \in BOOLEAN
  /\ restarts \in 0 .. MaxRestarts

\* Every step of the broker but a restart is a step of the ledger or leaves it alone.
LEMMA BrokerStepsLedger ==
  ASSUME BrokerTypes, ApprovalNext, ~Restart
  PROVE  [Next]_admissionVars
<1>1. ASSUME NEW q \in ApprovalRequests, HandlerStep(q)
      PROVE  [Next]_admissionVars
  <2>1. ASSUME NEW sent, NEW lost, NEW answer, Put(q, answer, sent, lost)
        PROVE  [Next]_admissionVars
    BY <2>1, ApprovalAssumption DEF Put, Next
  <2>2. CASE Track(q)
    BY <2>2, TokensOK, ApprovalAssumption DEF Track, Next, ActivityKinds
  <2>3. CASE Enter(q)
    BY <2>3, TokensOK DEF Enter, Next, ActivityKinds
  <2>4. CASE Leave(q)
    BY <2>4, TokensOK DEF Leave, Next, BrokerTypes, Handler
  <2>5. CASE Unsent(q)
    BY <2>5, ApprovalAssumption DEF Unsent, Next
  <2>6. CASE Release(q)
    BY <2>6, TokensOK DEF Release, Next, BrokerTypes, Handler
  <2>7. CASE Reject(q) \/ Answer(q) \/ Fallback(q)
    BY <2>1, <2>7 DEF Reject, Answer, Fallback
  <2>8. CASE RegisterForeign(q) \/ Register(q) \/ Wait(q) \/ Collect(q) \/ Finish(q)
    BY <2>8 DEF RegisterForeign, Register, Wait, Collect, Finish
  <2> QED BY <1>1, <2>2, <2>3, <2>4, <2>5, <2>6, <2>7, <2>8 DEF HandlerStep
<1>2. ASSUME NEW r \in Resolvers, NEW q \in ApprovalRequests, NEW level \in Answers,
             BeginResolve(r, q, level)
      PROVE  [Next]_admissionVars
  BY <1>2, TokensOK DEF BeginResolve, Next, ActivityKinds
<1>3. ASSUME NEW r \in Resolvers, EndResolve(r)
      PROVE  [Next]_admissionVars
  BY <1>3, TokensOK DEF EndResolve, Next
<1>4. ASSUME OwnerStep PROVE [Next]_admissionVars
  BY <1>4 DEF OwnerStep, Next
<1>5. ASSUME NEW q \in ApprovalRequests, Ask(q) \/ DispatchFails(q)
      PROVE  [Next]_admissionVars
  BY <1>5 DEF Ask, DispatchFails
<1>6. ASSUME NEW r \in Resolvers, Decide(r) PROVE [Next]_admissionVars
  BY <1>6 DEF Decide
<1>7. ASSUME LoseStream PROVE [Next]_admissionVars
  BY <1>7 DEF LoseStream
<1> QED BY <1>1, <1>2, <1>3, <1>4, <1>5, <1>6, <1>7 DEF ApprovalNext

\* The ledger is sound under the broker as well, whose restart enrolls a new one.
LEMMA BrokerLedgerPreserved ==
  ASSUME Ledger, Lease, BrokerTypes, [ApprovalNext]_allVars
  PROVE  Ledger' /\ Lease'
<1>1. CASE Restart
  <2>1. operations' \in [OperationTokens -> ActivityKinds \cup {None}]
    BY <1>1 DEF Restart
  <2>2. unknown' \subseteq UnknownReasons
    BY <1>1 DEF Restart, FreshReasons, UnknownReasons
  <2>3. claimed' \in BOOLEAN /\ closed' \in BOOLEAN /\ generation' = 0 /\ lease' = NoLease
    BY <1>1 DEF Restart
  <2>4. turns' = turns /\ byThread' = byThread /\ completed' = completed
    BY <1>1 DEF Restart, turnVars
  <2>5. Ledger'
    BY <2>1, <2>2, <2>3, <2>4 DEF Ledger, TypeOK, NoLease, ThreadIndexExact, BoundAgrees,
       ActiveTurns
  <2>6. Lease'
    BY <2>3 DEF Lease, LeaseExcludesWork, LeaseIsCurrent
  <2> QED BY <2>5, <2>6
<1>2. CASE ~Restart
  <2>1. [Next]_admissionVars
    BY <1>2, BrokerStepsLedger DEF allVars
  <2> QED BY <2>1, LedgerPreserved, LeasePreserved
<1> QED BY <1>1, <1>2

-----------------------------------------------------------------------------
(* What the helpers of the broker return. *)

\* A narrowed grant is a level, and never more than was asked for.
LEMMA NarrowedFacts ==
  ASSUME NEW q, NEW level \in Answers
  PROVE  Narrowed(q, level) \in Answers /\ Narrowed(q, level) <= level
  BY DEF Narrowed, Allowed, Answers, Decline, Once, Session

\* A trimmed history is the end of what it was.
LEMMA TrimmedFacts ==
  ASSUME NEW h \in Seq(Settled)
  PROVE  /\ Trimmed(h) \in Seq(Settled) /\ Len(Trimmed(h)) <= MaxHistory
         /\ \E k \in Nat : \A i \in 1 .. Len(Trimmed(h)) :
              i + k \in 1 .. Len(h) /\ Trimmed(h)[i] = h[i + k]
<1>1. MaxHistory \in Nat /\ Len(h) \in Nat
  BY ApprovalAssumption
<1>2. CASE Len(h) <= MaxHistory
  <2>1. \A i \in 1 .. Len(h) : i + 0 \in 1 .. Len(h) /\ h[i] = h[i + 0]
    BY <1>1
  <2> QED BY <1>2, <2>1 DEF Trimmed
<1>3. CASE ~(Len(h) <= MaxHistory)
  <2> DEFINE k == Len(h) - MaxHistory
  <2>1. k \in Nat /\ k + 1 \in Int /\ Len(h) - (k + 1) + 1 = MaxHistory
    BY <1>1, <1>3
  <2>2. \A i \in k + 1 .. Len(h) : h[i] \in Settled
    BY <1>1, <2>1, ElementOfSeq
  <2>3. Trimmed(h) = SubSeq(h, k + 1, Len(h))
    BY <1>3 DEF Trimmed
  <2>4. /\ SubSeq(h, k + 1, Len(h)) \in Seq(Settled)
        /\ Len(SubSeq(h, k + 1, Len(h))) = IF k + 1 <= Len(h) THEN Len(h) - (k + 1) + 1 ELSE 0
        /\ \A i \in 1 .. Len(h) - (k + 1) + 1 :
             SubSeq(h, k + 1, Len(h))[i] = h[k + 1 + i - 1]
    BY <1>1, <2>1, <2>2, SubSeqProperties
  <2>5. Len(Trimmed(h)) = MaxHistory
    BY <1>1, <1>3, <2>1, <2>3, <2>4
  <2>6. \A i \in 1 .. Len(Trimmed(h)) : i + k \in 1 .. Len(h) /\ Trimmed(h)[i] = h[i + k]
    BY <1>1, <1>3, <2>1, <2>3, <2>4, <2>5
  <2> HIDE DEF k
  <2>7. Trimmed(h) \in Seq(Settled) /\ Len(Trimmed(h)) <= MaxHistory
    BY <1>1, <2>3, <2>4, <2>5
  <2> QED BY <2>1, <2>6, <2>7
<1> QED BY <1>2, <1>3

\* What the restart puts into the history for the requests that were pending.
AbandonedEntries(p) ==
  {[request |-> q, status |-> "abandoned_on_restart", answer |-> None] : q \in p}

\* They stand in some order, each once.
LEMMA AbandonedInOrder ==
  ASSUME NEW p \in SUBSET ApprovalRequests, IsFiniteSet(p)
  PROVE  /\ SetToSeq(AbandonedEntries(p)) \in Seq(Settled)
         /\ \A i \in 1 .. Len(SetToSeq(AbandonedEntries(p))) :
              SetToSeq(AbandonedEntries(p))[i].request \in p
         /\ \A i, j \in 1 .. Len(SetToSeq(AbandonedEntries(p))) :
              SetToSeq(AbandonedEntries(p))[i].request = SetToSeq(AbandonedEntries(p))[j].request => i = j
<1> DEFINE S == AbandonedEntries(p)
           of == [q \in p |->
             [request |-> q, status |-> "abandoned_on_restart", answer |-> None]]
<1>1. of \in Surjection(p, S)
  BY DEF Surjection, AbandonedEntries
<1>2. IsFiniteSet(S)
  BY <1>1, FS_Surjection
<1>3. Cardinality(S) \in Nat /\ ExistsBijection(1 .. Cardinality(S), S)
  BY <1>2, FS_CardinalityType
<1>4. \E f \in [1 .. Cardinality(S) -> S] : IsInjective(f)
  BY <1>3 DEF ExistsBijection, Bijection, Injection, IsInjective
<1> DEFINE s == SetToSeq(S)
<1>5. s \in [1 .. Cardinality(S) -> S] /\ IsInjective(s)
  BY <1>4 DEF SetToSeq
<1>6. S \subseteq Settled
  BY DEF AbandonedEntries, Settled
<1> HIDE DEF S, of
<1>7. s \in Seq(Settled) /\ Len(s) = Cardinality(S)
  BY <1>3, <1>5, <1>6
<1>8. \A e \in S : e.request \in p /\ e.status = "abandoned_on_restart" /\ e.answer = None
  BY DEF S, AbandonedEntries
<1>9. \A e, f \in S : e.request = f.request => e = f
  BY DEF S, AbandonedEntries
<1> HIDE DEF s
<1>10. \A i, j \in 1 .. Len(s) : s[i] \in S /\ (s[i] = s[j] => i = j)
  BY <1>5, <1>7 DEF IsInjective
<1>11. /\ \A i \in 1 .. Len(s) : s[i].request \in p
       /\ \A i, j \in 1 .. Len(s) : s[i].request = s[j].request => i = j
  BY <1>8, <1>9, <1>10
<1> QED BY <1>7, <1>11 DEF s, S

-----------------------------------------------------------------------------
(* Type correctness of the broker. *)

\* The handler of a request becomes another one, and the others stay.
Becomes(q, k) == k \in Handler /\ handler' = [handler EXCEPT ![q] = k]

LEMMA BecomesFacts ==
  ASSUME BrokerTypes, NEW q \in ApprovalRequests, NEW k, Becomes(q, k)
  PROVE  /\ handler' \in [ApprovalRequests -> Handler]
         /\ handler'[q] = k
         /\ \A p \in ApprovalRequests : p # q => handler'[p] = handler[p]
  BY DEF BrokerTypes, Becomes

LEMMA GoesTo ==
  ASSUME BrokerTypes, NEW q \in ApprovalRequests, NEW s \in HandlerSteps, GoTo(q, s)
  PROVE  Becomes(q, [handler[q] EXCEPT !.step = s])
  BY DEF GoTo, Becomes, BrokerTypes, Handler

\* The write of an answer: it is on the wire, or it may be.
LEMMA PutMoves ==
  ASSUME BrokerTypes, NEW q \in ApprovalRequests, NEW answer \in Answers,
         NEW sent \in HandlerSteps, NEW lost \in HandlerSteps, Put(q, answer, sent, lost)
  PROVE  /\ \/ /\ Becomes(q, [handler[q] EXCEPT !.step = sent, !.sent = TRUE])
               /\ wire' = [wire EXCEPT ![q] = Append(wire[q], answer)]
               /\ UNCHANGED unknown
            \/ /\ Becomes(q, [handler[q] EXCEPT !.step = lost,
                    !.uncertain = handler[q].uncertain \/ handler[q].step = "answer"])
               /\ wire' \in {wire, [wire EXCEPT ![q] = Append(wire[q], answer)]}
               /\ unknown' = unknown \cup {FixedReason("transport_lost")}
         /\ UNCHANGED operations
         /\ Append(wire[q], answer) \in Seq(Answers)
         /\ wire' \in [ApprovalRequests -> Seq(Answers)]
<1>1. handler[q] \in Handler /\ wire[q] \in Seq(Answers)
  BY DEF BrokerTypes
<1>2. Append(wire[q], answer) \in Seq(Answers)
  BY <1>1, AppendProperties
<1>3. CASE /\ wire' = [wire EXCEPT ![q] = Append(wire[q], answer)]
           /\ handler' = [handler EXCEPT ![q].step = sent, ![q].sent = TRUE]
           /\ UNCHANGED admissionVars
  <2>1. Becomes(q, [handler[q] EXCEPT !.step = sent, !.sent = TRUE])
    BY <1>1, <1>3 DEF Becomes, BrokerTypes, Handler
  <2>2. wire' \in [ApprovalRequests -> Seq(Answers)]
    BY <1>2, <1>3 DEF BrokerTypes
  <2> QED BY <1>2, <1>3, <2>1, <2>2 DEF admissionVars
<1>4. CASE /\ wire' \in {wire, [wire EXCEPT ![q] = Append(wire[q], answer)]}
           /\ handler' = [handler EXCEPT ![q].step = lost,
                ![q].uncertain = handler[q].uncertain \/ handler[q].step = "answer"]
           /\ MarkUnknown("transport_lost")
  <2> DEFINE u == handler[q].uncertain \/ handler[q].step = "answer"
  <2>1. u \in BOOLEAN
    OBVIOUS
  <2>2. handler' = [handler EXCEPT ![q].step = lost, ![q].uncertain = u]
    BY <1>4
  <2> HIDE DEF u
  <2>3. Becomes(q, [handler[q] EXCEPT !.step = lost, !.uncertain = u])
    BY <1>1, <2>1, <2>2 DEF Becomes, BrokerTypes, Handler
  <2>4. wire' \in [ApprovalRequests -> Seq(Answers)]
    BY <1>2, <1>4 DEF BrokerTypes
  <2> QED BY <1>2, <1>4, <2>3, <2>4 DEF MarkUnknown, u
<1>5. \/ /\ wire' = [wire EXCEPT ![q] = Append(wire[q], answer)]
         /\ handler' = [handler EXCEPT ![q].step = sent, ![q].sent = TRUE]
         /\ UNCHANGED admissionVars
      \/ /\ wire' \in {wire, [wire EXCEPT ![q] = Append(wire[q], answer)]}
         /\ handler' = [handler EXCEPT ![q].step = lost,
              ![q].uncertain = handler[q].uncertain \/ handler[q].step = "answer"]
         /\ MarkUnknown("transport_lost")
  BY DEF Put, At
<1> QED BY <1>3, <1>4, <1>5

\* What each of the other steps makes of the handler.
LEMMA HandlerMoves ==
  ASSUME BrokerTypes, NEW q \in ApprovalRequests
  PROVE  LET h == handler[q]
         IN /\ Ask(q) => Becomes(q, [h EXCEPT !.step = "asked"])
            /\ Track(q) => \/ Becomes(q, [h EXCEPT !.step = "enter"])
                           \/ Becomes(q, [h EXCEPT !.step = "reject"])
            /\ DispatchFails(q) =>
                 Becomes(q, [h EXCEPT !.step = "unsent", !.dispatched = FALSE])
            /\ Enter(q) => \/ Becomes(q, [h EXCEPT !.step = "register"])
                           \/ Becomes(q, [h EXCEPT !.step = "fallback"])
            /\ RegisterForeign(q) => \E raised \in BOOLEAN :
                 Becomes(q, [h EXCEPT !.step = "leave", !.raised = raised])
            /\ Register(q) =>
                 \/ Saved /\ Becomes(q, [h EXCEPT !.step = "wait"])
                 \/ SaveFailed /\ Becomes(q, [h EXCEPT !.step = "leave", !.raised = TRUE,
                                                       !.uncertain = TRUE])
            /\ Wait(q) => \E signaled \in BOOLEAN :
                 Becomes(q, [h EXCEPT !.step = "collect", !.signaled = signaled])
            /\ Collect(q) =>
                 \/ Saved /\ Becomes(q, [h EXCEPT !.step = "leave", !.answer = Result(q)])
                 \/ SaveFailed /\ Becomes(q, [h EXCEPT !.step = "leave", !.raised = TRUE,
                                                       !.uncertain = TRUE])
            /\ Leave(q) =>
                 Becomes(q, [h EXCEPT !.step = IF h.raised THEN "fallback" ELSE "answer",
                                      !.uncertain = FALSE])
            /\ Finish(q) => Becomes(q,
                 [h EXCEPT !.step = IF Delivered(q) THEN "release" ELSE "unsent"])
            /\ Unsent(q) => Becomes(q, [h EXCEPT !.step = "release", !.uncertain = TRUE])
            /\ Release(q) => Becomes(q,
                 [h EXCEPT !.step = IF h.dispatched THEN "done" ELSE "reject"])
<1> USE DEF HandlerSteps
<1>1. handler[q] \in Handler /\ handler \in [ApprovalRequests -> Handler]
  BY DEF BrokerTypes
<1>2. Ask(q) => Becomes(q, [handler[q] EXCEPT !.step = "asked"])
  BY GoesTo DEF Ask
<1>3. Track(q) => \/ Becomes(q, [handler[q] EXCEPT !.step = "enter"])
                  \/ Becomes(q, [handler[q] EXCEPT !.step = "reject"])
  BY GoesTo DEF Track
<1>4. DispatchFails(q) =>
        Becomes(q, [handler[q] EXCEPT !.step = "unsent", !.dispatched = FALSE])
  BY <1>1 DEF DispatchFails, Becomes, Handler
<1>5. Enter(q) => \/ Becomes(q, [handler[q] EXCEPT !.step = "register"])
                  \/ Becomes(q, [handler[q] EXCEPT !.step = "fallback"])
  BY GoesTo DEF Enter
<1>6. ASSUME NEW raised \in BOOLEAN,
             handler' = [handler EXCEPT ![q].step = "leave", ![q].raised = raised]
      PROVE  Becomes(q, [handler[q] EXCEPT !.step = "leave", !.raised = raised])
  BY <1>1, <1>6 DEF Becomes, Handler
<1>7. RegisterForeign(q) => \E raised \in BOOLEAN :
        Becomes(q, [handler[q] EXCEPT !.step = "leave", !.raised = raised])
  BY <1>6 DEF RegisterForeign
<1>8. ASSUME handler' = [handler EXCEPT ![q].step = "leave", ![q].raised = TRUE,
                                        ![q].uncertain = TRUE]
      PROVE  Becomes(q, [handler[q] EXCEPT !.step = "leave", !.raised = TRUE,
                                           !.uncertain = TRUE])
  BY <1>1, <1>8 DEF Becomes, Handler
<1>9. Register(q) =>
        \/ Saved /\ Becomes(q, [handler[q] EXCEPT !.step = "wait"])
        \/ SaveFailed /\ Becomes(q, [handler[q] EXCEPT !.step = "leave", !.raised = TRUE,
                                                       !.uncertain = TRUE])
  BY <1>8, GoesTo DEF Register
<1>10. ASSUME NEW signaled \in BOOLEAN,
              handler' = [handler EXCEPT ![q].step = "collect", ![q].signaled = signaled]
       PROVE  Becomes(q, [handler[q] EXCEPT !.step = "collect", !.signaled = signaled])
  BY <1>1, <1>10 DEF Becomes, Handler
<1>11. Wait(q) => \E signaled \in BOOLEAN :
         Becomes(q, [handler[q] EXCEPT !.step = "collect", !.signaled = signaled])
  <2>1. (results[q] # None) \in BOOLEAN
    OBVIOUS
  <2> QED BY <1>10, <2>1 DEF Wait
<1>12. ASSUME NEW answer \in Answers,
              handler' = [handler EXCEPT ![q].step = "leave", ![q].answer = answer]
       PROVE  Becomes(q, [handler[q] EXCEPT !.step = "leave", !.answer = answer])
  BY <1>1, <1>12 DEF Becomes, Handler
<1>13. Result(q) \in Answers
  BY DEF BrokerTypes, Result, Answers
<1>14. Collect(q) =>
         \/ Saved /\ Becomes(q, [handler[q] EXCEPT !.step = "leave", !.answer = Result(q)])
         \/ SaveFailed /\ Becomes(q, [handler[q] EXCEPT !.step = "leave", !.raised = TRUE,
                                                        !.uncertain = TRUE])
  BY <1>8, <1>12, <1>13 DEF Collect
<1>15. ASSUME NEW s \in HandlerSteps, NEW u \in BOOLEAN,
              handler' = [handler EXCEPT ![q].step = s, ![q].uncertain = u]
       PROVE  Becomes(q, [handler[q] EXCEPT !.step = s, !.uncertain = u])
  BY <1>1, <1>15 DEF Becomes, Handler
<1>16. Leave(q) =>
         Becomes(q, [handler[q] EXCEPT
           !.step = IF handler[q].raised THEN "fallback" ELSE "answer", !.uncertain = FALSE])
  <2>1. (IF handler[q].raised THEN "fallback" ELSE "answer") \in HandlerSteps
    OBVIOUS
  <2> QED BY <1>15, <2>1 DEF Leave
<1>17. Finish(q) => Becomes(q,
         [handler[q] EXCEPT !.step = IF Delivered(q) THEN "release" ELSE "unsent"])
  <2>1. (IF Delivered(q) THEN "release" ELSE "unsent") \in HandlerSteps
    OBVIOUS
  <2> QED BY <2>1, GoesTo DEF Finish
<1>18. Unsent(q) => Becomes(q, [handler[q] EXCEPT !.step = "release", !.uncertain = TRUE])
  BY <1>15 DEF Unsent
<1>19. Release(q) => Becomes(q,
         [handler[q] EXCEPT !.step = IF handler[q].dispatched THEN "done" ELSE "reject"])
  <2>1. (IF handler[q].dispatched THEN "done" ELSE "reject") \in HandlerSteps
    OBVIOUS
  <2> QED BY <2>1, GoesTo DEF Release
<1> QED BY <1>2, <1>3, <1>4, <1>5, <1>7, <1>9, <1>11, <1>14, <1>16, <1>17, <1>18, <1>19

\* The entry that settles a request.
Settlement(q) ==
  [request |-> q, answer |-> Result(q),
   status |-> IF handler[q].signaled THEN "resolved" ELSE "timed_out_declined"]

LEMMA SettlementType ==
  ASSUME BrokerTypes, NEW q \in ApprovalRequests
  PROVE  Settlement(q) \in Settled /\ Append(history, Settlement(q)) \in Seq(Settled)
<1>1. Result(q) \in Answers
  BY DEF BrokerTypes, Result, Answers
<1>2. Settlement(q) \in Settled
  BY <1>1 DEF Settlement, Settled
<1> QED BY <1>2, AppendProperties DEF BrokerTypes

LEMMA HandlerTypes ==
  ASSUME BrokerTypes, NEW q \in ApprovalRequests,
         HandlerStep(q) \/ Ask(q) \/ DispatchFails(q)
  PROVE  BrokerTypes'
<1>1. CASE Reject(q) \/ Answer(q) \/ Fallback(q)
  <2>1. handler[q].answer \in Answers /\ Decline \in Answers
    BY DEF BrokerTypes, Handler, Answers
  <2>2. PICK answer \in Answers, sent \in HandlerSteps, lost \in HandlerSteps :
          Put(q, answer, sent, lost)
    BY <1>1, <2>1 DEF Reject, Answer, Fallback, HandlerSteps
  <2>3. wire' \in [ApprovalRequests -> Seq(Answers)]
    BY <2>2, PutMoves
  <2>4. \E k : Becomes(q, k)
    BY <2>2, PutMoves
  <2>5. handler' \in [ApprovalRequests -> Handler]
    BY <2>4, BecomesFacts
  <2>6. Unheard
    BY <1>1 DEF Reject, Answer, Fallback
  <2> QED BY <2>3, <2>5, <2>6 DEF BrokerTypes, Unheard
<1>2. CASE ~(Reject(q) \/ Answer(q) \/ Fallback(q))
  <2>1. \E k : Becomes(q, k)
    BY <1>2, HandlerMoves DEF HandlerStep
  <2>2. handler' \in [ApprovalRequests -> Handler]
    BY <2>1, BecomesFacts
  <2>3. CASE Register(q)
    <3>1. disk' \in [pending : SUBSET ApprovalRequests, history : Seq(Settled)]
      BY <2>3 DEF Register, BrokerTypes, Saved, SaveFailed
    <3> QED BY <2>2, <2>3, <3>1 DEF Register, BrokerTypes
  <2>4. CASE Collect(q)
    <3>1. history' = Trimmed(Append(history, Settlement(q)))
      BY <2>4 DEF Collect, Settlement
    <3>2. history' \in Seq(Settled) /\ Len(history') <= MaxHistory
      BY <3>1, SettlementType, TrimmedFacts
    <3>3. pending' \subseteq ApprovalRequests
      BY <2>4 DEF Collect, BrokerTypes
    <3>4. disk' \in [pending : SUBSET ApprovalRequests, history : Seq(Settled)]
      BY <2>4, <3>2, <3>3 DEF Collect, BrokerTypes, Saved, SaveFailed
    <3>5. results' \in [ApprovalRequests -> Answers \cup {None}] /\ waiting' \subseteq waiting
      BY <2>4 DEF Collect, BrokerTypes
    <3> QED BY <2>2, <2>4, <3>2, <3>3, <3>4, <3>5 DEF Collect, BrokerTypes
  <2>5. CASE ~Register(q) /\ ~Collect(q)
    <3>1. Unheard /\ UNCHANGED wire
      BY <1>2, <2>5 DEF HandlerStep, Track, Enter, RegisterForeign, Wait, Leave, Finish,
         Unsent, Release, Ask, DispatchFails
    <3> QED BY <2>2, <3>1 DEF BrokerTypes, Unheard
  <2> QED BY <2>3, <2>4, <2>5
<1> QED BY <1>1, <1>2

\* What is loaded from the disk is a history of its own, with nothing pending.
LEMMA LoadedTypes ==
  ASSUME NEW d \in [pending : SUBSET ApprovalRequests, history : Seq(Settled)],
         IsFiniteSet(d.pending)
  PROVE  /\ Loaded(d).pending = {}
         /\ Loaded(d).history = Trimmed(d.history \o SetToSeq(AbandonedEntries(d.pending)))
         /\ d.history \o SetToSeq(AbandonedEntries(d.pending)) \in Seq(Settled)
<1>1. SetToSeq(AbandonedEntries(d.pending)) \in Seq(Settled)
  BY AbandonedInOrder
<1>2. d.history \o SetToSeq(AbandonedEntries(d.pending)) \in Seq(Settled)
  BY <1>1, ConcatProperties
<1> QED BY <1>2 DEF Loaded, AbandonedEntries

LEMMA BrokerTypesPreserved ==
  ASSUME BrokerTypes, IsFiniteSet(disk.pending), [ApprovalNext]_allVars
  PROVE  BrokerTypes'
<1>1. ASSUME NEW q \in ApprovalRequests, HandlerStep(q) \/ Ask(q) \/ DispatchFails(q)
      PROVE  BrokerTypes'
  BY <1>1, HandlerTypes
<1>2. ASSUME NEW r \in Resolvers, NEW q \in ApprovalRequests, NEW level \in Answers,
             BeginResolve(r, q, level)
      PROVE  BrokerTypes'
  BY <1>2, ApprovalAssumption DEF BeginResolve, BrokerTypes, Resolutions
<1>3. ASSUME NEW r \in Resolvers, Decide(r)
      PROVE  BrokerTypes'
  <2> DEFINE q == resolution[r].request
             level == resolution[r].level
  <2>1. resolution[r] \in Resolutions /\ level \in Answers
    BY DEF BrokerTypes, Resolutions
  <2>2. resolution' \in [Resolvers -> Resolutions]
    BY <1>3, <2>1 DEF Decide, BrokerTypes, Resolutions
  <2>3. CASE Resolvable(q, level)
    <3>1. q \in ApprovalRequests
      BY <2>3 DEF Resolvable, BrokerTypes
    <3>2. results' = [results EXCEPT ![q] = Narrowed(q, level)]
          /\ granted' = [granted EXCEPT ![q] = Append(granted[q], level)]
      BY <1>3, <2>3 DEF Decide
    <3>3. Narrowed(q, level) \in Answers
      BY <2>1, NarrowedFacts
    <3>4. Append(granted[q], level) \in Seq(Answers)
      BY <2>1, <3>1, AppendProperties DEF BrokerTypes
    <3> HIDE DEF q, level
    <3>5. /\ results' \in [ApprovalRequests -> Answers \cup {None}]
          /\ granted' \in [ApprovalRequests -> Seq(Answers)]
      BY <3>1, <3>2, <3>3, <3>4 DEF BrokerTypes
    <3> QED BY <1>3, <2>2, <3>5 DEF Decide, BrokerTypes
  <2>4. CASE ~Resolvable(q, level)
    <3>1. results' = results /\ granted' = granted
      BY <1>3, <2>4 DEF Decide
    <3> QED BY <1>3, <2>2, <3>1 DEF Decide, BrokerTypes
  <2> QED BY <2>3, <2>4
<1>4. ASSUME NEW r \in Resolvers, EndResolve(r)
      PROVE  BrokerTypes'
  BY <1>4 DEF EndResolve, BrokerTypes, Resolutions, NoResolution, Answers
<1>5. CASE LoseStream
  BY <1>5 DEF LoseStream, BrokerTypes
<1>6. CASE OwnerStep \/ UNCHANGED allVars
  BY <1>6 DEF OwnerStep, BrokerTypes, allVars, approvalVars
<1>7. CASE Restart
  <2>1. handler' \in [ApprovalRequests -> Handler]
    <3>1. ASSUME NEW h \in Handler PROVE [h EXCEPT !.step = "lost"] \in Handler
      BY DEF Handler, HandlerSteps
    <3> QED BY <1>7, <3>1 DEF Restart, BrokerTypes
  <2>2. Loaded(disk).pending = {} /\ Loaded(disk).history \in Seq(Settled)
        /\ Len(Loaded(disk).history) <= MaxHistory
    <3>1. disk \in [pending : SUBSET ApprovalRequests, history : Seq(Settled)]
      BY DEF BrokerTypes
    <3> QED BY <3>1, LoadedTypes, TrimmedFacts
  <2>3. restarts' \in 0 .. MaxRestarts
    BY <1>7, ApprovalAssumption DEF Restart, BrokerTypes
  <2>4. resolution' \in [Resolvers -> Resolutions]
    BY <1>7 DEF Restart, Resolutions, NoResolution, Answers
  <2>5. results' \in [ApprovalRequests -> Answers \cup {None}]
    BY <1>7 DEF Restart
  <2>6. /\ waiting' = {} /\ pending' = Loaded(disk).pending
        /\ history' = Loaded(disk).history /\ wireOpen' = TRUE
        /\ UNCHANGED <<wire, disk, resolveCalls, granted>>
    BY <1>7 DEF Restart
  <2> QED BY <2>1, <2>2, <2>3, <2>4, <2>5, <2>6 DEF BrokerTypes
<1> QED BY <1>1, <1>2, <1>3, <1>4, <1>5, <1>6, <1>7 DEF ApprovalNext

-----------------------------------------------------------------------------
(* What the worker reads is what people said. *)

\* Some caller was told that it gave at least this much.
Backed(q, level) ==
  level # Decline => \E j \in 1 .. Len(granted[q]) : granted[q][j] >= level

\* Nothing has been said about the request, nor sent.
Untouched(q) ==
  /\ wire[q] = <<>> /\ granted[q] = <<>> /\ results[q] = None
  /\ handler[q].dispatched /\ ~handler[q].sent /\ ~handler[q].uncertain
  /\ ~handler[q].raised /\ handler[q].answer = Decline
  /\ q \notin waiting

\* The ledger has a reason for a request without exactly one answer.
Doubted ==
  unknown \cap {"callback_response_unsent", "untracked_request",
                "recovered_state_unverified"} # {}

\* One answer is on the wire, and where nothing went wrong it is the last word,
\* which no call can change any more.
AnsweredOnce(q) ==
  /\ Len(wire[q]) = 1
  /\ ~handler[q].raised => wire[q] = <<Standing(q)>> /\ q \notin waiting

\* The wait of the handler: a call that finds it decides the answer.
Asking(q) ==
  /\ wire[q] = <<>> /\ q \in waiting
  /\ handler[q].dispatched /\ ~handler[q].sent /\ ~handler[q].uncertain
  /\ ~handler[q].raised
  /\ IF results[q] = None THEN granted[q] = <<>>
                          ELSE granted[q] # <<>> /\ results[q] = Standing(q)

\* What each step of a handler may rely on.
StepOK(q) ==
  LET h == handler[q]
  IN /\ h.step \in {"unasked", "asked", "enter", "register"} => Untouched(q)
     /\ h.step \in {"wait", "collect"} => Asking(q)
     /\ h.step = "leave" =>
          /\ wire[q] = <<>> /\ h.dispatched /\ ~h.sent
          /\ ~h.raised => ~h.uncertain /\ q \notin waiting /\ h.answer = Standing(q)
     /\ h.step = "answer" =>
          /\ wire[q] = <<>> /\ h.dispatched /\ ~h.sent /\ ~h.uncertain
          /\ ~h.raised /\ q \notin waiting /\ h.answer = Standing(q)
     /\ h.step = "fallback" =>
          /\ h.dispatched /\ ~h.sent
          /\ ~h.uncertain => /\ wire[q] = <<>>
                             /\ ~h.raised => granted[q] = <<>> /\ q \notin waiting
     /\ h.step = "finish" => h.dispatched /\ (Delivered(q) => AnsweredOnce(q))
     /\ h.step = "unsent" => ~h.dispatched \/ ~Delivered(q)
     /\ h.step = "release" =>
          IF h.uncertain THEN Doubted
                         ELSE h.dispatched /\ h.sent /\ AnsweredOnce(q)
     /\ h.step = "reject" => Doubted /\ (h.dispatched => Untouched(q))
     /\ h.step = "done" =>
          /\ Len(wire[q]) # 1 => Doubted
          /\ h.dispatched /\ Delivered(q) => AnsweredOnce(q)
     /\ h.step = "lost" => Doubted

\* A request between its admission and its release is in the ledger.
Admitted(q) ==
  handler[q].step \notin {"unasked", "asked", "reject", "done", "lost"} =>
    operations[ReplyToken(q)] # None

GrantOK(q) ==
  /\ \A i \in 1 .. Len(wire[q]) : Backed(q, wire[q][i])
  /\ Backed(q, handler[q].answer)
  /\ results[q] # None => Backed(q, results[q])

BrokerInv == \A q \in ApprovalRequests : StepOK(q) /\ Admitted(q) /\ GrantOK(q)


\* What the others of a step of q may count on.
Undisturbed(p) ==
  /\ handler'[p] = handler[p] /\ wire'[p] = wire[p] /\ granted'[p] = granted[p]
  /\ results'[p] = results[p]
  /\ p \in waiting' <=> p \in waiting

LEMMA UndisturbedKeeps ==
  ASSUME NEW p \in ApprovalRequests, StepOK(p), GrantOK(p), Undisturbed(p),
         Doubted => Doubted'
  PROVE  StepOK(p)' /\ GrantOK(p)'
<1>1. Standing(p)' = Standing(p) /\ Delivered(p)' = Delivered(p)
  BY DEF Standing, Delivered, Undisturbed, Narrowed, Allowed
<1>2. /\ Untouched(p)' = Untouched(p) /\ AnsweredOnce(p)' = AnsweredOnce(p)
      /\ Asking(p)' = Asking(p)
  BY <1>1 DEF Untouched, AnsweredOnce, Asking, Undisturbed
<1>3. StepOK(p)'
  BY <1>1, <1>2 DEF StepOK, Undisturbed
<1>4. GrantOK(p)'
  BY DEF GrantOK, Backed, Undisturbed
<1> QED BY <1>3, <1>4

\* A reason once in the ledger stays there.
LEMMA DoubtStays ==
  ASSUME unknown \subseteq unknown', Doubted
  PROVE  Doubted'
  BY DEF Doubted

\* A step of one handler leaves the others alone.
LEMMA OthersUndisturbed ==
  ASSUME BrokerTypes, NEW q \in ApprovalRequests,
         HandlerStep(q) \/ Ask(q) \/ DispatchFails(q)
  PROVE  /\ \A p \in ApprovalRequests : p # q => Undisturbed(p)
         /\ UNCHANGED granted
         /\ unknown \subseteq unknown'
<1>1. CASE Reject(q) \/ Answer(q) \/ Fallback(q)
  <2>1. handler[q].answer \in Answers /\ Decline \in Answers
    BY DEF BrokerTypes, Handler, Answers
  <2>2. PICK answer \in Answers, sent \in HandlerSteps, lost \in HandlerSteps :
          Put(q, answer, sent, lost)
    BY <1>1, <2>1 DEF Reject, Answer, Fallback, HandlerSteps
  <2>3. /\ wire' \in {wire, [wire EXCEPT ![q] = Append(wire[q], answer)]}
        /\ unknown \subseteq unknown' /\ \E k : Becomes(q, k)
    BY <2>2, PutMoves
  <2>4. Unheard
    BY <1>1 DEF Reject, Answer, Fallback
  <2>5. \A p \in ApprovalRequests : p # q => handler'[p] = handler[p]
    BY <2>3, BecomesFacts
  <2> QED BY <2>3, <2>4, <2>5 DEF BrokerTypes, Unheard, Undisturbed
<1>2. CASE ~(Reject(q) \/ Answer(q) \/ Fallback(q))
  <2>1. \E k : Becomes(q, k)
    BY <1>2, HandlerMoves DEF HandlerStep
  <2>2. \A p \in ApprovalRequests : p # q => handler'[p] = handler[p]
    BY <2>1, BecomesFacts
  <2>3. UNCHANGED <<wire, granted>>
    BY <1>2 DEF HandlerStep, Track, Enter, RegisterForeign, Wait, Leave, Finish,
       Unsent, Release, Ask, DispatchFails, Register, Collect, Unheard
  <2>4. unknown \subseteq unknown'
    BY <1>2 DEF HandlerStep, Track, Enter, RegisterForeign, Wait, Leave, Finish,
       Unsent, Release, Ask, DispatchFails, Register, Collect, MarkUnknown,
       ReserveOperation, FinishOperation, admissionVars
  <2>5. \A p \in ApprovalRequests : p # q => results'[p] = results[p]
                                             /\ (p \in waiting' <=> p \in waiting)
    BY <1>2 DEF HandlerStep, Track, Enter, RegisterForeign, Wait, Leave, Finish,
       Unsent, Release, Ask, DispatchFails, Register, Collect, Unheard, BrokerTypes
  <2> QED BY <2>2, <2>3, <2>4, <2>5 DEF Undisturbed
<1> QED BY <1>1, <1>2

\* A handler that only moves on, with what it carries and what is said about its
\* request left as they are.
LEMMA MovesOn ==
  ASSUME BrokerTypes, NEW q \in ApprovalRequests, NEW k, Becomes(q, k)
  PROVE  /\ handler'[q] = k /\ k \in Handler
         /\ At(q, k.step)'
  BY BecomesFacts DEF Becomes, At

\* The steps of a handler before it answers.
LEMMA AskingSteps ==
  ASSUME BrokerTypes, NEW q \in ApprovalRequests, StepOK(q), GrantOK(q),
         Ask(q) \/ Track(q) \/ DispatchFails(q) \/ Enter(q) \/ RegisterForeign(q)
           \/ Register(q) \/ Wait(q)
  PROVE  StepOK(q)' /\ GrantOK(q)'
<1> DEFINE h == handler[q]
<1>1. h \in Handler
  BY DEF BrokerTypes
<1>2. /\ UNCHANGED <<wire, granted, results>>
      /\ unknown \subseteq unknown'
  BY DEF Track, Enter, RegisterForeign, Wait, Ask, DispatchFails, Register, Unheard,
     MarkUnknown, ReserveOperation, admissionVars
<1>3. Standing(q)' = Standing(q)
  BY <1>2 DEF Standing, Narrowed, Allowed
<1>4. ASSUME NEW k \in Handler, handler'[q] = k, k.answer = h.answer
      PROVE  GrantOK(q)'
  BY <1>2, <1>4 DEF GrantOK, Backed
<1>5. CASE Ask(q)
  <2>1. Becomes(q, [h EXCEPT !.step = "asked"]) /\ h.step = "unasked"
        /\ waiting' = waiting
    BY <1>5, HandlerMoves DEF Ask, At, Unheard
  <2> DEFINE k == [h EXCEPT !.step = "asked"]
  <2>2. handler'[q] = k /\ k \in Handler
    BY <2>1, MovesOn
  <2>3. /\ k.step = "asked" /\ k.answer = h.answer /\ k.raised = h.raised
        /\ k.sent = h.sent /\ k.uncertain = h.uncertain /\ k.dispatched = h.dispatched
    BY <1>1 DEF Handler
  <2> HIDE DEF k
  <2>4. StepOK(q)'
    BY <1>2, <2>1, <2>2, <2>3 DEF StepOK, Untouched
  <2> QED BY <1>4, <2>2, <2>3, <2>4
<1>6. CASE Track(q)
  <2>1. h.step = "asked" /\ waiting' = waiting
    BY <1>6 DEF Track, At, Unheard
  <2>2. PICK s \in {"enter", "reject"} :
          /\ Becomes(q, [h EXCEPT !.step = s])
          /\ s = "reject" => Doubted'
    <3>1. CASE GoTo(q, "enter")
      BY <3>1, GoesTo DEF HandlerSteps
    <3>2. CASE MarkUnknown("untracked_request") /\ GoTo(q, "reject")
      <4>1. Doubted'
        BY <3>2 DEF MarkUnknown, FixedReason, UnknownReasons, Doubted
      <4> QED BY <3>2, <4>1, GoesTo DEF HandlerSteps
    <3> QED BY <1>6, <3>1, <3>2 DEF Track
  <2> DEFINE k == [h EXCEPT !.step = s]
  <2>3. handler'[q] = k /\ k \in Handler
    BY <2>2, MovesOn
  <2>4. /\ k.step = s /\ k.answer = h.answer /\ k.raised = h.raised
        /\ k.sent = h.sent /\ k.uncertain = h.uncertain /\ k.dispatched = h.dispatched
    BY <1>1 DEF Handler
  <2> HIDE DEF k
  <2>5. StepOK(q)'
    BY <1>2, <2>1, <2>2, <2>3, <2>4 DEF StepOK, Untouched
  <2> QED BY <1>4, <2>3, <2>4, <2>5
<1>7. CASE DispatchFails(q)
  <2> DEFINE k == [h EXCEPT !.step = "unsent", !.dispatched = FALSE]
  <2>1. handler'[q] = k /\ k \in Handler
    BY <1>7, HandlerMoves, MovesOn
  <2>2. k.step = "unsent" /\ ~k.dispatched /\ k.answer = h.answer
    BY <1>1 DEF Handler
  <2> HIDE DEF k
  <2>3. StepOK(q)'
    BY <2>1, <2>2 DEF StepOK
  <2> QED BY <1>4, <2>1, <2>2, <2>3
<1>8. CASE Enter(q)
  <2>1. h.step = "enter" /\ waiting' = waiting
    BY <1>8 DEF Enter, At, Unheard
  <2>2. PICK s \in {"register", "fallback"} : Becomes(q, [h EXCEPT !.step = s])
    BY <1>8, HandlerMoves
  <2> DEFINE k == [h EXCEPT !.step = s]
  <2>3. handler'[q] = k /\ k \in Handler
    BY <2>2, MovesOn
  <2>4. /\ k.step = s /\ k.answer = h.answer /\ k.raised = h.raised
        /\ k.sent = h.sent /\ k.uncertain = h.uncertain /\ k.dispatched = h.dispatched
    BY <1>1 DEF Handler
  <2> HIDE DEF k
  <2>5. StepOK(q)'
    BY <1>2, <2>1, <2>3, <2>4 DEF StepOK, Untouched
  <2> QED BY <1>4, <2>3, <2>4, <2>5
<1>9. CASE RegisterForeign(q)
  <2>1. h.step = "register" /\ waiting' = waiting
    BY <1>9 DEF RegisterForeign, At, Unheard
  <2>2. PICK raised \in BOOLEAN :
          Becomes(q, [h EXCEPT !.step = "leave", !.raised = raised])
    BY <1>9, HandlerMoves
  <2> DEFINE k == [h EXCEPT !.step = "leave", !.raised = raised]
  <2>3. handler'[q] = k /\ k \in Handler
    BY <2>2, MovesOn
  <2>4. /\ k.step = "leave" /\ k.answer = h.answer /\ k.sent = h.sent
        /\ k.uncertain = h.uncertain /\ k.dispatched = h.dispatched
    BY <1>1 DEF Handler
  <2>5. Standing(q) = Decline /\ Untouched(q)
    BY <2>1 DEF StepOK, Untouched, Standing
  <2> HIDE DEF k
  <2>6. StepOK(q)'
    BY <1>2, <1>3, <2>1, <2>3, <2>4, <2>5 DEF StepOK, Untouched
  <2> QED BY <1>4, <2>3, <2>4, <2>6
<1>10. CASE Register(q)
  <2>1. h.step = "register" /\ waiting' = waiting \cup {q}
    BY <1>10 DEF Register, At
  <2>2. Untouched(q)
    BY <2>1 DEF StepOK
  <2>3. CASE Becomes(q, [h EXCEPT !.step = "wait"])
    <3> DEFINE k == [h EXCEPT !.step = "wait"]
    <3>1. handler'[q] = k /\ k \in Handler
      BY <2>3, MovesOn
    <3>2. /\ k.step = "wait" /\ k.answer = h.answer /\ k.raised = h.raised
          /\ k.sent = h.sent /\ k.uncertain = h.uncertain /\ k.dispatched = h.dispatched
      BY <1>1 DEF Handler
    <3> HIDE DEF k
    <3>3. StepOK(q)'
      BY <1>2, <2>1, <2>2, <3>1, <3>2 DEF StepOK, Untouched, Asking
    <3> QED BY <1>4, <3>1, <3>2, <3>3
  <2>4. CASE Becomes(q, [h EXCEPT !.step = "leave", !.raised = TRUE, !.uncertain = TRUE])
    <3> DEFINE k == [h EXCEPT !.step = "leave", !.raised = TRUE, !.uncertain = TRUE]
    <3>1. handler'[q] = k /\ k \in Handler
      BY <2>4, MovesOn
    <3>2. /\ k.step = "leave" /\ k.answer = h.answer /\ k.raised
          /\ k.sent = h.sent /\ k.dispatched = h.dispatched
      BY <1>1 DEF Handler
    <3> HIDE DEF k
    <3>3. StepOK(q)'
      BY <1>2, <2>2, <3>1, <3>2 DEF StepOK, Untouched
    <3> QED BY <1>4, <3>1, <3>2, <3>3
  <2> QED BY <1>10, <2>3, <2>4, HandlerMoves
<1>11. CASE Wait(q)
  <2>1. h.step = "wait" /\ waiting' = waiting
    BY <1>11 DEF Wait, At, Unheard
  <2>2. PICK signaled \in BOOLEAN :
          Becomes(q, [h EXCEPT !.step = "collect", !.signaled = signaled])
    BY <1>11, HandlerMoves
  <2> DEFINE k == [h EXCEPT !.step = "collect", !.signaled = signaled]
  <2>3. handler'[q] = k /\ k \in Handler
    BY <2>2, MovesOn
  <2>4. /\ k.step = "collect" /\ k.answer = h.answer /\ k.raised = h.raised
        /\ k.sent = h.sent /\ k.uncertain = h.uncertain /\ k.dispatched = h.dispatched
    BY <1>1 DEF Handler
  <2>5. Asking(q)
    BY <2>1 DEF StepOK
  <2> HIDE DEF k
  <2>6. StepOK(q)'
    BY <1>2, <1>3, <2>1, <2>3, <2>4, <2>5 DEF StepOK, Asking
  <2> QED BY <1>4, <2>3, <2>4, <2>6
<1> QED BY <1>5, <1>6, <1>7, <1>8, <1>9, <1>10, <1>11

\* The handler takes the answer, and the call ends.
LEMMA CollectingSteps ==
  ASSUME BrokerTypes, NEW q \in ApprovalRequests, StepOK(q), GrantOK(q),
         Collect(q) \/ Leave(q)
  PROVE  StepOK(q)' /\ GrantOK(q)'
<1> DEFINE h == handler[q]
<1>1. h \in Handler /\ Answers \subseteq Nat
  BY DEF BrokerTypes, Answers, Decline, Once, Session
<1>2. UNCHANGED <<wire, granted>>
  BY DEF Collect, Leave, Unheard
<1>3. Standing(q)' = Standing(q)
  BY <1>2 DEF Standing, Narrowed, Allowed
<1>4. CASE Collect(q)
  <2>1. /\ h.step = "collect" /\ waiting' = waiting \ {q}
        /\ results' = [results EXCEPT ![q] = None]
    BY <1>4 DEF Collect, At
  <2>2. Asking(q) /\ q \notin waiting' /\ results'[q] = None
    BY <2>1 DEF StepOK, BrokerTypes
  <2>3. Result(q) = Standing(q) /\ Backed(q, Result(q))
    BY <2>2 DEF Asking, Result, Standing, GrantOK, Backed
  <2>4. CASE Becomes(q, [h EXCEPT !.step = "leave", !.answer = Result(q)])
    <3> DEFINE k == [h EXCEPT !.step = "leave", !.answer = Result(q)]
    <3>1. handler'[q] = k /\ k \in Handler
      BY <2>4, MovesOn
    <3>2. /\ k.step = "leave" /\ k.answer = Result(q) /\ k.raised = h.raised
          /\ k.sent = h.sent /\ k.uncertain = h.uncertain /\ k.dispatched = h.dispatched
      BY <1>1 DEF Handler
    <3> HIDE DEF k
    <3>3. StepOK(q)'
      BY <1>2, <1>3, <2>2, <2>3, <3>1, <3>2 DEF StepOK, Asking
    <3>4. GrantOK(q)'
      BY <1>2, <2>2, <2>3, <3>1, <3>2 DEF GrantOK, Backed
    <3> QED BY <3>3, <3>4
  <2>5. CASE Becomes(q, [h EXCEPT !.step = "leave", !.raised = TRUE, !.uncertain = TRUE])
    <3> DEFINE k == [h EXCEPT !.step = "leave", !.raised = TRUE, !.uncertain = TRUE]
    <3>1. handler'[q] = k /\ k \in Handler
      BY <2>5, MovesOn
    <3>2. /\ k.step = "leave" /\ k.answer = h.answer /\ k.raised
          /\ k.sent = h.sent /\ k.dispatched = h.dispatched
      BY <1>1 DEF Handler
    <3> HIDE DEF k
    <3>3. StepOK(q)'
      BY <1>2, <2>2, <3>1, <3>2 DEF StepOK, Asking
    <3>4. GrantOK(q)'
      BY <1>2, <2>2, <3>1, <3>2 DEF GrantOK, Backed
    <3> QED BY <3>3, <3>4
  <2> QED BY <1>4, <2>4, <2>5, HandlerMoves
<1>5. CASE Leave(q)
  <2>1. h.step = "leave" /\ UNCHANGED <<waiting, results>>
    BY <1>5 DEF Leave, At, Unheard
  <2> DEFINE s == IF h.raised THEN "fallback" ELSE "answer"
             k == [h EXCEPT !.step = s, !.uncertain = FALSE]
  <2>2. Becomes(q, k)
    BY <1>5, HandlerMoves
  <2>3. handler'[q] = k /\ k \in Handler
    BY <2>2, MovesOn
  <2>4. /\ k.step = s /\ k.answer = h.answer /\ k.raised = h.raised
        /\ k.sent = h.sent /\ k.uncertain = FALSE /\ k.dispatched = h.dispatched
    BY <1>1 DEF Handler
  <2> HIDE DEF k
  <2>5. StepOK(q)'
    BY <1>2, <1>3, <2>1, <2>3, <2>4 DEF StepOK
  <2>6. GrantOK(q)'
    BY <1>2, <2>1, <2>3, <2>4 DEF GrantOK, Backed
  <2> QED BY <2>5, <2>6
<1> QED BY <1>4, <1>5

\* One more entry on the wire.
LEMMA Appended ==
  ASSUME NEW s \in Seq(Answers), NEW e \in Answers
  PROVE  /\ Append(s, e) \in Seq(Answers) /\ Len(Append(s, e)) = Len(s) + 1
         /\ \A i \in 1 .. Len(Append(s, e)) :
              Append(s, e)[i] = IF i <= Len(s) THEN s[i] ELSE e
         /\ s = <<>> => Append(s, e) = <<e>>
<1>1. /\ Append(s, e) \in Seq(Answers) /\ Len(Append(s, e)) = Len(s) + 1
      /\ \A i \in 1 .. Len(s) : Append(s, e)[i] = s[i]
      /\ Append(s, e)[Len(s) + 1] = e
  BY AppendProperties
<1>2. Len(s) \in Nat
  OBVIOUS
<1>3. s = <<>> => Append(s, e) = <<e>>
  OBVIOUS
<1> QED BY <1>1, <1>2, <1>3

\* The client's side: the answer, the second attempt and the report.
LEMMA AnsweringSteps ==
  ASSUME BrokerTypes, NEW q \in ApprovalRequests, StepOK(q), GrantOK(q),
         Reject(q) \/ Answer(q) \/ Fallback(q)
  PROVE  StepOK(q)' /\ GrantOK(q)'
<1> DEFINE h == handler[q]
<1>1. /\ h \in Handler /\ wire[q] \in Seq(Answers) /\ Len(wire[q]) \in Nat
      /\ Decline \in Answers /\ h.answer \in Answers
  BY DEF BrokerTypes, Handler, Answers
<1>2. UNCHANGED <<granted, results, waiting>>
  BY DEF Reject, Answer, Fallback, Unheard
<1>3. Standing(q)' = Standing(q)
  BY <1>2 DEF Standing, Narrowed, Allowed
<1>4. PICK answer \in Answers, sent \in HandlerSteps, lost \in HandlerSteps :
        /\ Put(q, answer, sent, lost)
        /\ \/ h.step = "reject" /\ answer = Decline /\ sent = "done" /\ lost = "done"
           \/ h.step = "answer" /\ answer = h.answer /\ sent = "finish" /\ lost = "fallback"
           \/ h.step = "fallback" /\ answer = Decline /\ sent = "finish" /\ lost = "finish"
  BY <1>1 DEF Reject, Answer, Fallback, HandlerSteps, At
<1>5. /\ \/ /\ Becomes(q, [h EXCEPT !.step = sent, !.sent = TRUE])
            /\ wire' = [wire EXCEPT ![q] = Append(wire[q], answer)]
            /\ UNCHANGED unknown
         \/ /\ Becomes(q, [h EXCEPT !.step = lost,
                 !.uncertain = h.uncertain \/ h.step = "answer"])
            /\ wire' \in {wire, [wire EXCEPT ![q] = Append(wire[q], answer)]}
            /\ unknown' = unknown \cup {FixedReason("transport_lost")}
      /\ Append(wire[q], answer) \in Seq(Answers)
  BY <1>4, PutMoves
<1>6. wire'[q] \in {wire[q], Append(wire[q], answer)}
  BY <1>5 DEF BrokerTypes
<1>7. Doubted => Doubted'
  BY <1>5 DEF Doubted
<1>8. Backed(q, answer)
  BY <1>4 DEF Backed, GrantOK
<1>9. ASSUME NEW k \in Handler, handler'[q] = k, k.answer = h.answer
      PROVE  GrantOK(q)'
  <2>1. \A i \in 1 .. Len(wire'[q]) : Backed(q, wire'[q][i])
    BY <1>1, <1>6, <1>8, Appended DEF GrantOK
  <2> QED BY <1>2, <1>9, <2>1 DEF GrantOK, Backed
<1>10. CASE /\ Becomes(q, [h EXCEPT !.step = sent, !.sent = TRUE])
            /\ wire' = [wire EXCEPT ![q] = Append(wire[q], answer)]
  <2> DEFINE k == [h EXCEPT !.step = sent, !.sent = TRUE]
  <2>1. handler'[q] = k /\ k \in Handler
    BY <1>10, MovesOn
  <2>2. /\ k.step = sent /\ k.answer = h.answer /\ k.raised = h.raised
        /\ k.sent /\ k.uncertain = h.uncertain /\ k.dispatched = h.dispatched
    BY <1>1 DEF Handler
  <2>3. wire'[q] = Append(wire[q], answer)
    BY <1>10 DEF BrokerTypes
  <2>4. wire[q] = <<>> => wire'[q] = <<answer>> /\ Len(wire'[q]) = 1
    BY <1>1, <2>3, Appended
  <2>5. Delivered(q)' = ~h.uncertain
    BY <2>1, <2>2 DEF Delivered
  <2> HIDE DEF k
  <2>6. CASE h.step = "reject"
    <3>1. Doubted' /\ (h.dispatched => Untouched(q))
      BY <1>7, <2>6 DEF StepOK
    <3>2. h.dispatched => AnsweredOnce(q)'
      <4>1. Untouched(q) => Standing(q) = Decline
        BY DEF Untouched, Standing
      <4> QED BY <1>2, <1>3, <1>4, <2>4, <2>6, <3>1, <4>1 DEF AnsweredOnce, Untouched
    <3> QED BY <1>4, <1>9, <2>1, <2>2, <2>6, <3>1, <3>2 DEF StepOK
  <2>7. CASE h.step = "answer"
    <3>1. /\ wire[q] = <<>> /\ ~h.raised /\ q \notin waiting /\ h.answer = Standing(q)
          /\ h.dispatched
      BY <2>7 DEF StepOK
    <3>2. AnsweredOnce(q)'
      BY <1>2, <1>3, <1>4, <2>4, <2>7, <3>1 DEF AnsweredOnce
    <3> QED BY <1>4, <1>9, <2>1, <2>2, <2>7, <3>1, <3>2 DEF StepOK
  <2>8. CASE h.step = "fallback"
    <3>1. /\ h.dispatched
          /\ ~h.uncertain => /\ wire[q] = <<>>
                             /\ ~h.raised => granted[q] = <<>> /\ q \notin waiting
      BY <2>8 DEF StepOK
    <3>2. ~h.uncertain => AnsweredOnce(q)'
      <4>1. granted[q] = <<>> => Standing(q) = Decline
        BY DEF Standing
      <4> QED BY <1>2, <1>3, <1>4, <2>1, <2>2, <2>4, <2>8, <3>1, <4>1 DEF AnsweredOnce
    <3> QED BY <1>4, <1>9, <2>1, <2>2, <2>5, <2>8, <3>1, <3>2 DEF StepOK
  <2> QED BY <1>4, <2>6, <2>7, <2>8
<1>11. CASE /\ Becomes(q, [h EXCEPT !.step = lost,
                 !.uncertain = h.uncertain \/ h.step = "answer"])
            /\ wire' \in {wire, [wire EXCEPT ![q] = Append(wire[q], answer)]}
  <2> DEFINE u == h.uncertain \/ h.step = "answer"
             k == [h EXCEPT !.step = lost, !.uncertain = u]
  <2>1. handler'[q] = k /\ k \in Handler
    BY <1>11, MovesOn
  <2>2. /\ k.step = lost /\ k.answer = h.answer /\ k.raised = h.raised
        /\ k.sent = h.sent /\ k.uncertain = u /\ k.dispatched = h.dispatched
    BY <1>1 DEF Handler
  <2> HIDE DEF k
  <2>3. CASE h.step = "reject"
    <3>1. Doubted' /\ (h.dispatched => Untouched(q))
      BY <1>7, <2>3 DEF StepOK
    <3>2. h.dispatched => ~Delivered(q)'
      BY <2>1, <2>2, <3>1 DEF Delivered, Untouched
    <3> QED BY <1>4, <1>9, <2>1, <2>2, <2>3, <3>1, <3>2 DEF StepOK
  <2>4. CASE h.step = "answer"
    <3>1. h.dispatched /\ ~h.sent
      BY <2>4 DEF StepOK
    <3> QED BY <1>4, <1>9, <2>1, <2>2, <2>4, <3>1 DEF StepOK
  <2>5. CASE h.step = "fallback"
    <3>1. h.dispatched /\ ~h.sent
      BY <2>5 DEF StepOK
    <3>2. ~Delivered(q)'
      BY <2>1, <2>2, <3>1 DEF Delivered
    <3> QED BY <1>4, <1>9, <2>1, <2>2, <2>5, <3>1, <3>2 DEF StepOK
  <2> QED BY <1>4, <2>3, <2>4, <2>5
<1> QED BY <1>5, <1>10, <1>11

LEMMA ReportingSteps ==
  ASSUME BrokerTypes, NEW q \in ApprovalRequests, StepOK(q), GrantOK(q),
         Finish(q) \/ Unsent(q) \/ Release(q)
  PROVE  StepOK(q)' /\ GrantOK(q)'
<1> DEFINE h == handler[q]
<1>1. h \in Handler
  BY DEF BrokerTypes
<1>2. UNCHANGED <<wire, granted, results, waiting>> /\ unknown \subseteq unknown'
  BY DEF Finish, Unsent, Release, Unheard, MarkUnknown, FinishOperation, admissionVars
<1>3. Standing(q)' = Standing(q) /\ (Doubted => Doubted')
  BY <1>2, DoubtStays DEF Standing, Narrowed, Allowed
<1>4. ASSUME NEW k \in Handler, handler'[q] = k, k.answer = h.answer
      PROVE  GrantOK(q)'
  BY <1>2, <1>4 DEF GrantOK, Backed
<1>5. ASSUME NEW k \in Handler, handler'[q] = k, k.raised = h.raised, AnsweredOnce(q)
      PROVE  AnsweredOnce(q)'
  BY <1>2, <1>3, <1>5 DEF AnsweredOnce
<1>6. CASE Finish(q)
  <2> DEFINE s == IF Delivered(q) THEN "release" ELSE "unsent"
             k == [h EXCEPT !.step = s]
  <2>1. Becomes(q, k) /\ h.step = "finish"
    BY <1>6, HandlerMoves DEF Finish, At
  <2>2. handler'[q] = k /\ k \in Handler
    BY <2>1, MovesOn
  <2>3. /\ k.step = s /\ k.answer = h.answer /\ k.raised = h.raised
        /\ k.sent = h.sent /\ k.uncertain = h.uncertain /\ k.dispatched = h.dispatched
    BY <1>1 DEF Handler
  <2>4. h.dispatched /\ (Delivered(q) => AnsweredOnce(q))
    BY <2>1 DEF StepOK
  <2> HIDE DEF k
  <2>5. Delivered(q)' = Delivered(q)
    BY <2>2, <2>3 DEF Delivered
  <2>6. CASE Delivered(q)
    <3>1. AnsweredOnce(q)'
      BY <1>5, <2>2, <2>3, <2>4, <2>6
    <3> QED BY <1>4, <2>2, <2>3, <2>4, <2>6, <3>1 DEF StepOK, Delivered
  <2>7. CASE ~Delivered(q)
    BY <1>4, <2>2, <2>3, <2>5, <2>7 DEF StepOK
  <2> QED BY <2>6, <2>7
<1>7. CASE Unsent(q)
  <2> DEFINE k == [h EXCEPT !.step = "release", !.uncertain = TRUE]
  <2>1. handler'[q] = k /\ k \in Handler
    BY <1>7, HandlerMoves, MovesOn
  <2>2. k.step = "release" /\ k.answer = h.answer /\ k.uncertain
    BY <1>1 DEF Handler
  <2>3. Doubted'
    BY <1>7 DEF Unsent, MarkUnknown, FixedReason, UnknownReasons, Doubted
  <2> HIDE DEF k
  <2> QED BY <1>4, <2>1, <2>2, <2>3 DEF StepOK
<1>8. CASE Release(q)
  <2> DEFINE s == IF h.dispatched THEN "done" ELSE "reject"
             k == [h EXCEPT !.step = s]
  <2>1. Becomes(q, k) /\ h.step = "release"
    BY <1>8, HandlerMoves DEF Release, At
  <2>2. handler'[q] = k /\ k \in Handler
    BY <2>1, MovesOn
  <2>3. /\ k.step = s /\ k.answer = h.answer /\ k.raised = h.raised
        /\ k.sent = h.sent /\ k.uncertain = h.uncertain /\ k.dispatched = h.dispatched
    BY <1>1 DEF Handler
  <2>4. IF h.uncertain THEN Doubted ELSE h.dispatched /\ h.sent /\ AnsweredOnce(q)
    BY <2>1 DEF StepOK
  <2> HIDE DEF k
  <2>5. Delivered(q)' = Delivered(q)
    BY <2>2, <2>3 DEF Delivered
  <2>6. CASE h.uncertain
    <3>1. Doubted' /\ ~Delivered(q)'
      BY <1>3, <2>4, <2>5, <2>6 DEF Delivered
    <3> QED BY <1>4, <2>2, <2>3, <3>1 DEF StepOK
  <2>7. CASE ~h.uncertain
    <3>1. h.dispatched /\ AnsweredOnce(q)' /\ Len(wire'[q]) = 1
      BY <1>5, <2>2, <2>3, <2>4, <2>7 DEF AnsweredOnce
    <3> QED BY <1>4, <2>2, <2>3, <3>1 DEF StepOK
  <2> QED BY <2>6, <2>7
<1> QED BY <1>6, <1>7, <1>8

\* The call of resolve_approval that is acknowledged: its request is still waiting,
\* so its answer has not been taken.
LEMMA DecidingStep ==
  ASSUME BrokerTypes, NEW r \in Resolvers, Decide(r),
         NEW p \in ApprovalRequests, StepOK(p), GrantOK(p)
  PROVE  StepOK(p)' /\ GrantOK(p)'
<1> DEFINE q == resolution[r].request
           level == resolution[r].level
<1>1. UNCHANGED <<handler, wire, waiting, unknown>>
  BY DEF Decide, admissionVars
<1>2. level \in Answers /\ Answers \subseteq Nat
  BY DEF BrokerTypes, Resolutions, Answers, Decline, Once, Session
<1>3. CASE ~(Resolvable(q, level) /\ p = q)
  <2>1. granted'[p] = granted[p] /\ results'[p] = results[p]
    BY <1>3 DEF Decide, BrokerTypes
  <2>2. Undisturbed(p) /\ (Doubted => Doubted')
    BY <1>1, <2>1 DEF Undisturbed, Doubted
  <2> QED BY <2>2, UndisturbedKeeps
<1>4. CASE Resolvable(q, level) /\ p = q
  <2>1. /\ granted'[p] = Append(granted[p], level)
        /\ results'[p] = Narrowed(p, level)
    BY <1>4 DEF Decide, BrokerTypes
  <2>2. p \in waiting
    BY <1>4 DEF Resolvable
  <2>3. granted[p] \in Seq(Answers) /\ Len(granted[p]) \in Nat
    BY DEF BrokerTypes
  <2> HIDE DEF q, level
  <2>4. /\ Len(granted'[p]) = Len(granted[p]) + 1 /\ granted'[p] # <<>>
        /\ \A i \in 1 .. Len(granted'[p]) :
             granted'[p][i] = IF i <= Len(granted[p]) THEN granted[p][i] ELSE level
    BY <1>2, <2>1, <2>3, Appended, AppendProperties
  <2>5. Last(granted'[p]) = level
    BY <2>3, <2>4 DEF Last
  <2>6. Standing(p)' = Narrowed(p, level)
    BY <2>4, <2>5 DEF Standing, Narrowed, Allowed, Last
  <2>7. Narrowed(p, level) \in Answers /\ Narrowed(p, level) <= level
    BY <1>2, NarrowedFacts
  <2>8. results'[p] # None /\ None \notin Answers
    BY <2>1, <2>7, ApprovalAssumption
  <2>9. ~Untouched(p) /\ (AnsweredOnce(p) => handler[p].raised)
    BY <2>2 DEF Untouched, AnsweredOnce
  <2>10. /\ Doubted' = Doubted /\ Delivered(p)' = Delivered(p)
         /\ AnsweredOnce(p) => AnsweredOnce(p)'
    BY <1>1, <2>9 DEF Doubted, Delivered, AnsweredOnce
  <2>11. Asking(p) => Asking(p)'
    BY <1>1, <2>1, <2>4, <2>6, <2>8 DEF Asking
  <2>12. StepOK(p)'
    BY <1>1, <2>2, <2>9, <2>10, <2>11 DEF StepOK
  <2> DEFINE BackedNow(l) ==
        l # Decline => \E j \in 1 .. Len(granted'[p]) : granted'[p][j] >= l
  <2>13. \A l \in Answers : Backed(p, l) => BackedNow(l)
    BY <1>2, <2>3, <2>4 DEF Backed
  <2>14. BackedNow(Narrowed(p, level))
    <3>1. Len(granted'[p]) \in 1 .. Len(granted'[p])
          /\ granted'[p][Len(granted'[p])] = level
      BY <2>3, <2>4
    <3>2. level >= Narrowed(p, level)
      BY <1>2, <2>7
    <3> QED BY <3>1, <3>2
  <2>15. GrantOK(p)'
    <3>1. \A i \in 1 .. Len(wire[p]) : wire[p][i] \in Answers
      BY DEF BrokerTypes
    <3>2. handler[p].answer \in Answers
      BY DEF BrokerTypes, Handler
    <3>3. /\ \A i \in 1 .. Len(wire'[p]) : BackedNow(wire'[p][i])
          /\ BackedNow(handler'[p].answer)
      BY <1>1, <2>13, <3>1, <3>2 DEF GrantOK
    <3>4. BackedNow(results'[p])
      BY <2>1, <2>14
    <3> QED BY <3>3, <3>4 DEF GrantOK, Backed
  <2> QED BY <2>12, <2>15
<1> QED BY <1>3, <1>4

\* The process ends: what was under way is lost, and the next ledger says so.
LEMMA RestartStep ==
  ASSUME BrokerTypes, Restart, NEW p \in ApprovalRequests, StepOK(p), GrantOK(p)
  PROVE  StepOK(p)' /\ GrantOK(p)' /\ Admitted(p)'
<1>1. UNCHANGED <<wire, granted>> /\ waiting' = {} /\ results'[p] = None
  BY DEF Restart
<1>2. Doubted'
  BY DEF Restart, FreshReasons, Doubted
<1>3. Standing(p)' = Standing(p)
  BY <1>1 DEF Standing, Narrowed, Allowed
<1>4. CASE handler[p].step \in {"unasked", "done"}
  <2>1. handler'[p] = handler[p]
    BY <1>4 DEF Restart, BrokerTypes
  <2>2. Delivered(p)' = Delivered(p)
    BY <2>1 DEF Delivered
  <2>3. StepOK(p)'
    <3>1. CASE handler[p].step = "unasked"
      BY <1>1, <2>1, <3>1 DEF StepOK, Untouched
    <3>2. CASE handler[p].step = "done"
      BY <1>1, <1>2, <1>3, <2>1, <2>2, <3>2 DEF StepOK, AnsweredOnce
    <3> QED BY <1>4, <3>1, <3>2
  <2> QED BY <1>1, <1>4, <2>1, <2>3 DEF GrantOK, Backed, Admitted
<1>5. CASE handler[p].step \notin {"unasked", "done"}
  <2>1. handler'[p] = [handler[p] EXCEPT !.step = "lost"]
    BY <1>5 DEF Restart, BrokerTypes
  <2>2. handler'[p].step = "lost" /\ handler'[p].answer = handler[p].answer
    BY <2>1 DEF BrokerTypes, Handler
  <2> QED BY <1>1, <1>2, <2>2 DEF StepOK, GrantOK, Backed, Admitted
<1> QED BY <1>4, <1>5

\* Reservations of different requests and of callers never meet.
LEMMA TokensDiffer ==
  ASSUME NEW p \in ApprovalRequests, NEW q \in ApprovalRequests
  PROVE  /\ ReplyToken(p) # HandlerToken(q)
         /\ ReplyToken(p) = ReplyToken(q) => p = q
         /\ ReplyToken(p) \notin Resolvers
  BY ApprovalAssumption DEF ReplyToken, HandlerToken

LEMMA AdmittedKept ==
  ASSUME Ledger, BrokerTypes, [ApprovalNext]_allVars,
         NEW p \in ApprovalRequests, StepOK(p), GrantOK(p), Admitted(p)
  PROVE  Admitted(p)'
<1> DEFINE t == ReplyToken(p)
<1>1. t \in OperationTokens /\ "approval" # None
      /\ operations \in [OperationTokens -> ActivityKinds \cup {None}]
  BY TokensOK, AdmissionAssumption DEF ActivityKinds, Ledger, TypeOK
<1>2. ASSUME handler'[p] = handler[p], operations'[t] = operations[t]
      PROVE  Admitted(p)'
  BY <1>2 DEF Admitted
<1>3. ASSUME NEW q \in ApprovalRequests, HandlerStep(q) \/ Ask(q) \/ DispatchFails(q)
      PROVE  Admitted(p)'
  <2>1. CASE p # q
    <3>1. handler'[p] = handler[p]
      BY <1>3, <2>1, OthersUndisturbed DEF Undisturbed
    <3>2. operations'[t] = operations[t]
      <4>1. t # HandlerToken(q) /\ t # ReplyToken(q)
        BY <2>1, TokensDiffer
      <4>2. \/ UNCHANGED operations
            \/ \E o \in {HandlerToken(q), ReplyToken(q)}, v \in {"approval", None} :
                 operations' = [operations EXCEPT ![o] = v]
        BY <1>3 DEF HandlerStep, Track, Enter, RegisterForeign, Wait, Leave, Finish,
           Unsent, Release, Ask, DispatchFails, Register, Collect, MarkUnknown,
           Reject, Answer, Fallback, Put, ReserveOperation, FinishOperation,
           admissionVars
      <4> QED BY <1>1, <4>1, <4>2
    <3> QED BY <1>2, <3>1, <3>2
  <2>2. CASE p = q
    <3> DEFINE h == handler[q]
    <3>1. h \in Handler
      BY DEF BrokerTypes
    <3>2. ASSUME NEW k, Becomes(q, k),
                 k.step \in {"unasked", "asked", "reject", "done", "lost"}
          PROVE  Admitted(p)'
      BY <2>2, <3>2, MovesOn DEF Admitted
    <3>3. ASSUME NEW k, Becomes(q, k), operations'[t] = operations[t],
                 h.step \notin {"unasked", "asked", "reject", "done", "lost"}
          PROVE  Admitted(p)'
      BY <2>2, <3>3, MovesOn DEF Admitted
    <3>4. CASE Ask(q)
      <4>1. [h EXCEPT !.step = "asked"].step = "asked"
        BY <3>1 DEF Handler
      <4> QED BY <3>2, <3>4, <4>1, HandlerMoves
    <3>5. CASE Track(q)
      <4>1. CASE ReserveOperation(ReplyToken(q), "approval")
        <5>1. operations'[t] = "approval"
          BY <1>1, <2>2, <4>1 DEF ReserveOperation
        <5> QED BY <1>1, <5>1 DEF Admitted
      <4>2. CASE GoTo(q, "reject")
        <5>1. [h EXCEPT !.step = "reject"].step = "reject"
          BY <3>1 DEF Handler
        <5>2. Becomes(q, [h EXCEPT !.step = "reject"])
          BY <4>2, GoesTo DEF HandlerSteps
        <5> QED BY <3>2, <5>1, <5>2
      <4> QED BY <3>5, <4>1, <4>2 DEF Track
    <3>6. CASE Release(q)
      <4> DEFINE s == IF h.dispatched THEN "done" ELSE "reject"
      <4>1. Becomes(q, [h EXCEPT !.step = s])
        BY <3>6, HandlerMoves
      <4>2. [h EXCEPT !.step = s].step = s
        BY <3>1 DEF Handler
      <4> QED BY <3>2, <4>1, <4>2
    <3>7. CASE Reject(q)
      <4>1. /\ Decline \in Answers /\ "done" \in HandlerSteps
            /\ Put(q, Decline, "done", "done")
        BY <3>7 DEF Reject, Answers, HandlerSteps
      <4>2. \/ Becomes(q, [h EXCEPT !.step = "done", !.sent = TRUE])
            \/ Becomes(q, [h EXCEPT !.step = "done",
                                    !.uncertain = h.uncertain \/ h.step = "answer"])
        BY <4>1, PutMoves
      <4>3. /\ [h EXCEPT !.step = "done", !.sent = TRUE].step = "done"
            /\ [h EXCEPT !.step = "done",
                         !.uncertain = h.uncertain \/ h.step = "answer"].step = "done"
        BY <3>1 DEF Handler
      <4> QED BY <3>2, <4>2, <4>3
    <3>8. CASE Enter(q) \/ Leave(q)
      <4>1. operations'[t] = operations[t]
        <5>1. \/ UNCHANGED operations
              \/ \E v \in {"approval", None} :
                   operations' = [operations EXCEPT ![HandlerToken(q)] = v]
          BY <3>8 DEF Enter, Leave, ReserveOperation, FinishOperation, admissionVars
        <5>2. t # HandlerToken(q)
          BY TokensDiffer
        <5> QED BY <1>1, <5>1, <5>2
      <4>2. h.step \in {"enter", "leave"}
        BY <3>8 DEF Enter, Leave, At
      <4>3. \E k : Becomes(q, k)
        BY <3>8, HandlerMoves
      <4> QED BY <3>3, <4>1, <4>2, <4>3
    <3>9. CASE Answer(q) \/ Fallback(q)
      <4>1. /\ Decline \in Answers /\ h.answer \in Answers
            /\ {"finish", "fallback"} \subseteq HandlerSteps
            /\ \/ Put(q, h.answer, "finish", "fallback")
               \/ Put(q, Decline, "finish", "finish")
        BY <3>1, <3>9 DEF Answer, Fallback, Answers, HandlerSteps, Handler
      <4>2. UNCHANGED operations
        BY <4>1, PutMoves
      <4>3. \E k : Becomes(q, k)
        BY <4>1, PutMoves
      <4>4. h.step \in {"answer", "fallback"}
        BY <3>9 DEF Answer, Fallback, At
      <4> QED BY <3>3, <4>2, <4>3, <4>4
    <3>10. CASE \/ DispatchFails(q) \/ RegisterForeign(q) \/ Register(q) \/ Wait(q)
                \/ Collect(q) \/ Finish(q) \/ Unsent(q)
      <4>1. UNCHANGED operations
        BY <3>10 DEF DispatchFails, RegisterForeign, Register, Wait, Collect, Finish,
           Unsent, MarkUnknown, admissionVars
      <4>2. h.step \in {"enter", "register", "wait", "collect", "finish", "unsent"}
        BY <3>10 DEF DispatchFails, RegisterForeign, Register, Wait, Collect, Finish,
           Unsent, At
      <4>3. \E k : Becomes(q, k)
        BY <3>10, HandlerMoves
      <4> QED BY <3>3, <4>1, <4>2, <4>3
    <3> QED BY <1>3, <3>4, <3>5, <3>6, <3>7, <3>8, <3>9, <3>10 DEF HandlerStep
  <2> QED BY <2>1, <2>2
<1>4. ASSUME NEW r \in Resolvers,
             \/ \E q \in ApprovalRequests, level \in Answers : BeginResolve(r, q, level)
             \/ EndResolve(r)
      PROVE  Admitted(p)'
  <2>1. t # r
    BY TokensDiffer
  <2>2. \E v \in {"approval", None} : operations' = [operations EXCEPT ![r] = v]
    BY <1>4 DEF BeginResolve, EndResolve, ReserveOperation, FinishOperation
  <2>3. UNCHANGED handler
    BY <1>4 DEF BeginResolve, EndResolve
  <2> QED BY <1>1, <1>2, <2>1, <2>2, <2>3
<1>5. CASE (\E r \in Resolvers : Decide(r)) \/ LoseStream \/ OwnerStep \/ UNCHANGED allVars
  <2>1. UNCHANGED <<handler, operations>>
    BY <1>5 DEF Decide, LoseStream, OwnerStep, ClaimController, TryEnterMaintenance,
       LeaveMaintenance, Close, allVars, admissionVars, approvalVars
  <2> QED BY <1>2, <2>1
<1>6. CASE Restart
  BY <1>6, RestartStep
<1> QED BY <1>3, <1>4, <1>5, <1>6 DEF ApprovalNext

LEMMA BrokerInvPreserved ==
  ASSUME Ledger, BrokerTypes, BrokerInv, [ApprovalNext]_allVars
  PROVE  BrokerInv'
<1> SUFFICES ASSUME NEW p \in ApprovalRequests
             PROVE  (StepOK(p) /\ Admitted(p) /\ GrantOK(p))'
  BY DEF BrokerInv
<1>1. StepOK(p) /\ GrantOK(p) /\ Admitted(p)
  BY DEF BrokerInv
<1>2. Admitted(p)'
  BY <1>1, AdmittedKept
<1>3. ASSUME NEW q \in ApprovalRequests, HandlerStep(q) \/ Ask(q) \/ DispatchFails(q)
      PROVE  StepOK(p)' /\ GrantOK(p)'
  <2>1. CASE p # q
    BY <1>1, <1>3, <2>1, OthersUndisturbed, UndisturbedKeeps, DoubtStays
  <2>2. CASE p = q
    BY <1>1, <1>3, <2>2, AskingSteps, CollectingSteps, AnsweringSteps, ReportingSteps
    DEF HandlerStep
  <2> QED BY <2>1, <2>2
<1>4. ASSUME NEW r \in Resolvers, Decide(r)
      PROVE  StepOK(p)' /\ GrantOK(p)'
  BY <1>1, <1>4, DecidingStep
<1>5. CASE \/ \E r \in Resolvers :
                \/ \E q \in ApprovalRequests, level \in Answers : BeginResolve(r, q, level)
                \/ EndResolve(r)
           \/ LoseStream \/ OwnerStep \/ UNCHANGED allVars
  <2>1. UNCHANGED <<handler, wire, granted, results, waiting>> /\ unknown \subseteq unknown'
    BY <1>5 DEF BeginResolve, EndResolve, LoseStream, OwnerStep, ClaimController,
       TryEnterMaintenance, LeaveMaintenance, Close, ReserveOperation, FinishOperation,
       allVars, admissionVars, approvalVars
  <2>2. Undisturbed(p)
    BY <2>1 DEF Undisturbed
  <2> QED BY <1>1, <1>2, <2>1, <2>2, UndisturbedKeeps, DoubtStays
<1>6. CASE Restart
  BY <1>1, <1>6, RestartStep
<1>7. StepOK(p)' /\ GrantOK(p)'
  BY <1>3, <1>4, <1>5, <1>6 DEF ApprovalNext
<1> QED BY <1>2, <1>7

-----------------------------------------------------------------------------
(* A request is settled once, whatever was saved when the process ended. *)

\* No request twice in a history, and none of it among the pending ones.
Accounted(p, h) ==
  /\ \A i, j \in 1 .. Len(h) : h[i].request = h[j].request => i = j
  /\ \A i \in 1 .. Len(h) : h[i].request \notin p

Mentioned(q, h) == \E i \in 1 .. Len(h) : h[i].request = q

\* The session's records and their copy on disk; a request is settled once it has
\* been collected, and appears when it is registered.
Records ==
  /\ Accounted(pending, history) /\ Accounted(disk.pending, disk.history)
  /\ IsFiniteSet(pending) /\ IsFiniteSet(disk.pending)
  /\ \A q \in ApprovalRequests :
       /\ handler[q].step \in {"unasked", "asked", "enter", "register"} =>
            q \notin pending \cup disk.pending
       /\ handler[q].step \in {"unasked", "asked", "enter", "register", "wait", "collect"} =>
            ~Mentioned(q, history) /\ ~Mentioned(q, disk.history)

\* A trimmed history accounts for no more than the whole did.
LEMMA TrimmedAccounted ==
  ASSUME NEW h \in Seq(Settled), NEW p, Accounted(p, h)
  PROVE  /\ Accounted(p, Trimmed(h))
         /\ \A q : Mentioned(q, Trimmed(h)) => Mentioned(q, h)
<1>1. PICK k \in Nat : \A i \in 1 .. Len(Trimmed(h)) :
                         i + k \in 1 .. Len(h) /\ Trimmed(h)[i] = h[i + k]
  BY TrimmedFacts
<1>2. ASSUME NEW i \in 1 .. Len(Trimmed(h)), NEW j \in 1 .. Len(Trimmed(h)),
             Trimmed(h)[i].request = Trimmed(h)[j].request
      PROVE  i = j
  <2>1. h[i + k].request = h[j + k].request
        /\ i + k \in 1 .. Len(h) /\ j + k \in 1 .. Len(h)
    BY <1>1, <1>2
  <2>2. i + k = j + k
    BY <2>1 DEF Accounted
  <2>3. i \in Int /\ j \in Int /\ k \in Int
    OBVIOUS
  <2> QED BY <2>2, <2>3
<1>3. \A i \in 1 .. Len(Trimmed(h)) : Trimmed(h)[i].request \notin p
  BY <1>1 DEF Accounted
<1>4. ASSUME NEW q, Mentioned(q, Trimmed(h)) PROVE Mentioned(q, h)
  BY <1>1, <1>4 DEF Mentioned
<1> QED BY <1>2, <1>3, <1>4 DEF Accounted

\* One more settled request, which was pending until now.
LEMMA AppendAccounted ==
  ASSUME NEW h \in Seq(Settled), NEW e \in Settled, NEW p, Accounted(p, h),
         ~Mentioned(e.request, h)
  PROVE  /\ Append(h, e) \in Seq(Settled)
         /\ Accounted(p \ {e.request}, Append(h, e))
         /\ \A q : Mentioned(q, Append(h, e)) => q = e.request \/ Mentioned(q, h)
<1>1. /\ Append(h, e) \in Seq(Settled) /\ Len(Append(h, e)) = Len(h) + 1
      /\ \A i \in 1 .. Len(h) : Append(h, e)[i] = h[i]
      /\ Append(h, e)[Len(h) + 1] = e
      /\ Len(h) \in Nat
  BY AppendProperties
<1>2. \A i \in 1 .. Len(h) : h[i].request # e.request
  BY DEF Mentioned
<1>3. \A i \in 1 .. Len(h) + 1 :
        \/ i \in 1 .. Len(h) /\ Append(h, e)[i] = h[i]
        \/ i = Len(h) + 1 /\ Append(h, e)[i] = e
  BY <1>1
<1>4. Accounted(p \ {e.request}, Append(h, e))
  BY <1>1, <1>2, <1>3 DEF Accounted
<1>5. \A q : Mentioned(q, Append(h, e)) => q = e.request \/ Mentioned(q, h)
  BY <1>1, <1>3 DEF Mentioned
<1> QED BY <1>1, <1>4, <1>5

\* What the next process makes of the records on disk.
LEMMA LoadedAccounted ==
  ASSUME NEW d \in [pending : SUBSET ApprovalRequests, history : Seq(Settled)],
         IsFiniteSet(d.pending), Accounted(d.pending, d.history)
  PROVE  /\ Accounted({}, Loaded(d).history)
         /\ \A q : Mentioned(q, Loaded(d).history) =>
              q \in d.pending \/ Mentioned(q, d.history)
<1> DEFINE s == SetToSeq(AbandonedEntries(d.pending))
           h == d.history
<1>1. /\ h \in Seq(Settled) /\ s \in Seq(Settled) /\ Len(h) \in Nat /\ Len(s) \in Nat
      /\ \A i \in 1 .. Len(s) : s[i].request \in d.pending
      /\ \A i, j \in 1 .. Len(s) : s[i].request = s[j].request => i = j
  BY AbandonedInOrder
<1>2. /\ Loaded(d).history = Trimmed(h \o s) /\ h \o s \in Seq(Settled)
  BY LoadedTypes
<1>3. Accounted(d.pending, h)
  OBVIOUS
<1> HIDE DEF s, h
<1>4. /\ Len(h \o s) = Len(h) + Len(s)
      /\ \A i \in 1 .. Len(h) + Len(s) :
           (h \o s)[i] = IF i <= Len(h) THEN h[i] ELSE s[i - Len(h)]
  BY <1>1, ConcatProperties
<1>5. \A i \in 1 .. Len(h) + Len(s) :
        \/ i \in 1 .. Len(h) /\ (h \o s)[i] = h[i]
        \/ i \notin 1 .. Len(h) /\ i - Len(h) \in 1 .. Len(s) /\ (h \o s)[i] = s[i - Len(h)]
  BY <1>1, <1>4
<1>6. Accounted({}, h \o s)
  <2>1. ASSUME NEW i \in 1 .. Len(h) + Len(s), NEW j \in 1 .. Len(h) + Len(s),
               (h \o s)[i].request = (h \o s)[j].request
        PROVE  i = j
    <3>1. CASE i \in 1 .. Len(h) /\ j \in 1 .. Len(h)
      BY <1>3, <1>5, <2>1, <3>1 DEF Accounted
    <3>2. CASE i \notin 1 .. Len(h) /\ j \notin 1 .. Len(h)
      <4>1. i - Len(h) = j - Len(h)
        BY <1>1, <1>5, <2>1, <3>2
      <4> QED BY <1>1, <4>1
    <3>3. CASE i \in 1 .. Len(h) /\ j \notin 1 .. Len(h)
      BY <1>1, <1>3, <1>5, <2>1, <3>3 DEF Accounted
    <3>4. CASE i \notin 1 .. Len(h) /\ j \in 1 .. Len(h)
      BY <1>1, <1>3, <1>5, <2>1, <3>4 DEF Accounted
    <3> QED BY <3>1, <3>2, <3>3, <3>4
  <2> QED BY <1>4, <2>1 DEF Accounted
<1>7. \A q : Mentioned(q, h \o s) => q \in d.pending \/ Mentioned(q, h)
  BY <1>1, <1>4, <1>5 DEF Mentioned
<1>8. /\ Accounted({}, Trimmed(h \o s))
      /\ \A q : Mentioned(q, Trimmed(h \o s)) => Mentioned(q, h \o s)
  BY <1>2, <1>6, TrimmedAccounted
<1> QED BY <1>2, <1>7, <1>8 DEF h

\* A handler goes back to none of the steps before its registration, and only
\* Register and Collect write the records.
Early   == {"unasked", "asked", "enter", "register"}
Unended == Early \cup {"wait", "collect"}

LEMMA NoWayBack ==
  ASSUME BrokerTypes, NEW q \in ApprovalRequests,
         HandlerStep(q) \/ Ask(q) \/ DispatchFails(q)
  PROVE  /\ handler'[q].step \in Early => handler[q].step \in Early
         /\ handler'[q].step \in Unended => handler[q].step \in Unended
         /\ ~Collect(q) /\ ~Register(q) => UNCHANGED <<pending, history, disk>>
         /\ Register(q) => handler'[q].step \notin Early /\ handler[q].step = "register"
         /\ Collect(q) => handler'[q].step \notin Unended /\ handler[q].step = "collect"
<1> DEFINE h == handler[q]
<1>1. h \in Handler
  BY DEF BrokerTypes
<1>2. ASSUME NEW k, Becomes(q, k) PROVE handler'[q] = k
  BY <1>2, BecomesFacts
<1>3. CASE Reject(q) \/ Answer(q) \/ Fallback(q)
  <2>1. PICK answer \in Answers, sent \in {"done", "finish"},
             lost \in {"done", "finish", "fallback"} : Put(q, answer, sent, lost)
    <3>1. h.answer \in Answers /\ Decline \in Answers
      BY <1>1 DEF Handler, Answers
    <3> QED BY <1>3, <3>1 DEF Reject, Answer, Fallback
  <2>2. sent \in HandlerSteps /\ lost \in HandlerSteps
    BY DEF HandlerSteps
  <2>3. \/ Becomes(q, [h EXCEPT !.step = sent, !.sent = TRUE])
        \/ Becomes(q, [h EXCEPT !.step = lost,
                                !.uncertain = h.uncertain \/ h.step = "answer"])
    BY <2>1, <2>2, PutMoves
  <2>4. /\ [h EXCEPT !.step = sent, !.sent = TRUE].step = sent
        /\ [h EXCEPT !.step = lost,
                     !.uncertain = h.uncertain \/ h.step = "answer"].step = lost
    BY <1>1 DEF Handler
  <2>5. handler'[q].step \in {"done", "finish", "fallback"}
    BY <1>2, <2>3, <2>4
  <2>6. UNCHANGED <<pending, history, disk>> /\ h.step \in {"reject", "answer", "fallback"}
    BY <1>3 DEF Reject, Answer, Fallback, Unheard, At
  <2>7. ~Collect(q) /\ ~Register(q)
    BY <2>6 DEF Collect, Register, At
  <2> QED BY <2>5, <2>6, <2>7 DEF Early, Unended
<1>4. CASE Ask(q) \/ Track(q) \/ Enter(q)
  <2>1. PICK s \in {"asked", "enter", "reject", "register", "fallback"} :
          Becomes(q, [h EXCEPT !.step = s])
    BY <1>4, HandlerMoves
  <2>2. handler'[q].step = s
    BY <1>1, <1>2, <2>1 DEF Handler
  <2>3. h.step \in Early /\ UNCHANGED <<pending, history, disk>>
    BY <1>4 DEF Ask, Track, Enter, At, Unheard, Early
  <2>4. ~Collect(q) /\ ~Register(q)
    BY <1>4 DEF Ask, Track, Enter, At, Collect, Register
  <2> QED BY <2>2, <2>3, <2>4 DEF Early, Unended
<1>5. CASE DispatchFails(q) \/ Unsent(q)
  <2>1. /\ [h EXCEPT !.step = "unsent", !.dispatched = FALSE].step = "unsent"
        /\ [h EXCEPT !.step = "release", !.uncertain = TRUE].step = "release"
    BY <1>1 DEF Handler
  <2>2. handler'[q].step \in {"unsent", "release"}
    BY <1>2, <1>5, <2>1, HandlerMoves
  <2>3. /\ UNCHANGED <<pending, history, disk>>
        /\ ~Collect(q) /\ ~Register(q)
    BY <1>5 DEF DispatchFails, Unsent, Unheard, Collect, Register, At
  <2> QED BY <2>2, <2>3 DEF Early, Unended
<1>6. CASE RegisterForeign(q)
  <2>1. PICK raised \in BOOLEAN :
          Becomes(q, [h EXCEPT !.step = "leave", !.raised = raised])
    BY <1>6, HandlerMoves
  <2>2. handler'[q].step = "leave"
    BY <1>1, <1>2, <2>1 DEF Handler
  <2>3. UNCHANGED <<pending, history, disk>> /\ h.step = "register" /\ ~Collect(q)
    BY <1>6 DEF RegisterForeign, Unheard, At, Collect
  <2> QED BY <2>2, <2>3 DEF Early, Unended
<1>7. CASE Register(q)
  <2>1. /\ [h EXCEPT !.step = "wait"].step = "wait"
        /\ [h EXCEPT !.step = "leave", !.raised = TRUE, !.uncertain = TRUE].step = "leave"
    BY <1>1 DEF Handler
  <2>2. handler'[q].step \in {"wait", "leave"} /\ h.step = "register"
    BY <1>2, <1>7, <2>1, HandlerMoves DEF Register, At
  <2>3. ~Collect(q)
    BY <2>2 DEF Collect, At
  <2> QED BY <1>7, <2>2, <2>3 DEF Early, Unended
<1>8. CASE Collect(q)
  <2>1. /\ [h EXCEPT !.step = "leave", !.answer = Result(q)].step = "leave"
        /\ [h EXCEPT !.step = "leave", !.raised = TRUE, !.uncertain = TRUE].step = "leave"
    BY <1>1 DEF Handler
  <2>2. handler'[q].step = "leave" /\ h.step = "collect"
    BY <1>2, <1>8, <2>1, HandlerMoves DEF Collect, At
  <2>3. ~Register(q)
    BY <2>2 DEF Register, At
  <2> QED BY <1>8, <2>2, <2>3 DEF Early, Unended
<1>9. CASE Wait(q)
  <2>1. PICK signaled \in BOOLEAN :
          Becomes(q, [h EXCEPT !.step = "collect", !.signaled = signaled])
    BY <1>9, HandlerMoves
  <2>2. handler'[q].step = "collect"
    BY <1>1, <1>2, <2>1 DEF Handler
  <2>3. UNCHANGED <<pending, history, disk>> /\ h.step = "wait"
    BY <1>9 DEF Wait, Unheard, At
  <2>4. ~Collect(q) /\ ~Register(q)
    BY <2>3 DEF Collect, Register, At
  <2> QED BY <2>2, <2>3, <2>4 DEF Early, Unended
<1>10. CASE Leave(q) \/ Finish(q) \/ Release(q)
  <2>1. \E s \in {"fallback", "answer", "release", "unsent", "done", "reject"} :
          \/ Becomes(q, [h EXCEPT !.step = s])
          \/ Becomes(q, [h EXCEPT !.step = s, !.uncertain = FALSE])
    BY <1>10, HandlerMoves
  <2>2. \A s : /\ [h EXCEPT !.step = s].step = s
               /\ [h EXCEPT !.step = s, !.uncertain = FALSE].step = s
    BY <1>1 DEF Handler
  <2>3. handler'[q].step \in {"fallback", "answer", "release", "unsent", "done", "reject"}
    BY <1>2, <2>1, <2>2
  <2>4. /\ UNCHANGED <<pending, history, disk>>
        /\ ~Collect(q) /\ ~Register(q)
    BY <1>10 DEF Leave, Finish, Release, Unheard, Collect, Register, At
  <2> QED BY <2>3, <2>4 DEF Early, Unended
<1> QED BY <1>3, <1>4, <1>5, <1>6, <1>7, <1>8, <1>9, <1>10 DEF HandlerStep

\* What the records ask of a request, given the records.
NotYet(q, step, p, h, dp, dh) ==
  /\ step \in Early => q \notin p /\ q \notin dp
  /\ step \in Unended => ~Mentioned(q, h) /\ ~Mentioned(q, dh)

LEMMA RecordsAre ==
  Records <=>
    /\ Accounted(pending, history) /\ Accounted(disk.pending, disk.history)
    /\ IsFiniteSet(pending) /\ IsFiniteSet(disk.pending)
    /\ \A q \in ApprovalRequests :
         NotYet(q, handler[q].step, pending, history, disk.pending, disk.history)
  BY DEF Records, NotYet, Early, Unended

LEMMA RecordsPreserved ==
  ASSUME BrokerTypes, Records, [ApprovalNext]_allVars
  PROVE  Records'
<1> DEFINE Sound(hn, p, h, d) ==
      /\ Accounted(p, h) /\ Accounted(d.pending, d.history)
      /\ IsFiniteSet(p) /\ IsFiniteSet(d.pending)
      /\ \A q \in ApprovalRequests : NotYet(q, hn[q].step, p, h, d.pending, d.history)
<1>1. Sound(handler, pending, history, disk)
  BY RecordsAre
<1>2. SUFFICES Sound(handler', pending', history', disk')
  BY DEF Records, NotYet, Early, Unended
<1>3. /\ disk \in [pending : SUBSET ApprovalRequests, history : Seq(Settled)]
      /\ history \in Seq(Settled)
  BY DEF BrokerTypes
<1>4. CASE UNCHANGED <<handler, pending, history, disk>>
  BY <1>1, <1>4
<1>5. ASSUME NEW q \in ApprovalRequests, HandlerStep(q) \/ Ask(q) \/ DispatchFails(q)
      PROVE  Sound(handler', pending', history', disk')
  <2>1. \A p \in ApprovalRequests : p # q => handler'[p] = handler[p]
    BY <1>5, OthersUndisturbed DEF Undisturbed
  <2>2. CASE ~Register(q) /\ ~Collect(q)
    <3>1. UNCHANGED <<pending, history, disk>>
      BY <1>5, <2>2, NoWayBack
    <3>2. \A p \in ApprovalRequests :
            /\ handler'[p].step \in Early => handler[p].step \in Early
            /\ handler'[p].step \in Unended => handler[p].step \in Unended
      BY <1>5, <2>1, NoWayBack
    <3> QED BY <1>1, <3>1, <3>2 DEF NotYet
  <2>3. CASE Register(q)
    <3>1. /\ pending' = pending \cup {q} /\ history' = history
          /\ disk' \in {disk, [pending |-> pending', history |-> history']}
      BY <2>3 DEF Register, Saved, SaveFailed
    <3>2. handler[q].step = "register" /\ handler'[q].step \notin Early
      BY <1>5, <2>3, NoWayBack
    <3>3. ~Mentioned(q, history) /\ ~Mentioned(q, disk.history)
      BY <1>1, <3>2 DEF NotYet, Early, Unended
    <3>4. Accounted(pending', history)
      BY <1>1, <3>1, <3>3 DEF Accounted, Mentioned
    <3>5. IsFiniteSet(pending')
      BY <1>1, <3>1, FS_AddElement
    <3>6. ASSUME NEW p \in ApprovalRequests
          PROVE  NotYet(p, handler'[p].step, pending', history, disk'.pending, disk'.history)
      <4>1. CASE p = q
        <5>1. ~Mentioned(p, disk'.history)
          BY <3>1, <3>3, <4>1
        <5> QED BY <3>2, <3>3, <4>1, <5>1 DEF NotYet
      <4>2. CASE p # q
        <5>1. p \in pending' <=> p \in pending
          BY <3>1, <4>2
        <5> QED BY <1>1, <2>1, <3>1, <4>2, <5>1 DEF NotYet
      <4> QED BY <4>1, <4>2
    <3>7. Accounted(disk'.pending, disk'.history) /\ IsFiniteSet(disk'.pending)
      BY <1>1, <3>1, <3>4, <3>5
    <3> QED BY <3>1, <3>4, <3>5, <3>6, <3>7
  <2>4. CASE Collect(q)
    <3>1. /\ pending' = pending \ {q}
          /\ history' = Trimmed(Append(history, Settlement(q)))
          /\ disk' \in {disk, [pending |-> pending', history |-> history']}
      BY <2>4 DEF Collect, Saved, SaveFailed, Settlement
    <3>2. handler[q].step = "collect" /\ handler'[q].step \notin Unended
      BY <1>5, <2>4, NoWayBack
    <3>3. ~Mentioned(q, history)
      BY <1>1, <3>2 DEF NotYet, Unended
    <3>4. Settlement(q) \in Settled /\ Settlement(q).request = q
      BY SettlementType DEF Settlement
    <3>5. /\ Append(history, Settlement(q)) \in Seq(Settled)
          /\ Accounted(pending', Append(history, Settlement(q)))
          /\ \A p : Mentioned(p, Append(history, Settlement(q))) =>
                      p = q \/ Mentioned(p, history)
      BY <1>1, <1>3, <3>1, <3>3, <3>4, AppendAccounted
    <3>6. /\ Accounted(pending', history')
          /\ \A p : Mentioned(p, history') => p = q \/ Mentioned(p, history)
      BY <3>1, <3>5, TrimmedAccounted
    <3>7. IsFiniteSet(pending')
      BY <1>1, <3>1, FS_RemoveElement
    <3>8. ASSUME NEW p \in ApprovalRequests
          PROVE  NotYet(p, handler'[p].step, pending', history', disk'.pending, disk'.history)
      <4>1. CASE p = q
        BY <3>2, <4>1 DEF NotYet, Unended
      <4>2. CASE p # q
        <5>1. p \in pending' <=> p \in pending
          BY <3>1, <4>2
        <5>2. Mentioned(p, history') => Mentioned(p, history)
          BY <3>6, <4>2
        <5> QED BY <1>1, <2>1, <3>1, <4>2, <5>1, <5>2 DEF NotYet
      <4> QED BY <4>1, <4>2
    <3>9. Accounted(disk'.pending, disk'.history) /\ IsFiniteSet(disk'.pending)
      BY <1>1, <3>1, <3>6, <3>7
    <3> QED BY <3>6, <3>7, <3>8, <3>9
  <2> QED BY <2>2, <2>3, <2>4
<1>6. CASE \/ \E r \in Resolvers :
                \/ \E q \in ApprovalRequests, level \in Answers : BeginResolve(r, q, level)
                \/ Decide(r) \/ EndResolve(r)
           \/ LoseStream \/ OwnerStep \/ UNCHANGED allVars
  BY <1>4, <1>6 DEF BeginResolve, Decide, EndResolve, LoseStream, OwnerStep, allVars,
     approvalVars
<1>7. CASE Restart
  <2>1. /\ pending' = {} /\ history' = Loaded(disk).history /\ disk' = disk
    <3>1. Loaded(disk).pending = {}
      BY DEF Loaded
    <3> QED BY <1>7, <3>1 DEF Restart
  <2>2. /\ Accounted({}, Loaded(disk).history)
        /\ \A q : Mentioned(q, Loaded(disk).history) =>
                    q \in disk.pending \/ Mentioned(q, disk.history)
    BY <1>1, <1>3, LoadedAccounted
  <2>3. IsFiniteSet({})
    BY FS_EmptySet
  <2>4. ASSUME NEW p \in ApprovalRequests
        PROVE  NotYet(p, handler'[p].step, pending', history', disk'.pending, disk'.history)
    <3>1. CASE handler[p].step \in {"unasked", "done"}
      <4>1. handler'[p] = handler[p]
        BY <1>7, <3>1 DEF Restart, BrokerTypes
      <4>2. handler[p].step = "unasked" => handler[p].step \in Early \cap Unended
        BY DEF Early, Unended
      <4>3. handler[p].step = "done" => handler[p].step \notin Early \cup Unended
        BY DEF Early, Unended
      <4> QED BY <1>1, <2>1, <2>2, <3>1, <4>1, <4>2, <4>3 DEF NotYet
    <3>2. CASE handler[p].step \notin {"unasked", "done"}
      <4>1. handler'[p] = [handler[p] EXCEPT !.step = "lost"]
        BY <1>7, <3>2 DEF Restart, BrokerTypes
      <4>2. handler'[p].step = "lost"
        BY <4>1 DEF BrokerTypes, Handler
      <4> QED BY <4>2 DEF NotYet, Early, Unended
    <3> QED BY <3>1, <3>2
  <2> QED BY <1>1, <2>1, <2>2, <2>3, <2>4
<1> QED BY <1>5, <1>6, <1>7 DEF ApprovalNext

-----------------------------------------------------------------------------
(* The promise is kept. *)

\* What a step of a handler does to the promise: nothing, or one of its steps.
StageStays(q) == StageOf(q)' = StageOf(q) /\ wire' = wire
AnswerTaken(q) == StageOf(q) = "open" /\ StageOf(q)' = "taken" /\ wire' = wire
AnswerTold(q) ==
  /\ StageOf(q) = "taken" /\ StageOf(q)' \in {"taken", "failed"}
  /\ wire[q] = <<>> /\ wire' = [wire EXCEPT ![q] = <<Standing(q)>>]
RefusalTold(q) ==
  /\ StageOf(q) = "failed" /\ StageOf(q)' = "failed"
  /\ wire' = [wire EXCEPT ![q] = Append(wire[q], Decline)]
PromiseLost(q) == StageOf(q)' = "failed" /\ wire' = wire

\* No caller waits on a request whose answer is taken.
Sealed == \A q \in ApprovalRequests : StageOf(q) = "taken" => q \notin waiting

OpenSteps == {"unasked", "asked", "enter", "register", "wait", "collect"}

LEMMA AskingStage ==
  ASSUME BrokerTypes, NEW q \in ApprovalRequests, StepOK(q),
         Ask(q) \/ Track(q) \/ DispatchFails(q) \/ Enter(q) \/ RegisterForeign(q)
           \/ Register(q) \/ Wait(q)
  PROVE  /\ StageStays(q) \/ AnswerTaken(q) \/ PromiseLost(q)
         /\ waiting' \subseteq waiting \cup {q}
         /\ StageOf(q)' = "taken" => q \notin waiting'
<1> DEFINE h == handler[q]
<1>1. h \in Handler
  BY DEF BrokerTypes
<1>2. wire' = wire /\ h.step \in OpenSteps
  BY DEF Track, Enter, RegisterForeign, Wait, Ask, DispatchFails, Register, At, OpenSteps
<1>3. ~Failed(q) /\ StageOf(q) = "open"
  BY <1>1, <1>2 DEF StepOK, Untouched, Asking, StageOf, Failed, At, OpenSteps
<1>4. ASSUME NEW s \in HandlerSteps \ {"lost"}, Becomes(q, [h EXCEPT !.step = s])
      PROVE  StageOf(q)' = IF s \in OpenSteps THEN "open" ELSE "taken"
  <2> DEFINE k == [h EXCEPT !.step = s]
  <2>1. handler'[q] = k
    BY <1>4, MovesOn
  <2>2. /\ k.step = s /\ k.raised = h.raised
        /\ k.uncertain = h.uncertain /\ k.dispatched = h.dispatched
    BY <1>1 DEF Handler
  <2> HIDE DEF k
  <2> QED BY <1>3, <2>1, <2>2 DEF StageOf, Failed, At, OpenSteps
<1>5. CASE Ask(q) \/ Track(q) \/ Enter(q)
  <2>1. PICK s \in {"asked", "enter", "reject", "register", "fallback"} :
          Becomes(q, [h EXCEPT !.step = s])
    BY <1>5, HandlerMoves
  <2>2. StageOf(q)' \in {"open", "taken"}
    BY <1>4, <2>1 DEF HandlerSteps
  <2>3. waiting' = waiting /\ q \notin waiting
    BY <1>5 DEF Ask, Track, Enter, Unheard, At, StepOK, Untouched
  <2> QED BY <1>2, <1>3, <2>2, <2>3 DEF StageStays, AnswerTaken
<1>6. CASE DispatchFails(q)
  <2> DEFINE k == [h EXCEPT !.step = "unsent", !.dispatched = FALSE]
  <2>1. handler'[q] = k
    BY <1>6, HandlerMoves, MovesOn
  <2>2. ~k.dispatched
    BY <1>1 DEF Handler
  <2> HIDE DEF k
  <2>3. StageOf(q)' = "failed"
    BY <2>1, <2>2 DEF StageOf, Failed
  <2> QED BY <1>2, <1>6, <2>3 DEF PromiseLost, DispatchFails, Unheard
<1>7. CASE RegisterForeign(q)
  <2>1. PICK raised \in BOOLEAN :
          Becomes(q, [h EXCEPT !.step = "leave", !.raised = raised])
    BY <1>7, HandlerMoves
  <2> DEFINE k == [h EXCEPT !.step = "leave", !.raised = raised]
  <2>2. handler'[q] = k
    BY <2>1, MovesOn
  <2>3. /\ k.step = "leave" /\ k.uncertain = h.uncertain /\ k.dispatched = h.dispatched
    BY <1>1 DEF Handler
  <2> HIDE DEF k
  <2>4. StageOf(q)' \in {"taken", "failed"}
    BY <1>3, <2>2, <2>3 DEF StageOf, Failed, At
  <2>5. waiting' = waiting /\ q \notin waiting
    BY <1>7 DEF RegisterForeign, Unheard, At, StepOK, Untouched
  <2> QED BY <1>2, <1>3, <2>4, <2>5 DEF AnswerTaken, PromiseLost
<1>8. CASE Register(q)
  <2>1. waiting' = waiting \cup {q}
    BY <1>8 DEF Register
  <2>2. CASE Becomes(q, [h EXCEPT !.step = "wait"])
    <3>1. StageOf(q)' = "open"
      BY <1>4, <2>2 DEF HandlerSteps, OpenSteps
    <3> QED BY <1>2, <1>3, <2>1, <3>1 DEF StageStays
  <2>3. CASE Becomes(q, [h EXCEPT !.step = "leave", !.raised = TRUE, !.uncertain = TRUE])
    <3> DEFINE k == [h EXCEPT !.step = "leave", !.raised = TRUE, !.uncertain = TRUE]
    <3>1. handler'[q] = k
      BY <2>3, MovesOn
    <3>2. k.raised
      BY <1>1 DEF Handler
    <3> HIDE DEF k
    <3>3. StageOf(q)' = "failed"
      BY <3>1, <3>2 DEF StageOf, Failed
    <3> QED BY <1>2, <2>1, <3>3 DEF PromiseLost
  <2> QED BY <1>8, <2>2, <2>3, HandlerMoves
<1>9. CASE Wait(q)
  <2>1. PICK signaled \in BOOLEAN :
          Becomes(q, [h EXCEPT !.step = "collect", !.signaled = signaled])
    BY <1>9, HandlerMoves
  <2> DEFINE k == [h EXCEPT !.step = "collect", !.signaled = signaled]
  <2>2. handler'[q] = k
    BY <2>1, MovesOn
  <2>3. /\ k.step = "collect" /\ k.raised = h.raised
        /\ k.uncertain = h.uncertain /\ k.dispatched = h.dispatched
    BY <1>1 DEF Handler
  <2> HIDE DEF k
  <2>4. StageOf(q)' = "open"
    BY <1>3, <2>2, <2>3 DEF StageOf, Failed, At
  <2> QED BY <1>2, <1>3, <1>9, <2>4 DEF StageStays, Wait, Unheard
<1> QED BY <1>5, <1>6, <1>7, <1>8, <1>9

LEMMA CollectingStage ==
  ASSUME BrokerTypes, NEW q \in ApprovalRequests, StepOK(q), Collect(q) \/ Leave(q)
  PROVE  /\ StageStays(q) \/ AnswerTaken(q) \/ PromiseLost(q)
         /\ waiting' \subseteq waiting
         /\ StageOf(q)' = "taken" => q \notin waiting'
<1> DEFINE h == handler[q]
<1>1. h \in Handler /\ wire' = wire
  BY DEF BrokerTypes, Collect, Leave, Unheard
<1>2. CASE Collect(q)
  <2>1. h.step = "collect" /\ waiting' = waiting \ {q}
    BY <1>2 DEF Collect, At
  <2>2. ~Failed(q) /\ StageOf(q) = "open"
    BY <2>1 DEF StepOK, Asking, StageOf, Failed, At
  <2>3. CASE Becomes(q, [h EXCEPT !.step = "leave", !.answer = Result(q)])
    <3> DEFINE k == [h EXCEPT !.step = "leave", !.answer = Result(q)]
    <3>1. handler'[q] = k
      BY <2>3, MovesOn
    <3>2. /\ k.step = "leave" /\ k.raised = h.raised
          /\ k.uncertain = h.uncertain /\ k.dispatched = h.dispatched
      BY <1>1 DEF Handler
    <3> HIDE DEF k
    <3>3. StageOf(q)' = "taken"
      BY <2>2, <3>1, <3>2 DEF StageOf, Failed, At
    <3> QED BY <1>1, <2>1, <2>2, <3>3 DEF AnswerTaken
  <2>4. CASE Becomes(q, [h EXCEPT !.step = "leave", !.raised = TRUE, !.uncertain = TRUE])
    <3> DEFINE k == [h EXCEPT !.step = "leave", !.raised = TRUE, !.uncertain = TRUE]
    <3>1. handler'[q] = k
      BY <2>4, MovesOn
    <3>2. k.raised
      BY <1>1 DEF Handler
    <3> HIDE DEF k
    <3>3. StageOf(q)' = "failed"
      BY <3>1, <3>2 DEF StageOf, Failed
    <3> QED BY <1>1, <2>1, <3>3 DEF PromiseLost
  <2> QED BY <1>2, <2>3, <2>4, HandlerMoves
<1>3. CASE Leave(q)
  <2>1. h.step = "leave" /\ waiting' = waiting
    BY <1>3 DEF Leave, At, Unheard
  <2>2. ~h.raised => ~h.uncertain /\ q \notin waiting
    BY <2>1 DEF StepOK
  <2>3. h.dispatched
    BY <2>1 DEF StepOK
  <2> DEFINE s == IF h.raised THEN "fallback" ELSE "answer"
             k == [h EXCEPT !.step = s, !.uncertain = FALSE]
  <2>4. handler'[q] = k
    BY <1>3, HandlerMoves, MovesOn
  <2>5. /\ k.step = s /\ k.raised = h.raised /\ ~k.uncertain
        /\ k.dispatched = h.dispatched
    BY <1>1 DEF Handler
  <2> HIDE DEF k
  <2>6. CASE h.raised
    <3>1. StageOf(q) = "failed" /\ StageOf(q)' = "failed"
      BY <2>4, <2>5, <2>6 DEF StageOf, Failed
    <3> QED BY <1>1, <2>1, <3>1 DEF PromiseLost
  <2>7. CASE ~h.raised
    <3>1. StageOf(q) = "taken"
      BY <2>1, <2>2, <2>3, <2>7 DEF StageOf, Failed, At
    <3>2. StageOf(q)' = "taken"
      BY <2>3, <2>4, <2>5, <2>7 DEF StageOf, Failed, At
    <3> QED BY <1>1, <2>1, <2>2, <2>7, <3>1, <3>2 DEF StageStays
  <2> QED BY <2>6, <2>7
<1> QED BY <1>2, <1>3

LEMMA AnsweringStage ==
  ASSUME BrokerTypes, NEW q \in ApprovalRequests, StepOK(q),
         Reject(q) \/ Answer(q) \/ Fallback(q)
  PROVE  /\ waiting' = waiting
         /\ StageOf(q)' = "taken" => StageOf(q) = "taken"
         /\ StageStays(q) \/ AnswerTold(q) \/ RefusalTold(q) \/ PromiseLost(q)
<1> DEFINE h == handler[q]
<1>1. /\ h \in Handler /\ Decline \in Answers /\ h.answer \in Answers
      /\ wire[q] \in Seq(Answers)
  BY DEF BrokerTypes, Handler, Answers
<1>2. UNCHANGED <<granted, waiting>>
  BY DEF Reject, Answer, Fallback, Unheard
<1>3. PICK answer \in Answers, sent \in HandlerSteps, lost \in HandlerSteps :
        /\ Put(q, answer, sent, lost)
        /\ \/ h.step = "reject" /\ answer = Decline /\ sent = "done" /\ lost = "done"
           \/ h.step = "answer" /\ answer = h.answer /\ sent = "finish" /\ lost = "fallback"
           \/ h.step = "fallback" /\ answer = Decline /\ sent = "finish" /\ lost = "finish"
  BY <1>1 DEF Reject, Answer, Fallback, HandlerSteps, At
<1>4. \/ Becomes(q, [h EXCEPT !.step = sent, !.sent = TRUE])
         /\ wire' = [wire EXCEPT ![q] = Append(wire[q], answer)]
      \/ Becomes(q, [h EXCEPT !.step = lost, !.uncertain = h.uncertain \/ h.step = "answer"])
         /\ wire' \in {wire, [wire EXCEPT ![q] = Append(wire[q], answer)]}
  BY <1>3, PutMoves
<1>5. /\ handler'[q].step \in {"done", "finish", "fallback"}
      /\ handler'[q].raised = h.raised /\ handler'[q].dispatched = h.dispatched
      /\ \/ handler'[q].uncertain = h.uncertain
            /\ wire' = [wire EXCEPT ![q] = Append(wire[q], answer)]
         \/ handler'[q].uncertain = (h.uncertain \/ h.step = "answer")
            /\ wire' \in {wire, [wire EXCEPT ![q] = Append(wire[q], answer)]}
  <2> DEFINE k == [h EXCEPT !.step = sent, !.sent = TRUE]
             u == h.uncertain \/ h.step = "answer"
             l == [h EXCEPT !.step = lost, !.uncertain = u]
  <2>1. /\ k.step = sent /\ k.raised = h.raised /\ k.dispatched = h.dispatched
        /\ k.uncertain = h.uncertain
        /\ l.step = lost /\ l.raised = h.raised /\ l.dispatched = h.dispatched
        /\ l.uncertain = u
    BY <1>1 DEF Handler
  <2>2. \/ handler'[q] = k /\ wire' = [wire EXCEPT ![q] = Append(wire[q], answer)]
        \/ handler'[q] = l
           /\ wire' \in {wire, [wire EXCEPT ![q] = Append(wire[q], answer)]}
    BY <1>4, MovesOn
  <2>3. sent \in {"done", "finish"} /\ lost \in {"done", "finish", "fallback"}
    BY <1>3
  <2> HIDE DEF k, l, u
  <2>4. CASE handler'[q] = k /\ wire' = [wire EXCEPT ![q] = Append(wire[q], answer)]
    BY <2>1, <2>3, <2>4
  <2>5. CASE handler'[q] = l
             /\ wire' \in {wire, [wire EXCEPT ![q] = Append(wire[q], answer)]}
    BY <2>1, <2>3, <2>5 DEF u
  <2> QED BY <2>2, <2>4, <2>5
<1>6. h.step \in {"reject", "answer", "fallback"}
  BY <1>3
<1>7. wire = [wire EXCEPT ![q] = wire[q]]
  BY DEF BrokerTypes
<1>8. CASE Failed(q)
  <2>1. StageOf(q) = "failed" /\ answer = Decline
    BY <1>3, <1>8 DEF StageOf, Failed, StepOK, At
  <2>2. StageOf(q)' = "failed"
    BY <1>5, <1>6, <1>8 DEF StageOf, Failed, At
  <2> QED BY <1>2, <1>5, <2>1, <2>2 DEF RefusalTold, PromiseLost
<1>9. CASE ~Failed(q)
  <2>1. StageOf(q) = "taken"
    BY <1>6, <1>9 DEF StageOf, At
  <2>2. wire[q] = <<>> /\ answer = Standing(q)
    BY <1>3, <1>9 DEF Failed, StepOK, Untouched, Standing
  <2>3. Append(wire[q], answer) = <<Standing(q)>>
    BY <1>1, <2>2, Appended
  <2>4. StageOf(q)' \in {"taken", "failed"}
    BY <1>5 DEF StageOf, At
  <2>5. wire' = wire \/ wire' = [wire EXCEPT ![q] = <<Standing(q)>>]
    BY <1>5, <2>3
  <2> QED BY <1>2, <2>1, <2>2, <2>4, <2>5 DEF StageStays, AnswerTold, PromiseLost
<1> QED BY <1>8, <1>9

LEMMA ReportingStage ==
  ASSUME BrokerTypes, NEW q \in ApprovalRequests, StepOK(q),
         Finish(q) \/ Unsent(q) \/ Release(q)
  PROVE  /\ StageStays(q) \/ PromiseLost(q)
         /\ waiting' = waiting
         /\ StageOf(q)' = "taken" => StageOf(q) = "taken"
<1> DEFINE h == handler[q]
<1>1. h \in Handler /\ wire' = wire /\ waiting' = waiting
  BY DEF BrokerTypes, Finish, Unsent, Release, Unheard
<1>2. h.step \in {"finish", "unsent", "release"}
  BY DEF Finish, Unsent, Release, At
<1>3. CASE Finish(q) \/ Release(q)
  <2>1. PICK s \in {"release", "unsent", "done", "reject"} :
          Becomes(q, [h EXCEPT !.step = s])
    BY <1>3, HandlerMoves
  <2> DEFINE k == [h EXCEPT !.step = s]
  <2>2. handler'[q] = k
    BY <2>1, MovesOn
  <2>3. /\ k.step = s /\ k.raised = h.raised /\ k.uncertain = h.uncertain
        /\ k.dispatched = h.dispatched
    BY <1>1 DEF Handler
  <2> HIDE DEF k
  <2>4. StageOf(q)' = StageOf(q)
    BY <1>2, <2>2, <2>3 DEF StageOf, Failed, At
  <2> QED BY <1>1, <2>4 DEF StageStays
<1>4. CASE Unsent(q)
  <2> DEFINE k == [h EXCEPT !.step = "release", !.uncertain = TRUE]
  <2>1. handler'[q] = k
    BY <1>4, HandlerMoves, MovesOn
  <2>2. k.uncertain
    BY <1>1 DEF Handler
  <2> HIDE DEF k
  <2>3. StageOf(q)' = "failed"
    BY <2>1, <2>2 DEF StageOf, Failed
  <2> QED BY <1>1, <2>3 DEF PromiseLost
<1> QED BY <1>3, <1>4

\* What a step of a handler does to the promise, whichever step it is.
LEMMA HandlerStage ==
  ASSUME BrokerTypes, BrokerInv, Sealed, NEW q \in ApprovalRequests,
         HandlerStep(q) \/ Ask(q) \/ DispatchFails(q)
  PROVE  /\ \/ StageStays(q) \/ AnswerTaken(q) \/ AnswerTold(q) \/ RefusalTold(q)
            \/ PromiseLost(q)
         /\ \A p \in ApprovalRequests : p # q => StageOf(p)' = StageOf(p)
         /\ \A p \in ApprovalRequests : Standing(p)' = Standing(p)
         /\ Sealed'
<1>1. StepOK(q)
  BY DEF BrokerInv
<1>2. \A p \in ApprovalRequests : p # q => Undisturbed(p)
  BY OthersUndisturbed
<1>3. \A p \in ApprovalRequests : p # q => StageOf(p)' = StageOf(p)
  BY <1>2 DEF Undisturbed, StageOf, Failed, At
<1>4. \A p \in ApprovalRequests : Standing(p)' = Standing(p)
  BY OthersUndisturbed DEF Standing, Narrowed, Allowed
<1>5. /\ \/ StageStays(q) \/ AnswerTaken(q) \/ AnswerTold(q) \/ RefusalTold(q)
         \/ PromiseLost(q)
      /\ StageOf(q)' = "taken" => q \notin waiting'
  <2>1. StageOf(q) = "taken" => q \notin waiting
    BY DEF Sealed
  <2>2. CASE Reject(q) \/ Answer(q) \/ Fallback(q)
    BY <1>1, <2>1, <2>2, AnsweringStage
  <2>3. CASE Finish(q) \/ Unsent(q) \/ Release(q)
    BY <1>1, <2>1, <2>3, ReportingStage
  <2>4. CASE Collect(q) \/ Leave(q)
    BY <1>1, <2>4, CollectingStage
  <2>5. CASE Ask(q) \/ Track(q) \/ DispatchFails(q) \/ Enter(q) \/ RegisterForeign(q)
               \/ Register(q) \/ Wait(q)
    BY <1>1, <2>5, AskingStage
  <2> QED BY <2>2, <2>3, <2>4, <2>5 DEF HandlerStep
<1>6. Sealed'
  <2> SUFFICES ASSUME NEW p \in ApprovalRequests, StageOf(p)' = "taken"
               PROVE  p \notin waiting'
    BY DEF Sealed
  <2>1. CASE p = q
    BY <1>5, <2>1
  <2>2. CASE p # q
    BY <1>2, <1>3, <2>2 DEF Sealed, Undisturbed
  <2> QED BY <2>1, <2>2
<1> QED BY <1>3, <1>4, <1>5, <1>6

\* A step that moves neither stages, rulings nor the wire.
LEMMA PromiseUnmoved ==
  ASSUME wire' = wire,
         \A q \in ApprovalRequests : StageOf(q)' = StageOf(q) /\ Standing(q)' = Standing(q)
  PROVE  UNCHANGED Promise!promiseVars
<1>1. [q \in ApprovalRequests |-> StageOf(q)]' = [q \in ApprovalRequests |-> StageOf(q)]
  OBVIOUS
<1>2. [q \in ApprovalRequests |-> Standing(q)]' = [q \in ApprovalRequests |-> Standing(q)]
  OBVIOUS
<1> QED BY <1>1, <1>2 DEF Promise!promiseVars

\* A step of a handler is a step of the promise.
LEMMA HandlerPromise ==
  ASSUME BrokerTypes, BrokerInv, Sealed, NEW q \in ApprovalRequests,
         HandlerStep(q) \/ Ask(q) \/ DispatchFails(q)
  PROVE  [Promise!Next]_(Promise!promiseVars)
<1> DEFINE stages == [p \in ApprovalRequests |-> StageOf(p)]
<1>1. \A p \in ApprovalRequests : p # q => StageOf(p)' = StageOf(p)
  BY HandlerStage
<1>2. \A p \in ApprovalRequests : Standing(p)' = Standing(p)
  BY HandlerStage
<1>3. [p \in ApprovalRequests |-> Standing(p)]' = [p \in ApprovalRequests |-> Standing(p)]
  BY <1>2
<1>4. ASSUME NEW s, StageOf(q)' = s
      PROVE  stages' = [stages EXCEPT ![q] = s]
  BY <1>1, <1>4
<1>5. stages[q] = StageOf(q) /\ [p \in ApprovalRequests |-> Standing(p)][q] = Standing(q)
  OBVIOUS
<1>6. CASE StageStays(q)
  BY <1>1, <1>2, <1>6, PromiseUnmoved DEF StageStays
<1>7. CASE AnswerTaken(q)
  <2>1. Promise!Take(q)
    BY <1>3, <1>4, <1>5, <1>7 DEF AnswerTaken, Promise!Take
  <2> QED BY <2>1 DEF Promise!Next
<1>8. CASE AnswerTold(q)
  <2>1. stages' \in {stages, [stages EXCEPT ![q] = "failed"]}
    <3>1. stages = [stages EXCEPT ![q] = StageOf(q)]
      OBVIOUS
    <3> QED BY <1>4, <1>8, <3>1 DEF AnswerTold
  <2>2. Promise!Tell(q)
    BY <1>3, <1>5, <1>8, <2>1 DEF AnswerTold, Promise!Tell
  <2> QED BY <2>2 DEF Promise!Next
<1>9. CASE RefusalTold(q)
  <2>1. stages' = stages
    BY <1>1, <1>9 DEF RefusalTold
  <2>2. Promise!Refuse(q)
    BY <1>3, <1>5, <1>9, <2>1 DEF RefusalTold, Promise!Refuse
  <2> QED BY <2>2 DEF Promise!Next
<1>10. CASE PromiseLost(q)
  <2>1. stages' = [p \in ApprovalRequests |-> IF p \in {q} THEN "failed" ELSE stages[p]]
    BY <1>1, <1>10 DEF PromiseLost
  <2>2. Promise!Fail({q})
    BY <1>3, <1>10, <2>1 DEF PromiseLost, Promise!Fail
  <2> QED BY <2>2 DEF Promise!Next
<1> QED BY <1>6, <1>7, <1>8, <1>9, <1>10, HandlerStage

\* A call of resolve_approval that is acknowledged rules.
LEMMA DecidePromise ==
  ASSUME BrokerTypes, Sealed, NEW r \in Resolvers, Decide(r)
  PROVE  [Promise!Next]_(Promise!promiseVars)
<1>1. handler' = handler /\ wire' = wire
  BY DEF Decide
<1>2. \A p \in ApprovalRequests : StageOf(p)' = StageOf(p)
  BY <1>1 DEF StageOf, Failed, At
<1>3. resolution[r].level \in Answers
  BY DEF BrokerTypes, Resolutions
<1>4. ASSUME NEW q \in ApprovalRequests, NEW level \in Answers, Resolvable(q, level),
             q = resolution[r].request, level = resolution[r].level
      PROVE  [Promise!Next]_(Promise!promiseVars)
  <2>1. q \in waiting
    BY <1>4 DEF Resolvable
  <2>2. granted' = [granted EXCEPT ![q] = Append(granted[q], level)]
    BY <1>4 DEF Decide
  <2>3. StageOf(q) # "taken"
    BY <2>1 DEF Sealed
  <2>4. granted[q] \in Seq(Answers) /\ Len(granted[q]) \in Nat
    BY <2>1 DEF BrokerTypes
  <2>5. granted'[q] = Append(granted[q], level)
    BY <2>1, <2>2 DEF BrokerTypes
  <2>6. /\ Len(granted'[q]) = Len(granted[q]) + 1 /\ granted'[q] # <<>>
        /\ \A i \in 1 .. Len(granted'[q]) :
             granted'[q][i] = IF i <= Len(granted[q]) THEN granted[q][i] ELSE level
    BY <2>4, <2>5, Appended, AppendProperties
  <2>7. Last(granted'[q]) = level
    BY <2>4, <2>6 DEF Last
  <2>8. Standing(q)' = Narrowed(q, level)
    BY <2>6, <2>7 DEF Standing, Narrowed, Allowed, Last
  <2>9. \A p \in ApprovalRequests : p # q => Standing(p)' = Standing(p)
    BY <2>2 DEF Standing, Narrowed, Allowed, BrokerTypes
  <2> DEFINE rulings == [p \in ApprovalRequests |-> Standing(p)]
  <2>10. rulings' = [rulings EXCEPT ![q] = Narrowed(q, level)]
    BY <2>1, <2>8, <2>9
  <2>11. [p \in ApprovalRequests |-> StageOf(p)]' = [p \in ApprovalRequests |-> StageOf(p)]
    BY <1>2
  <2>12. [p \in ApprovalRequests |-> StageOf(p)][q] # "taken"
    BY <2>1, <2>3
  <2>13. Promise!Rule(q, Narrowed(q, level))
    BY <1>1, <2>10, <2>11, <2>12 DEF Promise!Rule
  <2>14. Narrowed(q, level) \in Answers
    BY NarrowedFacts
  <2> QED BY <2>1, <2>13, <2>14 DEF Promise!Next
<1>5. CASE ~Resolvable(resolution[r].request, resolution[r].level)
  <2>1. granted' = granted
    BY <1>5 DEF Decide
  <2>2. \A p \in ApprovalRequests : Standing(p)' = Standing(p)
    BY <2>1 DEF Standing, Narrowed, Allowed
  <2> QED BY <1>1, <1>2, <2>2, PromiseUnmoved
<1>6. Resolvable(resolution[r].request, resolution[r].level) =>
        resolution[r].request \in ApprovalRequests
  BY DEF Resolvable, BrokerTypes
<1> QED BY <1>3, <1>4, <1>5, <1>6

\* The end of the process fails every request it had begun and not ended.
LEMMA RestartPromise ==
  ASSUME BrokerTypes, Restart
  PROVE  [Promise!Next]_(Promise!promiseVars)
<1> DEFINE begun == {q \in ApprovalRequests : handler[q].step \notin {"unasked", "done"}}
           stages == [p \in ApprovalRequests |-> StageOf(p)]
<1>1. wire' = wire /\ granted' = granted
  BY DEF Restart
<1>2. [p \in ApprovalRequests |-> Standing(p)]' = [p \in ApprovalRequests |-> Standing(p)]
  BY <1>1 DEF Standing, Narrowed, Allowed
<1>3. ASSUME NEW p \in ApprovalRequests
      PROVE  StageOf(p)' = IF p \in begun THEN "failed" ELSE StageOf(p)
  <2>1. CASE p \in begun
    <3>1. handler'[p] = [handler[p] EXCEPT !.step = "lost"]
      BY <2>1 DEF Restart, BrokerTypes
    <3>2. handler'[p].step = "lost"
      BY <3>1 DEF BrokerTypes, Handler
    <3> QED BY <2>1, <3>2 DEF StageOf, Failed, At
  <2>2. CASE p \notin begun
    <3>1. handler'[p] = handler[p]
      BY <2>2 DEF Restart, BrokerTypes
    <3> QED BY <2>2, <3>1 DEF StageOf, Failed, At
  <2> QED BY <2>1, <2>2
<1> HIDE DEF begun
<1>4. stages' = [p \in ApprovalRequests |-> IF p \in begun THEN "failed" ELSE stages[p]]
  BY <1>3
<1>5. Promise!Fail(begun)
  BY <1>1, <1>2, <1>4 DEF Promise!Fail
<1>6. begun \in SUBSET ApprovalRequests
  BY DEF begun
<1> QED BY <1>5, <1>6 DEF Promise!Next

LEMMA PromiseSteps ==
  ASSUME BrokerTypes, BrokerInv, Sealed, [ApprovalNext]_allVars
  PROVE  [Promise!Next]_(Promise!promiseVars) /\ Sealed'
<1>1. CASE \E q \in ApprovalRequests : Ask(q) \/ DispatchFails(q) \/ HandlerStep(q)
  BY <1>1, HandlerStage, HandlerPromise
<1>2. ASSUME NEW r \in Resolvers, Decide(r)
      PROVE  [Promise!Next]_(Promise!promiseVars) /\ Sealed'
  <2>1. \A q \in ApprovalRequests : StageOf(q)' = StageOf(q)
    BY <1>2 DEF Decide, StageOf, Failed, At
  <2>2. Sealed'
    BY <1>2, <2>1 DEF Decide, Sealed
  <2> QED BY <1>2, <2>2, DecidePromise
<1>3. CASE \/ \E r \in Resolvers :
                \/ \E q \in ApprovalRequests, level \in Answers : BeginResolve(r, q, level)
                \/ EndResolve(r)
           \/ LoseStream \/ OwnerStep \/ UNCHANGED allVars
  <2>1. UNCHANGED <<handler, wire, granted, waiting>>
    BY <1>3 DEF BeginResolve, EndResolve, LoseStream, OwnerStep, allVars, approvalVars
  <2>2. \A q \in ApprovalRequests : StageOf(q)' = StageOf(q) /\ Standing(q)' = Standing(q)
    BY <2>1 DEF StageOf, Failed, At, Standing, Narrowed, Allowed
  <2>3. Sealed'
    BY <2>1, <2>2 DEF Sealed
  <2> QED BY <2>1, <2>2, <2>3, PromiseUnmoved
<1>4. CASE Restart
  <2>1. Sealed'
    BY <1>4 DEF Restart, Sealed
  <2> QED BY <1>4, <2>1, RestartPromise
<1> QED BY <1>1, <1>2, <1>3, <1>4 DEF ApprovalNext

-----------------------------------------------------------------------------
(* The theorems of the broker. *)

BrokerSound == Ledger /\ Lease /\ BrokerTypes /\ BrokerInv /\ Records

LEMMA BrokerInitially == ApprovalInit => BrokerSound
<1> SUFFICES ASSUME ApprovalInit PROVE BrokerSound
  OBVIOUS
<1>1. Ledger /\ Lease
  <2>1. Init
    BY DEF ApprovalInit
  <2>2. Lease
    BY <2>1 DEF Init, Lease, LeaseExcludesWork, LeaseIsCurrent
  <2> QED BY <2>1, <2>2, LedgerInitially
<1>2. Unasked \in Handler /\ NoResolution \in Resolutions
  BY DEF Unasked, Handler, HandlerSteps, Answers, NoResolution, Resolutions
<1>3. BrokerTypes
  BY <1>2, ApprovalAssumption DEF ApprovalInit, BrokerTypes
<1>4. BrokerInv
  <2>1. ASSUME NEW q \in ApprovalRequests
        PROVE  /\ handler[q] = Unasked /\ wire[q] = <<>> /\ granted[q] = <<>>
               /\ results[q] = None /\ q \notin waiting
    BY DEF ApprovalInit
  <2>2. \A q \in ApprovalRequests : StepOK(q)
    BY <2>1 DEF StepOK, Untouched, Unasked
  <2>3. \A q \in ApprovalRequests : Admitted(q) /\ GrantOK(q)
    BY <2>1 DEF Admitted, GrantOK, Backed, Unasked
  <2> QED BY <2>2, <2>3 DEF BrokerInv
<1>5. Records
  BY FS_EmptySet DEF ApprovalInit, Records, Accounted, Mentioned
<1> QED BY <1>1, <1>3, <1>4, <1>5 DEF BrokerSound

LEMMA BrokerAlways == ApprovalSpec => []BrokerSound
<1>1. BrokerSound /\ [ApprovalNext]_allVars => BrokerSound'
  <2> SUFFICES ASSUME BrokerSound, [ApprovalNext]_allVars PROVE BrokerSound'
    OBVIOUS
  <2>1. Ledger /\ Lease /\ BrokerTypes /\ BrokerInv /\ Records
    BY DEF BrokerSound
  <2>2. Ledger' /\ Lease'
    BY <2>1, BrokerLedgerPreserved
  <2>3. BrokerTypes'
    BY <2>1, BrokerTypesPreserved DEF Records
  <2>4. BrokerInv' /\ Records'
    BY <2>1, BrokerInvPreserved, RecordsPreserved
  <2> QED BY <2>2, <2>3, <2>4 DEF BrokerSound
<1> QED BY BrokerInitially, <1>1, PTL DEF ApprovalSpec

\* The broker's types, those of its ledger included.
THEOREM BrokerTypeCorrect == ApprovalSpec => []ApprovalTypeOK
<1>1. BrokerSound => ApprovalTypeOK
  BY DEF BrokerSound, Ledger, BrokerTypes, ApprovalTypeOK
<1> QED BY <1>1, BrokerAlways, PTL

\* Whatever times out, is answered twice, fails to be saved or is lost on its way: the
\* worker reads no more than people granted, an answer without an error is their last
\* word, and a request without exactly one answer is in the ledger.
THEOREM WorkerHearsPeople == ApprovalSpec => []AnswersFaithful
<1>1. ASSUME BrokerSound PROVE AnswersFaithful
  <2>1. GrantsAreGiven
    BY <1>1 DEF BrokerSound, BrokerInv, GrantOK, Backed, GrantsAreGiven
  <2>2. LastWordIsSent
    <3>1. ASSUME NEW q \in ApprovalRequests, At(q, "done"), handler[q].dispatched,
                 Delivered(q), ~handler[q].raised
          PROVE  wire[q] = <<Standing(q)>>
      BY <1>1, <3>1 DEF BrokerSound, BrokerInv, StepOK, AnsweredOnce, At
    <3> QED BY <3>1 DEF LastWordIsSent, Standing
  <2>3. DoubtIsRecorded
    BY <1>1 DEF BrokerSound, BrokerInv, StepOK, Doubted, At, DoubtIsRecorded
  <2> QED BY <2>1, <2>2, <2>3 DEF AnswersFaithful
<1> QED BY <1>1, BrokerAlways, PTL

\* A restart at any point settles a request once, and a maintenance lease on a ledger
\* without a reason means that no answer is owed.
THEOREM RestartsAccounted == ApprovalSpec => []RecoverySound
<1>1. ASSUME BrokerSound PROVE RecoverySound
  <2>1. SettledOnce
    BY <1>1 DEF BrokerSound, Records, Accounted, SettledOnce
  <2>2. ASSUME lease # NoLease, unknown = {}, NEW q \in ApprovalRequests
        PROVE  /\ handler[q].step \in {"unasked", "asked", "done"}
               /\ At(q, "done") => Len(wire[q]) = 1
    <3>1. operations[ReplyToken(q)] = None
      <4>1. ActiveOperations = {}
        BY <1>1, <2>2 DEF BrokerSound, Lease, LeaseExcludesWork
      <4> QED BY <4>1, TokensOK DEF ActiveOperations
    <3>2. handler[q].step \in {"unasked", "asked", "reject", "done", "lost"}
      BY <1>1, <3>1 DEF BrokerSound, BrokerInv, Admitted
    <3>3. ~Doubted /\ StepOK(q)
      BY <1>1, <2>2 DEF Doubted, BrokerSound, BrokerInv
    <3> QED BY <3>2, <3>3 DEF StepOK, At
  <2>3. MaintenanceMeansAnswered
    BY <2>2 DEF MaintenanceMeansAnswered
  <2> QED BY <2>1, <2>3 DEF RecoverySound
<1> QED BY <1>1, BrokerAlways, PTL

\* The broker keeps the promise that approvals make: people rule until the answer is
\* taken, the worker hears the last ruling, first and once, and after a failure refusals.
THEOREM PromiseImplemented == ApprovalSpec => ImplementsPromise
<1>1. ApprovalInit => Promise!Init /\ Sealed
  <2> SUFFICES ASSUME ApprovalInit PROVE Promise!Init /\ Sealed
    OBVIOUS
  <2>1. \A q \in ApprovalRequests : handler[q] = Unasked /\ granted[q] = <<>>
    BY DEF ApprovalInit
  <2>2. \A q \in ApprovalRequests : StageOf(q) = "open" /\ Standing(q) = Decline
    BY <2>1 DEF StageOf, Failed, At, Unasked, Standing
  <2>3. wire = [q \in ApprovalRequests |-> <<>>] /\ waiting = {}
    BY DEF ApprovalInit
  <2> QED BY <2>2, <2>3 DEF Promise!Init, Sealed
<1>2. BrokerSound /\ Sealed /\ [ApprovalNext]_allVars =>
        [Promise!Next]_(Promise!promiseVars) /\ Sealed'
  BY PromiseSteps DEF BrokerSound
<1> QED
  BY <1>1, <1>2, BrokerAlways, PTL DEF ApprovalSpec, ImplementsPromise, Promise!Spec

\* What the promise comes to, for whoever keeps it: as long as nothing failed the worker
\* has heard nothing or the ruling that stands, and after its first answer it hears refusals.
HeardOnce ==
  \A q \in ApprovalRequests :
    /\ StageOf(q) = "open" => wire[q] = <<>>
    /\ StageOf(q) = "taken" => wire[q] \in {<<>>, <<Standing(q)>>}
    /\ \A i \in 1 .. Len(wire[q]) : i = 1 \/ wire[q][i] = Decline

HeardTypes ==
  /\ wire \in [ApprovalRequests -> Seq(Answers)]
  /\ \A q \in ApprovalRequests : Standing(q) \in Answers

\* A step of the promise, request by request.
LEMMA PromisePointwise ==
  ASSUME HeardTypes, [Promise!Next]_(Promise!promiseVars), NEW q \in ApprovalRequests
  PROVE  \/ StageOf(q)' = StageOf(q) /\ Standing(q)' = Standing(q) /\ wire'[q] = wire[q]
         \/ /\ StageOf(q) # "taken" /\ StageOf(q)' = StageOf(q) /\ wire'[q] = wire[q]
            /\ Standing(q)' \in Answers
         \/ /\ StageOf(q) = "open" /\ StageOf(q)' = "taken"
            /\ Standing(q)' = Standing(q) /\ wire'[q] = wire[q]
         \/ /\ wire[q] = <<>> /\ wire'[q] = <<Standing(q)>> /\ Standing(q)' = Standing(q)
            /\ StageOf(q) = "taken" /\ StageOf(q)' \in {"taken", "failed"}
         \/ /\ StageOf(q)' = "failed" /\ Standing(q)' = Standing(q)
            /\ wire'[q] \in {wire[q], Append(wire[q], Decline)}
            /\ wire'[q] # wire[q] => StageOf(q) = "failed"
<1> DEFINE stages == [p \in ApprovalRequests |-> StageOf(p)]
           rulings == [p \in ApprovalRequests |-> Standing(p)]
<1>1. /\ stages[q] = StageOf(q) /\ rulings[q] = Standing(q)
      /\ stages'[q] = StageOf(q)' /\ rulings'[q] = Standing(q)'
      /\ DOMAIN stages = ApprovalRequests /\ DOMAIN rulings = ApprovalRequests
      /\ DOMAIN wire = ApprovalRequests
  BY DEF HeardTypes
<1>2. CASE UNCHANGED Promise!promiseVars
  <2>1. stages' = stages /\ rulings' = rulings /\ wire' = wire
    BY <1>2 DEF Promise!promiseVars
  <2> QED BY <1>1, <2>1
<1>3. ASSUME NEW p \in ApprovalRequests, NEW level \in Answers, Promise!Rule(p, level)
      PROVE  \/ StageOf(q)' = StageOf(q) /\ Standing(q)' = Standing(q) /\ wire'[q] = wire[q]
             \/ /\ StageOf(q) # "taken" /\ StageOf(q)' = StageOf(q) /\ wire'[q] = wire[q]
                /\ Standing(q)' \in Answers
  <2>1. /\ stages[p] # "taken" /\ rulings' = [rulings EXCEPT ![p] = level]
        /\ stages' = stages /\ wire' = wire
    BY <1>3 DEF Promise!Rule
  <2> HIDE DEF stages, rulings
  <2> QED BY <1>1, <2>1
<1>4. ASSUME NEW p \in ApprovalRequests, Promise!Take(p)
      PROVE  \/ StageOf(q)' = StageOf(q) /\ Standing(q)' = Standing(q) /\ wire'[q] = wire[q]
             \/ /\ StageOf(q) = "open" /\ StageOf(q)' = "taken"
                /\ Standing(q)' = Standing(q) /\ wire'[q] = wire[q]
  <2>1. /\ stages[p] = "open" /\ stages' = [stages EXCEPT ![p] = "taken"]
        /\ rulings' = rulings /\ wire' = wire
    BY <1>4 DEF Promise!Take
  <2> HIDE DEF stages, rulings
  <2> QED BY <1>1, <2>1
<1>5. ASSUME NEW p \in ApprovalRequests, Promise!Tell(p)
      PROVE  \/ StageOf(q)' = StageOf(q) /\ Standing(q)' = Standing(q) /\ wire'[q] = wire[q]
             \/ /\ wire[q] = <<>> /\ wire'[q] = <<Standing(q)>>
                /\ Standing(q)' = Standing(q)
                /\ StageOf(q) = "taken" /\ StageOf(q)' \in {"taken", "failed"}
  <2>1. /\ stages[p] = "taken" /\ wire[p] = <<>>
        /\ wire' = [wire EXCEPT ![p] = <<rulings[p]>>]
        /\ stages' \in {stages, [stages EXCEPT ![p] = "failed"]} /\ rulings' = rulings
    BY <1>5 DEF Promise!Tell
  <2> HIDE DEF stages, rulings
  <2> QED BY <1>1, <2>1
<1>6. ASSUME NEW p \in ApprovalRequests, Promise!Refuse(p)
      PROVE  \/ StageOf(q)' = StageOf(q) /\ Standing(q)' = Standing(q) /\ wire'[q] = wire[q]
             \/ /\ StageOf(q)' = "failed" /\ Standing(q)' = Standing(q)
                /\ wire'[q] = Append(wire[q], Decline) /\ StageOf(q) = "failed"
  <2>1. /\ stages[p] = "failed" /\ wire' = [wire EXCEPT ![p] = Append(wire[p], Decline)]
        /\ stages' = stages /\ rulings' = rulings
    BY <1>6 DEF Promise!Refuse
  <2> HIDE DEF stages, rulings
  <2> QED BY <1>1, <2>1
<1>7. ASSUME NEW S \in SUBSET ApprovalRequests, Promise!Fail(S)
      PROVE  \/ StageOf(q)' = StageOf(q) /\ Standing(q)' = Standing(q) /\ wire'[q] = wire[q]
             \/ /\ StageOf(q)' = "failed" /\ Standing(q)' = Standing(q)
                /\ wire'[q] = wire[q]
  <2>1. /\ stages' = [p \in ApprovalRequests |-> IF p \in S THEN "failed" ELSE stages[p]]
        /\ rulings' = rulings /\ wire' = wire
    BY <1>7 DEF Promise!Fail
  <2> HIDE DEF stages, rulings
  <2> QED BY <1>1, <2>1
<1> QED BY <1>2, <1>3, <1>4, <1>5, <1>6, <1>7 DEF Promise!Next

LEMMA HeardTypesKept ==
  ASSUME HeardTypes, [Promise!Next]_(Promise!promiseVars)
  PROVE  HeardTypes'
<1>1. ASSUME NEW q \in ApprovalRequests
      PROVE  Standing(q)' \in Answers /\ wire'[q] \in Seq(Answers)
  <2>1. /\ wire[q] \in Seq(Answers) /\ Standing(q) \in Answers
        /\ <<Standing(q)>> \in Seq(Answers)
    BY DEF HeardTypes
  <2>2. Append(wire[q], Decline) \in Seq(Answers)
    BY <2>1, Appended DEF Answers
  <2> QED BY <2>1, <2>2, PromisePointwise
<1>2. wire' = [q \in ApprovalRequests |-> wire'[q]]
  <2>1. wire = [q \in ApprovalRequests |-> wire[q]]
    BY DEF HeardTypes
  <2>2. wire' = wire \/ \E p \in ApprovalRequests : \E e : wire' = [wire EXCEPT ![p] = e]
    BY DEF Promise!Next, Promise!promiseVars, Promise!Rule, Promise!Take, Promise!Tell,
       Promise!Refuse, Promise!Fail
  <2> QED BY <2>1, <2>2
<1> QED BY <1>1, <1>2 DEF HeardTypes

\* Whatever keeps the promise is heard in this way: the first answer is the ruling that
\* stood when it was taken, or a refusal, and no other follows but refusals.
THEOREM PromiseMeans == ImplementsPromise => []HeardOnce
<1>1. Promise!Init => HeardTypes /\ HeardOnce
  <2> SUFFICES ASSUME Promise!Init PROVE HeardTypes /\ HeardOnce
    OBVIOUS
  <2> DEFINE rulings == [p \in ApprovalRequests |-> Standing(p)]
  <2>1. /\ wire = [q \in ApprovalRequests |-> <<>>]
        /\ rulings = [q \in ApprovalRequests |-> Decline]
    BY DEF Promise!Init
  <2>2. \A q \in ApprovalRequests : rulings[q] = Standing(q)
    OBVIOUS
  <2> HIDE DEF rulings
  <2>3. \A q \in ApprovalRequests : wire[q] = <<>> /\ Standing(q) = Decline
    BY <2>1, <2>2
  <2> QED BY <2>1, <2>3 DEF HeardTypes, HeardOnce, Answers
<1>2. HeardTypes /\ HeardOnce /\ [Promise!Next]_(Promise!promiseVars) =>
        HeardTypes' /\ HeardOnce'
  <2> SUFFICES ASSUME HeardTypes, HeardOnce, [Promise!Next]_(Promise!promiseVars),
                      NEW q \in ApprovalRequests
               PROVE  /\ StageOf(q)' = "open" => wire'[q] = <<>>
                      /\ StageOf(q)' = "taken" => wire'[q] \in {<<>>, <<Standing(q)'>>}
                      /\ \A i \in 1 .. Len(wire'[q]) : i = 1 \/ wire'[q][i] = Decline
    BY HeardTypesKept DEF HeardOnce
  <2>1. /\ wire[q] \in Seq(Answers) /\ Len(wire[q]) \in Nat /\ Decline \in Answers
        /\ Standing(q) \in Answers
    BY DEF HeardTypes, Answers
  <2>2. /\ StageOf(q) = "open" => wire[q] = <<>>
        /\ StageOf(q) = "taken" => wire[q] \in {<<>>, <<Standing(q)>>}
        /\ \A i \in 1 .. Len(wire[q]) : i = 1 \/ wire[q][i] = Decline
    BY DEF HeardOnce
  <2>3. \A i \in 1 .. Len(wire'[q]) : i = 1 \/ wire'[q][i] = Decline
    <3>1. wire'[q] \in {wire[q], <<Standing(q)>>, Append(wire[q], Decline)}
      BY PromisePointwise
    <3>2. CASE wire'[q] = Append(wire[q], Decline)
      BY <2>1, <2>2, <3>2, Appended
    <3>3. Len(<<Standing(q)>>) = 1
      OBVIOUS
    <3> QED BY <2>2, <3>1, <3>2, <3>3
  <2> QED BY <2>2, <2>3, PromisePointwise
<1> QED
  BY <1>1, <1>2, PTL DEF ImplementsPromise, Promise!Spec

=============================================================================
