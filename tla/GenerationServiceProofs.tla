------------------------ MODULE GenerationServiceProofs ------------------------
(****************************************************************************)
(* Proofs, for every set of calls, number of turns and line length, that    *)
(* the streaming use cases drive RequestQueue as its module assumes; that a *)
(* stream owns a turn exactly while it works; what a client is told and     *)
(* what is persisted of it; and, by what is proved of the queue, that one   *)
(* turn keeps the usages apart.                                             *)
(****************************************************************************)
EXTENDS GenerationService, TLAPS

(* Every action of the queue, as the use cases use it.                      *)
QueueStep(r) ==
  \/ Queue!Take(r) \/ Queue!Reject(r) \/ Queue!Join(r)
  \/ Queue!Advance(r) \/ Queue!TakeGranted(r)
  \/ Queue!Release(r) \/ Queue!Abandon(r)

(* A call only ever acts on its own place in the queue.                     *)
LEMMA ActionUsesQueue ==
  ASSUME NEW r \in Requests, Arrive(r) \/ Work(r) \/ Disconnect(r)
  PROVE  QueueStep(r) \/ UNCHANGED qvars
  <1>1. CASE Arrive(r) \/ CheckPremium(r)
    BY <1>1 DEF Arrive, CheckPremium
  <1>2. CASE Start(r)
    BY <1>2 DEF Start, QueueStep
  <1>3. CASE Wake(r)
    BY <1>3 DEF Wake, QueueStep
  <1>4. CASE Sent(r)
    BY <1>4 DEF Sent, ReleaseIfAcquired, QueueStep
  <1>5. CASE SendFails(r) \/ Relay(r) \/ ReportUsage(r) \/ FinishChat(r) \/ FailChat(r)
    BY <1>5 DEF SendFails, Relay, ReportUsage, FinishChat, FailChat
  <1>6. CASE Commit(r) \/ Refresh(r)
    BY <1>6 DEF Commit, Refresh
  <1>7. CASE Finalize(r)
    BY <1>7 DEF Finalize, ReleaseIfAcquired, QueueStep
  <1>8. CASE CloseStream(r)
    BY <1>8 DEF CloseStream
  <1>9. CASE Disconnect(r)
    BY <1>9 DEF Disconnect, QueueStep
  <1>10. QED
    BY <1>1, <1>2, <1>3, <1>4, <1>5, <1>6, <1>7, <1>8, <1>9 DEF Work

(* The use cases take every step of the queue by its own rules (safety part *)
(* of UsesQueue), so what is proved of RequestQueue holds in the service.   *)
THEOREM ServiceUsesQueue == Spec => Queue!Spec
  <1>1. Init => Queue!Init
    BY DEF Init
  <1>2. [Next]_vars => [Queue!Next]_(Queue!vars)
    <2> SUFFICES ASSUME [Next]_vars
                 PROVE  Queue!Next \/ UNCHANGED qvars
      BY DEF Queue!vars, qvars
    <2>1. ASSUME NEW r \in Requests, Arrive(r) \/ Work(r) \/ Disconnect(r)
          PROVE  Queue!Next \/ UNCHANGED qvars
      BY <2>1, ActionUsesQueue DEF QueueStep, Queue!Next
    <2>2. CASE UNCHANGED vars
      BY <2>2 DEF vars
    <2>3. QED
      BY <2>1, <2>2 DEF Next, Quiescent
  <1>3. QED
    BY <1>1, <1>2, PTL DEF Spec, Queue!Spec

-----------------------------------------------------------------------------
(* A call acts on its own phase, stage, last event and usage only; rows are *)
(* never deleted.                                                           *)
LEMMA OwnState ==
  ASSUME NEW r \in Requests, Arrive(r) \/ Work(r) \/ Disconnect(r),
         phase \in [Requests -> Queue!Phases], TypeOK
  PROVE  /\ \A q \in Requests : q # r =>
              /\ phase'[q] = phase[q]
              /\ pc'[q] = pc[q]
              /\ told'[q] = told[q]
              /\ usageRead'[q] = usageRead[q]
         /\ rows \subseteq rows'
  <1>1. (\E p : phase' = [phase EXCEPT ![r] = p]) \/ phase' = phase
    BY ActionUsesQueue
    DEF qvars, QueueStep, Queue!Take, Queue!Reject, Queue!Join, Queue!Advance,
        Queue!TakeGranted, Queue!Release, Queue!Abandon
  <1> USE DEF Arrive, CheckPremium, Handle, Refuse, Work, Disconnect, Start,
              Generate, Wake, Sent, SendFails, Relay, ReportUsage, FinishChat,
              FailChat, Commit, Refresh, Finalize, CloseStream, ReleaseIfAcquired, Goto,
              Yield
  <1>2. (\E p : pc' = [pc EXCEPT ![r] = p]) \/ pc' = pc
    OBVIOUS
  <1>3. (\E e : told' = [told EXCEPT ![r] = e]) \/ told' = told
    OBVIOUS
  <1>4. (\E u : usageRead' = [usageRead EXCEPT ![r] = u]) \/ usageRead' = usageRead
    OBVIOUS
  <1>5. rows \subseteq rows'
    OBVIOUS
  <1>6. QED
    BY <1>1, <1>2, <1>3, <1>4, <1>5 DEF TypeOK

-----------------------------------------------------------------------------
(* What the stage of a call says of its kind, of what it was told, and of   *)
(* its row.  DoneIsPersisted and OutcomeClosesStream need the rest: the row *)
(* is committed before done is told, and only a generator about to end, or  *)
(* one that was dropped, has told an outcome.                               *)
ToldMatches(r) ==
  /\ pc[r] \in {"reported", "saving", "refreshing", "closing"} => r \in ContentRequests
  /\ pc[r] = "deciding" => r \notin ContentRequests
  /\ pc[r] = "refreshing" => r \in rows
  /\ r \in ContentRequests /\ told[r] = "done" => r \in rows
  /\ told[r] \in Outcomes => pc[r] \in {"finishing", "failing", "ended"}
  /\ pc[r] = "relaying" => told[r] \in {"title", "delta"} \cup Lost
  /\ pc[r] \in {"finishing", "failing"} => told[r] \in Outcomes \cup {Gone}
  /\ pc[r] = "closing" => told[r] \in Lost

ToldInv == TypeOK /\ \A r \in Requests : ToldMatches(r)

(* What each action does to the types, and to its own call.                 *)
LEMMA OwnTold ==
  ASSUME ToldInv, NEW r \in Requests, Arrive(r) \/ Work(r) \/ Disconnect(r)
  PROVE  TypeOK' /\ ToldMatches(r)'
  <1> USE KindAssumption
      DEF ToldInv, TypeOK, ToldMatches, Stages, Sending, Chatting, Refusals,
          Events, Outcomes, Nothing, Gone, Broken, Lost, Goto, Yield
  <1>1. CASE Arrive(r) \/ CheckPremium(r)
    BY <1>1 DEF Arrive, CheckPremium, Handle, Refuse
  <1>2. CASE Start(r)
    BY <1>2 DEF Start, Generate
  <1>3. CASE Wake(r)
    BY <1>3 DEF Wake, Generate
  <1>4. CASE Sent(r)
    BY <1>4 DEF Sent, ReleaseIfAcquired
  <1>5. CASE SendFails(r) \/ Relay(r)
    BY <1>5 DEF SendFails, Relay
  <1>6. CASE ReportUsage(r)
    BY <1>6 DEF ReportUsage
  <1>7. CASE FinishChat(r)
    BY <1>7 DEF FinishChat
  <1>8. CASE FailChat(r)
    BY <1>8 DEF FailChat
  <1>9. CASE Commit(r)
    BY <1>9 DEF Commit
  <1>10. CASE Refresh(r)
    BY <1>10 DEF Refresh
  <1>11. CASE Finalize(r)
    BY <1>11 DEF Finalize, ReleaseIfAcquired
  <1>12. CASE CloseStream(r)
    BY <1>12 DEF CloseStream
  <1>13. CASE Disconnect(r)
    BY <1>13 DEF Disconnect
  <1>14. QED
    BY <1>1, <1>2, <1>3, <1>4, <1>5, <1>6, <1>7, <1>8, <1>9, <1>10, <1>11,
       <1>12, <1>13 DEF Work

-----------------------------------------------------------------------------
(* What TurnMatchesStage says of one call, and that a call is new to the    *)
(* queue until stream() runs: without it Start could find the call in line. *)
StageMatches(r) ==
  /\ pc[r] \in Working => phase[r] = "holding"
  /\ pc[r] \in Queueing <=> phase[r] = "waiting"
  /\ pc[r] \in {"closing", "ended"} => phase[r] # "holding"
  /\ pc[r] \in {"new", "checking", "admitted"} => phase[r] = "new"

StageInv ==
  /\ phase \in [Requests -> Queue!Phases]
  /\ \A r \in Requests : StageMatches(r)

(* What each action does to the stage and the phase of its own call.        *)
LEMMA OwnStep ==
  ASSUME TypeOK, StageInv,
         NEW r \in Requests, Arrive(r) \/ Work(r) \/ Disconnect(r)
  PROVE  phase' \in [Requests -> Queue!Phases] /\ StageMatches(r)'
  <1> USE DEF TypeOK, StageInv, StageMatches, Working, Queueing, Stages, Sending,
              Chatting, Queue!Phases, Goto, Yield, qvars
  <1>1. CASE Arrive(r) \/ CheckPremium(r)
    BY <1>1 DEF Arrive, CheckPremium, Handle, Refuse
  <1>2. CASE Start(r)
    BY <1>2 DEF Start, Generate, Queue!Take, Queue!Join, Queue!Reject
  <1>3. CASE Wake(r)
    BY <1>3 DEF Wake, Generate, Queue!TakeGranted, Queue!Advance
  <1>4. CASE Sent(r)
    BY <1>4 DEF Sent, ReleaseIfAcquired, Queue!Release
  <1>5. CASE SendFails(r) \/ Relay(r)
    BY <1>5 DEF SendFails, Relay
  <1>6. CASE ReportUsage(r) \/ FinishChat(r) \/ FailChat(r)
    BY <1>6 DEF ReportUsage, FinishChat, FailChat
  <1>7. CASE Commit(r) \/ Refresh(r)
    BY <1>7 DEF Commit, Refresh
  <1>8. CASE Finalize(r)
    BY <1>8 DEF Finalize, ReleaseIfAcquired, Queue!Release, Queue!Abandon
  <1>9. CASE CloseStream(r)
    BY <1>9 DEF CloseStream
  <1>10. CASE Disconnect(r)
    BY <1>10 DEF Disconnect, Queue!Release, Queue!Abandon
  <1>11. QED
    BY <1>1, <1>2, <1>3, <1>4, <1>5, <1>6, <1>7, <1>8, <1>9, <1>10 DEF Work

(* Both invariants together.                                                *)
ServiceInv == ToldInv /\ StageInv

LEMMA InitService == Init => ServiceInv
  BY KindAssumption
  DEF Init, Queue!Init, ServiceInv, ToldInv, TypeOK, ToldMatches, StageInv,
      StageMatches, Working, Queueing, Stages, Sending, Chatting, Refusals,
      Events, Outcomes, Nothing, Gone, Broken, Lost, Queue!Phases

LEMMA ServiceStep ==
  ASSUME ServiceInv, [Next]_vars
  PROVE  ServiceInv'
  <1>1. ASSUME NEW r \in Requests, Arrive(r) \/ Work(r) \/ Disconnect(r)
        PROVE  ServiceInv'
    <2>1. TypeOK' /\ ToldMatches(r)'
      BY <1>1, OwnTold DEF ServiceInv
    <2>2. phase' \in [Requests -> Queue!Phases] /\ StageMatches(r)'
      BY <1>1, OwnStep DEF ServiceInv, ToldInv
    <2>3. ASSUME NEW q \in Requests, q # r
          PROVE  ToldMatches(q)' /\ StageMatches(q)'
      BY <1>1, <2>3, OwnState
      DEF ServiceInv, ToldInv, ToldMatches, StageInv, StageMatches
    <2>4. QED
      BY <2>1, <2>2, <2>3 DEF ServiceInv, ToldInv, StageInv
  <1>2. CASE UNCHANGED vars
    BY <1>2 DEF vars, qvars, svars, ServiceInv, ToldInv, TypeOK, ToldMatches,
                StageInv, StageMatches
  <1>3. QED
    BY <1>1, <1>2 DEF Next, Quiescent

LEMMA ServiceInvariance == Spec => []ServiceInv
  <1>1. ServiceInv /\ [Next]_vars => ServiceInv'
    BY ServiceStep
  <1>2. QED
    BY InitService, <1>1, PTL DEF Spec

(* Only content calls reach llama-server and the database.                  *)
THEOREM ServiceTypes == Spec => []TypeOK
  <1>1. ServiceInv => TypeOK
    BY DEF ServiceInv, ToldInv
  <1>2. QED
    BY <1>1, ServiceInvariance, PTL

(* A content client that is told done has its row, whatever failed before.  *)
THEOREM DoneMeansRow == Spec => []DoneIsPersisted
  <1>1. ServiceInv => DoneIsPersisted
    BY KindAssumption DEF ServiceInv, ToldInv, ToldMatches, DoneIsPersisted
  <1>2. QED
    BY <1>1, ServiceInvariance, PTL

(* However a stream() is left, its turn and its place in line are given     *)
(* back; and it never works without a turn.                                 *)
THEOREM NoTurnLeaks == Spec => []TurnMatchesStage
  <1>1. ServiceInv => TurnMatchesStage
    BY DEF ServiceInv, StageInv, StageMatches, TurnMatchesStage
  <1>2. QED
    BY <1>1, ServiceInvariance, PTL

(* How a call's own step treats the outcome, and with what it may end.      *)
LEMMA OwnOutcome ==
  ASSUME ToldInv, NEW r \in Requests, Arrive(r) \/ Work(r) \/ Disconnect(r)
  PROVE  KeepsOutcome(r)
  <1> USE DEF ToldInv, TypeOK, ToldMatches, Sending, Chatting, Outcomes, Gone,
              Broken, Lost, Goto, Yield, KeepsOutcome
  <1>1. CASE Arrive(r) \/ CheckPremium(r)
    BY <1>1 DEF Arrive, CheckPremium, Handle, Refuse
  <1>2. CASE Start(r)
    BY <1>2 DEF Start, Generate
  <1>3. CASE Wake(r)
    BY <1>3 DEF Wake, Generate
  <1>4. CASE Sent(r)
    BY <1>4 DEF Sent
  <1>5. CASE SendFails(r) \/ Relay(r)
    BY <1>5 DEF SendFails, Relay
  <1>6. CASE ReportUsage(r) \/ FinishChat(r) \/ FailChat(r)
    BY <1>6 DEF ReportUsage, FinishChat, FailChat
  <1>7. CASE Commit(r) \/ Refresh(r)
    BY <1>7 DEF Commit, Refresh
  <1>8. CASE Finalize(r)
    BY <1>8 DEF Finalize
  <1>9. CASE CloseStream(r)
    BY <1>9 DEF CloseStream
  <1>10. CASE Disconnect(r)
    BY <1>10 DEF Disconnect
  <1>11. QED
    BY <1>1, <1>2, <1>3, <1>4, <1>5, <1>6, <1>7, <1>8, <1>9, <1>10 DEF Work

(* The outcome is the last thing a client is told, and comes once; a call   *)
(* whose client stays ends without an answer only if a piece of the text    *)
(* the model generated for it could not be sent.                            *)
THEOREM OutcomeIsLast == Spec => OutcomeClosesStream
  <1>1. ASSUME ServiceInv, [Next]_vars
        PROVE  (\A r \in Requests : KeepsOutcome(r)) \/ UNCHANGED vars
    <2>1. ASSUME NEW r \in Requests, Arrive(r) \/ Work(r) \/ Disconnect(r)
          PROVE  \A q \in Requests : KeepsOutcome(q)
      <3>1. KeepsOutcome(r)
        BY <1>1, <2>1, OwnOutcome DEF ServiceInv
      <3>2. ASSUME NEW q \in Requests, q # r
            PROVE  KeepsOutcome(q)
        BY <1>1, <2>1, <3>2, OwnState
        DEF ServiceInv, ToldInv, StageInv, KeepsOutcome
      <3>3. QED
        BY <3>1, <3>2
    <2>2. QED
      BY <1>1, <2>1 DEF Next, Quiescent
  <1>2. ServiceInv /\ [Next]_vars => [\A r \in Requests : KeepsOutcome(r)]_vars
    BY <1>1
  <1>3. QED
    BY <1>2, ServiceInvariance, PTL DEF Spec, OutcomeClosesStream

-----------------------------------------------------------------------------
(* What is proved of the queue.                                             *)
Line == INSTANCE RequestQueueProofs

LEMMA SameQueue ==
  /\ Queue!Init => Line!Init
  /\ [Queue!Next]_(Queue!vars) => [Line!Next]_(Line!vars)
  <1>1. Queue!Init => Line!Init
    BY DEF Queue!Init, Line!Init
  <1>2. \A channels, line : Queue!NotifyPositions(channels, line)
                             = Line!NotifyPositions(channels, line)
    BY DEF Queue!NotifyPositions, Line!NotifyPositions, Queue!Range, Line!Range,
           Queue!Position, Line!Position
  <1>3. Queue!PassTurnOn => Line!PassTurnOn
    BY <1>2 DEF Queue!PassTurnOn, Line!PassTurnOn, Queue!Granted, Line!Granted
  <1>4. ASSUME NEW r \in Requests
        PROVE  QueueStep(r) => Line!Next
    <2>1. Queue!Take(r) => Line!Take(r)
      BY DEF Queue!Take, Line!Take
    <2>2. Queue!Reject(r) => Line!Reject(r)
      BY DEF Queue!Reject, Line!Reject, Queue!IsFull, Line!IsFull
    <2>3. Queue!Join(r) => Line!Join(r)
      BY DEF Queue!Join, Line!Join, Queue!IsFull, Line!IsFull
    <2>4. Queue!Advance(r) => Line!Advance(r)
      BY DEF Queue!Advance, Line!Advance, Queue!Granted, Line!Granted
    <2>5. Queue!TakeGranted(r) => Line!TakeGranted(r)
      BY DEF Queue!TakeGranted, Line!TakeGranted, Queue!Granted, Line!Granted
    <2>6. Queue!Release(r) => Line!Release(r)
      BY <1>3 DEF Queue!Release, Line!Release
    <2>7. Queue!Abandon(r) => Line!Abandon(r)
      BY <1>2, <1>3
      DEF Queue!Abandon, Line!Abandon, Queue!Range, Line!Range,
          Queue!Position, Line!Position, Queue!RemoveAt, Line!RemoveAt
    <2>8. QED
      BY <2>1, <2>2, <2>3, <2>4, <2>5, <2>6, <2>7 DEF QueueStep, Line!Next
  <1>5. Queue!Quiescent => Line!Quiescent
    BY DEF Queue!Quiescent, Line!Quiescent, Queue!vars, Line!vars
  <1>6. QED
    BY <1>1, <1>4, <1>5
    DEF Queue!Next, QueueStep, Line!Next, Queue!vars, Line!vars

LEMMA LineIsExclusive == Spec => []Line!OneAtATime
  <1>1. Queue!Spec => Line!Spec
    BY SameQueue, PTL DEF Queue!Spec, Line!Spec
  <1>2. QED
    BY <1>1, ServiceUsesQueue, Line!TurnIsExclusive,
       MaxConcurrentAssumption, MaxQueueSizeAssumption, PTL

(* UsageIsOwn, and why: while a content call has its stream_chat(), the     *)
(* last usage is its own or none.                                           *)
UsageInv ==
  MaxConcurrent = 1 =>
    \A r \in Requests :
      /\ usageRead[r] \in {r, None, Unread}
      /\ r \in ContentRequests /\ pc[r] \in Chatting \cup {"relaying"} =>
           lastUsage \in {r, None}

(* A stream_chat() is read only after Generate forgot the last usage.       *)
LEMMA OpensChat ==
  ASSUME ServiceInv, NEW r \in ContentRequests,
         Arrive(r) \/ Work(r) \/ Disconnect(r),
         pc'[r] \in Chatting \cup {"relaying"},
         pc[r] \notin Chatting \cup {"relaying"}
  PROVE  lastUsage' = None
  <1> USE KindAssumption
      DEF ServiceInv, ToldInv, TypeOK, ToldMatches, Sending, Chatting, Goto, Yield
  <1>1. CASE Arrive(r) \/ CheckPremium(r)
    BY <1>1 DEF Arrive, CheckPremium, Handle, Refuse
  <1>2. CASE Start(r) \/ Wake(r)
    BY <1>2 DEF Start, Wake, Generate
  <1>3. CASE Sent(r)
    BY <1>3 DEF Sent
  <1>4. CASE SendFails(r) \/ Relay(r) \/ ReportUsage(r) \/ FinishChat(r) \/ FailChat(r)
    BY <1>4 DEF SendFails, Relay, ReportUsage, FinishChat, FailChat
  <1>5. CASE Commit(r) \/ Refresh(r) \/ Finalize(r) \/ CloseStream(r)
    BY <1>5 DEF Commit, Refresh, Finalize, CloseStream
  <1>6. CASE Disconnect(r)
    BY <1>6 DEF Disconnect
  <1>7. QED
    BY <1>1, <1>2, <1>3, <1>4, <1>5, <1>6 DEF Work

LEMMA UsageStep ==
  ASSUME ServiceInv, Line!OneAtATime, UsageInv, [Next]_vars
  PROVE  UsageInv'
  <1> SUFFICES ASSUME MaxConcurrent = 1, NEW q \in Requests
               PROVE  /\ usageRead'[q] \in {q, None, Unread}
                      /\ q \in ContentRequests /\ pc'[q] \in Chatting \cup {"relaying"} =>
                           lastUsage' \in {q, None}
    BY DEF UsageInv
  <1> USE DEF UsageInv, Chatting
  <1>1. ASSUME NEW r \in Requests, Arrive(r) \/ Work(r) \/ Disconnect(r)
        PROVE  /\ usageRead'[q] \in {q, None, Unread}
               /\ q \in ContentRequests /\ pc'[q] \in Chatting \cup {"relaying"} =>
                    lastUsage' \in {q, None}
    <2>1. lastUsage' \in {lastUsage, None} \/ (lastUsage' = r /\ pc[r] = "reading")
      BY <1>1 DEF Arrive, CheckPremium, Work, Disconnect, Start, Generate, Wake,
                  Sent, SendFails, Relay, ReportUsage, FinishChat, FailChat,
                  Commit, Refresh, Finalize, CloseStream
    <2>2. CASE q # r
      <3>1. usageRead'[q] = usageRead[q] /\ pc'[q] = pc[q]
        BY <1>1, <2>2, OwnState DEF ServiceInv, ToldInv, StageInv
      <3>2. pc[q] \in Chatting \cup {"relaying"} => pc[r] # "reading"
        BY <2>2 DEF Line!OneAtATime, ServiceInv, StageInv, StageMatches, Working
      <3>3. QED
        BY <2>1, <3>1, <3>2
    <2>3. CASE q = r
      <3>1. \/ usageRead'[r] \in {usageRead[r], Unread}
            \/ usageRead'[r] = lastUsage /\ r \in ContentRequests /\ pc[r] \in Chatting
        BY <1>1 DEF ServiceInv, ToldInv, TypeOK, Arrive, CheckPremium, Work,
                    Disconnect, Start, Generate, Wake, Sent, SendFails, Relay,
                    ReportUsage, FinishChat, FailChat, Commit, Refresh, Finalize,
                    CloseStream, ReleaseIfAcquired
      <3>2. r \in ContentRequests /\ pc'[r] \in Chatting \cup {"relaying"} =>
              pc[r] \in Chatting \cup {"relaying"} \/ lastUsage' = None
        BY <1>1, OpensChat
      <3>3. QED
        BY <2>1, <2>3, <3>1, <3>2
    <2>4. QED
      BY <2>2, <2>3
  <1>2. CASE UNCHANGED vars
    BY <1>2 DEF vars, svars
  <1>3. QED
    BY <1>1, <1>2 DEF Next, Quiescent

(* With one turn a generation persists its own usage or none.               *)
THEOREM UsageStaysOwn == Spec => []UsageIsOwn
  <1>1. Init => UsageInv
    BY DEF Init, UsageInv, Chatting
  <1>2. ServiceInv /\ Line!OneAtATime /\ UsageInv /\ [Next]_vars
          => UsageInv'
    BY UsageStep
  <1>3. UsageInv => UsageIsOwn
    BY DEF UsageInv, UsageIsOwn
  <1>4. QED
    BY <1>1, <1>2, <1>3, ServiceInvariance, LineIsExclusive, PTL DEF Spec
=============================================================================
