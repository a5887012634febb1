------------------------- MODULE AnomalyConsumerProofs -------------------------
(* Theorems about AnomalyConsumer, for any set of messages, malformed ones, *)
(* texts, retries and faults. What is proved of one analysis is used here   *)
(* of the analyses the consumer runs one after the other.                   *)
EXTENDS AnomalyConsumer, SequenceTheorems, TLAPS

Proved == INSTANCE AnalyzePropertyProofs WITH Jobs <- {Self}

Types ==
  /\ unpublished \subseteq Messages
  /\ ready \in Seq(Messages)
  /\ acked \subseteq Messages /\ dead \subseteq Messages
  /\ conn \in {"open", "closed"}
  /\ thread \in Places
  /\ current \in Messages \cup {NoMessage}
  /\ stopRequested \in BOOLEAN
  /\ faults \in 0 .. MaxFaults
  /\ deliveries \in [Messages -> Nat]
  /\ heard \in [Messages -> SUBSET Analysis!Letters]
  /\ thread = "handling" <=> current # NoMessage

(* The broker waits to hear of m.                                           *)
InHand(m) == thread = "handling" /\ conn = "open" /\ current = m

(* m is at one place, and was handed out no more often than faults allow:   *)
(* while it is in the queue every delivery so far ended in a fault.         *)
OnePlace(m) ==
  /\ m \in unpublished =>
       m \notin Range(ready) /\ ~InHand(m) /\ m \notin acked /\ m \notin dead
  /\ m \in Range(ready) => ~InHand(m) /\ m \notin acked /\ m \notin dead
  /\ InHand(m) => m \notin acked /\ m \notin dead
  /\ m \in acked => m \notin dead
  /\ m \in unpublished \cup Range(ready) \cup acked \cup dead \/ InHand(m)

Counted(m) ==
  /\ m \in unpublished => deliveries[m] = 0
  /\ m \in Range(ready) => deliveries[m] <= faults
  /\ deliveries[m] <= 1 + faults

Heard ==
  /\ \A m \in acked : heard[m] # {}
  /\ \A m \in Malformed : heard[m] = {}
  /\ thread = "handling" =>
       /\ Range(delivered[Self]) \subseteq heard[current]
       /\ current \in Malformed => stage[Self] = "new"

IInv ==
  /\ Types
  /\ IsInjective(ready)
  /\ \A m \in Messages : OnePlace(m) /\ Counted(m)
  /\ Heard
  /\ Proved!IInv

-----------------------------------------------------------------------------
(* The analysis of the consumer is the one the theorems are about.         *)
LEMMA SameWords ==
  /\ Analysis!Verdicts = Proved!Verdicts /\ Analysis!Letters = Proved!Letters
  /\ Analysis!None = Proved!None /\ Analysis!Labels = Proved!Labels
  /\ Analysis!Stages = Proved!Stages /\ Analysis!Signals = Proved!Signals
BY DEF Analysis!Verdicts, Analysis!Letters, Analysis!None, Analysis!Labels,
       Analysis!Stages, Analysis!Signals, Proved!Verdicts, Proved!Letters,
       Proved!None, Proved!Labels, Proved!Stages, Proved!Signals

LEMMA SameAnalysis ==
  /\ Analysis!Begin(Self) => Proved!Begin(Self)
  /\ Analysis!Step(Self) => Proved!Step(Self)
<1>1. Analysis!Begin(Self) => Proved!Begin(Self)
  BY DEF Analysis!Begin, Proved!Begin, Analysis!Goto, Proved!Goto
<1>2. Analysis!Screen(Self) => Proved!Screen(Self)
  BY SameWords DEF Analysis!Screen, Proved!Screen, Analysis!Goto, Proved!Goto,
     Analysis!IsFraudText, Proved!IsFraudText, Analysis!None, Proved!None
<1>3. Analysis!ScreenFails(Self) => Proved!ScreenFails(Self)
  BY DEF Analysis!ScreenFails, Proved!ScreenFails, Analysis!Goto, Proved!Goto
<1>4. Analysis!Predict(Self) => Proved!Predict(Self)
  BY SameWords DEF Analysis!Predict, Proved!Predict, Analysis!Goto, Proved!Goto
<1>5. Analysis!PredictFails(Self) => Proved!PredictFails(Self)
  BY DEF Analysis!PredictFails, Proved!PredictFails, Analysis!Goto, Proved!Goto
<1>6. Analysis!Persist(Self) => Proved!Persist(Self)
  BY DEF Analysis!Persist, Proved!Persist, Analysis!Goto, Proved!Goto
<1>7. Analysis!PostAccepted(Self) => Proved!PostAccepted(Self)
  BY DEF Analysis!PostAccepted, Proved!PostAccepted, Analysis!Goto, Proved!Goto,
     Analysis!Deliver, Proved!Deliver
<1>8. Analysis!PostUnheard(Self) => Proved!PostUnheard(Self)
  BY DEF Analysis!PostUnheard, Proved!PostUnheard, Analysis!Goto, Proved!Goto,
     Analysis!Deliver, Proved!Deliver
<1> QED
  BY <1>1, <1>2, <1>3, <1>4, <1>5, <1>6, <1>7, <1>8
     DEF Analysis!Step, Proved!Step

LEMMA AnalysisSteps ==
  ASSUME Proved!IInv, Analysis!Begin(Self) \/ Analysis!Step(Self) \/ UNCHANGED jvars
  PROVE  Proved!IInv'
<1>1. Proved!IInv /\ [Proved!Next]_(Proved!jvars) => Proved!IInv'
  BY Proved!NextSound, MaxRetriesAssumption
<1>2. [Proved!Next]_(Proved!jvars)
  BY SameAnalysis DEF Proved!Next, Proved!jvars, jvars
<1> QED
  BY <1>1, <1>2

(* A new analysis is as sound as the one it replaces.                       *)
LEMMA AnalysisRenewed ==
  ASSUME Proved!IInv, NEW sig \in Analysis!Signals, NewAnalysis(sig)
  PROVE  /\ Proved!IInv'
         /\ stage'[Self] = "new" /\ delivered'[Self] = <<>>
<1>1. /\ Proved!TypeOK'
      /\ stage'[Self] = "new" /\ verdict'[Self] = Proved!None
      /\ row'[Self] = Proved!None /\ delivered'[Self] = <<>>
  BY SameWords, MaxRetriesAssumption
     DEF NewAnalysis, Proved!IInv, Proved!TypeOK, Proved!Stages
<1>2. Proved!Sound(Self)'
  BY <1>1, MaxRetriesAssumption
     DEF Proved!Sound, Proved!Told, Proved!Early, Proved!None
<1> QED
  BY <1>1, <1>2 DEF Proved!IInv

-----------------------------------------------------------------------------
(* The queue of the broker: a message at its end, out of its head, put back *)
(* in front.                                                                *)
LEMMA QueueAppend ==
  ASSUME NEW S, NEW q \in Seq(S), NEW m \in S
  PROVE  /\ Append(q, m) \in Seq(S)
         /\ Range(Append(q, m)) = Range(q) \cup {m}
         /\ IsInjective(q) /\ m \notin Range(q) => IsInjective(Append(q, m))
<1>1. /\ Append(q, m) \in Seq(S)
      /\ DOMAIN Append(q, m) = 1 .. Len(q) + 1 /\ DOMAIN q = 1 .. Len(q)
      /\ Len(q) \in Nat
      /\ \A i \in 1 .. Len(q) : Append(q, m)[i] = q[i]
      /\ Append(q, m)[Len(q) + 1] = m
  OBVIOUS
<1>2. Range(Append(q, m)) = Range(q) \cup {m}
  <2>1. Range(Append(q, m)) \subseteq Range(q) \cup {m}
    BY <1>1 DEF Range
  <2>2. Range(q) \cup {m} \subseteq Range(Append(q, m))
    BY <1>1 DEF Range
  <2> QED
    BY <2>1, <2>2
<1>3. IsInjective(q) /\ m \notin Range(q) => IsInjective(Append(q, m))
  BY <1>1 DEF IsInjective, Range
<1> QED
  BY <1>1, <1>2, <1>3

LEMMA QueueTail ==
  ASSUME NEW S, NEW q \in Seq(S), q # <<>>, IsInjective(q)
  PROVE  /\ Head(q) \in S /\ Head(q) \in Range(q)
         /\ Tail(q) \in Seq(S)
         /\ Range(Tail(q)) = Range(q) \ {Head(q)}
         /\ IsInjective(Tail(q))
<1>1. /\ Tail(q) \in Seq(S) /\ Len(q) \in Nat \ {0}
      /\ DOMAIN Tail(q) = 1 .. Len(q) - 1 /\ DOMAIN q = 1 .. Len(q)
      /\ \A i \in 1 .. Len(q) - 1 : Tail(q)[i] = q[i + 1]
      /\ Head(q) = q[1] /\ Head(q) \in S
  OBVIOUS
<1>2. Range(Tail(q)) \subseteq Range(q) \ {Head(q)}
  BY <1>1 DEF Range, IsInjective
<1>3. ASSUME NEW m \in Range(q), m # Head(q) PROVE m \in Range(Tail(q))
  <2>1. PICK i \in 1 .. Len(q) : q[i] = m
    BY <1>1 DEF Range
  <2>2. i - 1 \in 1 .. Len(q) - 1 /\ Tail(q)[i - 1] = m
    BY <1>1, <1>3, <2>1
  <2> QED
    BY <1>1, <2>2 DEF Range
<1>4. IsInjective(Tail(q))
  BY <1>1 DEF IsInjective
<1>5. Head(q) \in Range(q)
  BY <1>1 DEF Range
<1>6. Head(q) \notin Range(Tail(q))
  BY <1>1 DEF Range, IsInjective
<1>7. Range(Tail(q)) = Range(q) \ {Head(q)}
  BY <1>2, <1>3, <1>6
<1> QED
  BY <1>1, <1>4, <1>5, <1>7

LEMMA QueueFront ==
  ASSUME NEW S, NEW q \in Seq(S), NEW m \in S, m \notin Range(q), IsInjective(q)
  PROVE  /\ <<m>> \o q \in Seq(S)
         /\ Range(<<m>> \o q) = Range(q) \cup {m}
         /\ IsInjective(<<m>> \o q)
<1> DEFINE r == <<m>> \o q
<1>1. /\ r \in Seq(S) /\ Len(q) \in Nat
      /\ DOMAIN r = 1 .. Len(q) + 1 /\ DOMAIN q = 1 .. Len(q)
      /\ r[1] = m
      /\ \A i \in 2 .. Len(q) + 1 : r[i] = q[i - 1]
  OBVIOUS
<1>2. Range(r) \subseteq Range(q) \cup {m}
  BY <1>1 DEF Range
<1>3. ASSUME NEW x \in Range(q) PROVE x \in Range(r)
  <2>1. PICK i \in 1 .. Len(q) : q[i] = x
    BY <1>1 DEF Range
  <2>2. i + 1 \in 1 .. Len(q) + 1 /\ r[i + 1] = x
    BY <1>1, <2>1
  <2> QED
    BY <1>1, <2>2 DEF Range
<1>4. m \in Range(r)
  BY <1>1 DEF Range
<1>5. IsInjective(r)
  BY <1>1 DEF IsInjective, Range
<1> QED
  BY <1>1, <1>2, <1>3, <1>4, <1>5

-----------------------------------------------------------------------------
LEMMA InitSound == Init => IInv
<1> SUFFICES ASSUME Init PROVE IInv
  OBVIOUS
<1>1. Types
  <2>1. ready \in Seq(Messages) /\ faults \in 0 .. MaxFaults
    BY MaxFaultsAssumption DEF Init
  <2>2. heard \in [Messages -> SUBSET Analysis!Letters]
    BY DEF Init
  <2>3. deliveries \in [Messages -> Nat]
    BY DEF Init
  <2> QED
    BY <2>1, <2>2, <2>3 DEF Init, Types, Places
<1>2. IsInjective(ready) /\ Range(ready) = {}
  BY DEF Init, IsInjective, Range
<1>3. ASSUME NEW m \in Messages PROVE OnePlace(m) /\ Counted(m)
  BY <1>2, <1>3, MaxFaultsAssumption DEF Init, OnePlace, Counted, InHand
<1>4. Heard
  BY MalformedAssumption DEF Init, Heard
<1>5. Proved!IInv
  <2>1. Proved!Init
    BY SameWords DEF Init, Analysis!Init, Proved!Init
  <2> QED
    BY <2>1, Proved!InitSound, MaxRetriesAssumption
<1> QED
  BY <1>1, <1>2, <1>3, <1>4, <1>5 DEF IInv

(* Steps that move no message: places and counts stay.                      *)
LEMMA PlacesKept ==
  ASSUME IInv, UNCHANGED <<unpublished, ready, acked, dead, deliveries, faults>>,
         \A m \in Messages : InHand(m)' <=> InHand(m)
  PROVE  /\ IsInjective(ready)'
         /\ \A m \in Messages : OnePlace(m)' /\ Counted(m)'
  BY DEF IInv, OnePlace, Counted

(* The steps of the thread between two callbacks.                           *)
LEMMA ThreadStep ==
  ASSUME IInv, Decide \/ Connect \/ ConnectFails \/ PauseEnds \/ ConsumingEnds \/ Restart
  PROVE  IInv'
<1>1. /\ thread # "handling" /\ thread' # "handling" /\ thread' \in Places
      /\ stopRequested' \in BOOLEAN /\ conn' \in {"open", "closed"}
      /\ UNCHANGED <<unpublished, ready, acked, dead, deliveries, current,
                     faults, heard, jvars>>
  BY DEF IInv, Types, Decide, Connect, ConnectFails, PauseEnds, ConsumingEnds,
         Restart, Goto, Except, Places, bvars
<1>2. Types'
  BY <1>1 DEF IInv, Types
<1>3. \A m \in Messages : InHand(m)' <=> InHand(m)
  BY <1>1 DEF InHand
<1>4. Heard'
  BY <1>1 DEF IInv, Heard
<1>5. Proved!IInv'
  BY <1>1, AnalysisSteps DEF IInv
<1> QED
  BY <1>1, <1>2, <1>3, <1>4, <1>5, PlacesKept DEF IInv

LEMMA PublishStep ==
  ASSUME IInv, NEW m \in Messages, Publish(m) PROVE IInv'
<1>1. /\ m \in unpublished /\ unpublished' = unpublished \ {m}
      /\ ready' = Append(ready, m)
      /\ UNCHANGED <<acked, dead, conn, deliveries, tvars, heard, jvars>>
  BY DEF Publish
<1>2. /\ ready' \in Seq(Messages) /\ IsInjective(ready')
      /\ Range(ready') = Range(ready) \cup {m}
  BY <1>1, QueueAppend DEF IInv, Types, OnePlace
<1>3. Types'
  BY <1>1, <1>2 DEF IInv, Types, tvars
<1>4. ASSUME NEW n \in Messages PROVE OnePlace(n)' /\ Counted(n)'
  <2>1. InHand(n)' <=> InHand(n)
    BY <1>1 DEF InHand, tvars
  <2> QED
    BY <1>1, <1>2, <2>1 DEF IInv, Types, OnePlace, Counted, tvars
<1>5. Heard'
  BY <1>1 DEF IInv, Heard, tvars, jvars
<1>6. Proved!IInv'
  BY <1>1, AnalysisSteps DEF IInv
<1> QED
  BY <1>2, <1>3, <1>4, <1>5, <1>6 DEF IInv

LEMMA DeliverStep ==
  ASSUME IInv, Deliver PROVE IInv'
<1>1. /\ thread = "consuming" /\ conn = "open" /\ ready # <<>>
      /\ current' = Head(ready) /\ ready' = Tail(ready)
      /\ deliveries' = [deliveries EXCEPT ![current'] = @ + 1]
      /\ thread' = "handling" /\ NewAnalysis(Text[current'])
      /\ UNCHANGED <<unpublished, acked, dead, conn, heard, stopRequested, faults>>
  BY DEF Deliver, Goto
<1>2. /\ current' \in Messages /\ current' \in Range(ready)
      /\ ready' \in Seq(Messages) /\ IsInjective(ready')
      /\ Range(ready') = Range(ready) \ {current'}
  BY <1>1, QueueTail DEF IInv, Types
<1>3. Types'
  BY <1>1, <1>2, MessagesAssumption DEF IInv, Types, Places
<1>4. ASSUME NEW n \in Messages PROVE OnePlace(n)' /\ Counted(n)'
  <2>1. ~InHand(n) /\ (InHand(n)' <=> n = current')
    BY <1>1 DEF InHand
  <2>2. OnePlace(n)'
    BY <1>1, <1>2, <2>1 DEF IInv, OnePlace
  <2>3. Counted(n)'
    BY <1>1, <1>2, <1>3 DEF IInv, Types, Counted, OnePlace
  <2> QED
    BY <2>2, <2>3
<1>5. /\ Proved!IInv' /\ stage'[Self] = "new" /\ delivered'[Self] = <<>>
  BY <1>1, <1>2, AnalysisRenewed, TextAssumption DEF IInv
<1>6. Heard'
  BY <1>1, <1>5 DEF IInv, Heard, Range
<1> QED
  BY <1>2, <1>3, <1>4, <1>5, <1>6 DEF IInv

(* A step of the analysis, inside the callback.                             *)
LEMMA AnalyzeStep ==
  ASSUME IInv, Analyze PROVE IInv'
<1>1. /\ thread = "handling" /\ current \in Messages
      /\ UNCHANGED <<bvars, tvars>>
      /\ heard' = [heard EXCEPT ![current] = @ \cup Range(delivered'[Self])]
      /\ heard \in [Messages -> SUBSET Analysis!Letters]
  BY DEF IInv, Types, Analyze
<1>2. Proved!IInv'
  BY AnalysisSteps DEF IInv, Analyze
<1>3. Range(delivered'[Self]) \subseteq Analysis!Letters
  <2>1. delivered'[Self] \in Seq(Analysis!Letters)
    BY <1>2, SameWords DEF Proved!IInv, Proved!TypeOK
  <2> QED
    BY <2>1 DEF Range
<1>4. current \notin Malformed
  <2>1. stage[Self] # "new" \/ current \notin Malformed
    BY DEF Analyze, Analysis!Step, Analysis!Screen, Analysis!ScreenFails,
       Analysis!Predict, Analysis!PredictFails, Analysis!Persist,
       Analysis!PostAccepted, Analysis!PostUnheard
  <2> QED
    BY <1>1, <2>1 DEF IInv, Heard
<1>5. /\ heard' \in [Messages -> SUBSET Analysis!Letters]
      /\ heard'[current] = heard[current] \cup Range(delivered'[Self])
      /\ \A m \in Messages : m # current => heard'[m] = heard[m]
  BY <1>1, <1>3
<1>6. Types'
  BY <1>1, <1>5 DEF IInv, Types, bvars, tvars
<1>7. Heard'
  <2>1. \A m \in acked : heard'[m] # {}
    BY <1>5 DEF IInv, Types, Heard
  <2>2. \A m \in Malformed : heard'[m] = {}
    BY <1>4, <1>5, MalformedAssumption DEF IInv, Heard
  <2>3. Range(delivered'[Self]) \subseteq heard'[current]
    BY <1>5
  <2> QED
    BY <1>1, <1>4, <2>1, <2>2, <2>3 DEF Heard, bvars, tvars
<1>8. \A m \in Messages : InHand(m)' <=> InHand(m)
  BY <1>1 DEF InHand, bvars, tvars
<1> QED
  BY <1>1, <1>2, <1>6, <1>7, <1>8, PlacesKept DEF IInv, bvars, tvars

(* The callback is left with the message settled: acknowledged after the    *)
(* webhook took a payload, or dead-lettered.                                *)
LEMMA AckStep ==
  ASSUME IInv, Ack PROVE IInv'
<1>1. /\ thread = "handling" /\ conn = "open" /\ stage[Self] = "returned"
      /\ acked' = acked \cup {current} /\ current' = NoMessage
      /\ thread' = "consuming" /\ current \in Messages
      /\ UNCHANGED <<unpublished, ready, dead, conn, deliveries, heard, jvars,
                     stopRequested, faults>>
  BY DEF IInv, Types, Ack, Settled, Goto
<1>2. Types'
  BY <1>1 DEF IInv, Types, Places
<1>3. ASSUME NEW m \in Messages PROVE OnePlace(m)' /\ Counted(m)'
  BY <1>1 DEF IInv, OnePlace, Counted, InHand
<1>4. heard[current] # {}
  <2>1. delivered[Self] # <<>> /\ delivered[Self] \in Seq(Analysis!Letters)
    BY <1>1, SameWords DEF IInv, Proved!IInv, Proved!Sound, Proved!TypeOK
  <2>2. 1 \in DOMAIN delivered[Self]
    BY <2>1
  <2>3. delivered[Self][1] \in Range(delivered[Self])
    BY <2>2 DEF Range
  <2> QED
    BY <1>1, <2>3 DEF IInv, Heard
<1>5. Heard'
  BY <1>1, <1>4 DEF IInv, Heard
<1>6. Proved!IInv'
  BY <1>1, AnalysisSteps DEF IInv
<1> QED
  BY <1>1, <1>2, <1>3, <1>5, <1>6 DEF IInv

LEMMA NackStep ==
  ASSUME IInv, Nack PROVE IInv'
<1>1. /\ thread = "handling" /\ conn = "open"
      /\ dead' = dead \cup {current} /\ current' = NoMessage
      /\ thread' = "consuming" /\ current \in Messages
      /\ UNCHANGED <<unpublished, ready, acked, conn, deliveries, heard, jvars,
                     stopRequested, faults>>
  BY DEF IInv, Types, Nack, Settled, Goto
<1>2. Types'
  BY <1>1 DEF IInv, Types, Places
<1>3. ASSUME NEW m \in Messages PROVE OnePlace(m)' /\ Counted(m)'
  BY <1>1 DEF IInv, OnePlace, Counted, InHand
<1>4. Heard'
  BY <1>1 DEF IInv, Heard
<1>5. Proved!IInv'
  BY <1>1, AnalysisSteps DEF IInv
<1> QED
  BY <1>1, <1>2, <1>3, <1>4, <1>5 DEF IInv

(* The broker took the message back when the connection closed: leaving the *)
(* callback changes nothing of it.                                          *)
LEMMA SettleFailsStep ==
  ASSUME IInv, SettleFails PROVE IInv'
<1>1. /\ conn = "closed" /\ current' = NoMessage
      /\ thread' \in {"ended", "backoff"}
      /\ UNCHANGED <<bvars, heard, jvars, stopRequested, faults>>
  BY DEF SettleFails, Except, Goto
<1>2. Types'
  BY <1>1 DEF IInv, Types, Places, bvars
<1>3. \A m \in Messages : InHand(m)' <=> InHand(m)
  BY <1>1 DEF InHand
<1>4. Heard'
  BY <1>1 DEF IInv, Heard, bvars
<1>5. Proved!IInv'
  BY <1>1, AnalysisSteps DEF IInv
<1> QED
  BY <1>1, <1>2, <1>3, <1>4, <1>5, PlacesKept DEF IInv, bvars

(* A fault that closes the connection puts the message in hand back.        *)
LEMMA Requeued ==
  ASSUME IInv, Fault, Disconnected
  PROVE  /\ ready' \in Seq(Messages) /\ IsInjective(ready')
         /\ conn' = "closed" /\ faults' \in 0 .. MaxFaults
         /\ \A m \in Messages : OnePlace(m)' /\ Counted(m)'
<1>1. /\ conn' = "closed" /\ faults' = faults + 1 /\ faults' \in 0 .. MaxFaults
      /\ faults \in Nat
      /\ ready' = Unacked \o ready
      /\ UNCHANGED <<unpublished, acked, dead, deliveries>>
  BY MaxFaultsAssumption DEF IInv, Types, Fault, Disconnected
<1>2. /\ ready' \in Seq(Messages) /\ IsInjective(ready')
      /\ \A m \in Messages : m \in Range(ready') <=> m \in Range(ready) \/ InHand(m)
  <2>1. CASE thread = "handling" /\ conn = "open"
    <3>1. current \in Messages /\ current \notin Range(ready)
      BY <2>1 DEF IInv, Types, OnePlace, InHand
    <3>2. ready' = <<current>> \o ready
      BY <1>1, <2>1 DEF Unacked
    <3>3. /\ <<current>> \o ready \in Seq(Messages)
          /\ Range(<<current>> \o ready) = Range(ready) \cup {current}
          /\ IsInjective(<<current>> \o ready)
      BY <3>1, QueueFront DEF IInv, Types
    <3> QED
      BY <2>1, <3>2, <3>3 DEF InHand
  <2>2. CASE ~(thread = "handling" /\ conn = "open")
    <3>1. ready' = ready
      BY <1>1, <2>2 DEF Unacked, IInv, Types
    <3> QED
      BY <2>2, <3>1 DEF IInv, Types, InHand
  <2> QED
    BY <2>1, <2>2
<1>3. ASSUME NEW m \in Messages PROVE OnePlace(m)' /\ Counted(m)'
  <2>1. OnePlace(m)'
    BY <1>1, <1>2 DEF IInv, OnePlace, InHand
  <2>2. Counted(m)'
    BY <1>1, <1>2 DEF IInv, Types, Counted, OnePlace
  <2> QED
    BY <2>1, <2>2
<1> QED
  BY <1>1, <1>2, <1>3

LEMMA FaultStep ==
  ASSUME IInv, ConnectionLost \/ Stop \/ ProcessDies PROVE IInv'
<1>1. /\ Fault /\ Disconnected
      /\ UNCHANGED <<unpublished, acked, dead, deliveries, heard, jvars>>
      /\ stopRequested' \in BOOLEAN
      /\ \/ UNCHANGED <<thread, current>>
         \/ thread' = "killed" /\ current' = NoMessage
  BY DEF IInv, Types, ConnectionLost, Stop, ProcessDies, Disconnected
<1>2. /\ ready' \in Seq(Messages) /\ IsInjective(ready')
      /\ conn' = "closed" /\ faults' \in 0 .. MaxFaults
      /\ \A m \in Messages : OnePlace(m)' /\ Counted(m)'
  BY <1>1, Requeued
<1>3. Types'
  BY <1>1, <1>2 DEF IInv, Types, Places
<1>4. Heard'
  BY <1>1 DEF IInv, Heard, jvars
<1>5. Proved!IInv'
  BY <1>1, AnalysisSteps DEF IInv
<1> QED
  BY <1>2, <1>3, <1>4, <1>5 DEF IInv

-----------------------------------------------------------------------------
LEMMA NextSound == IInv /\ [Next]_vars => IInv'
<1> SUFFICES ASSUME IInv, [Next]_vars PROVE IInv'
  OBVIOUS
<1>1. CASE UNCHANGED vars
  <2>1. UNCHANGED <<bvars, tvars, heard, jvars>>
    BY <1>1 DEF vars
  <2>2. Types' /\ Heard'
    BY <2>1 DEF IInv, Types, Heard, bvars, tvars, jvars
  <2>3. \A m \in Messages : InHand(m)' <=> InHand(m)
    BY <2>1 DEF InHand, bvars, tvars
  <2>4. Proved!IInv'
    BY <2>1, AnalysisSteps DEF IInv
  <2> QED
    BY <2>1, <2>2, <2>3, <2>4, PlacesKept DEF IInv, bvars, tvars
<1>2. CASE \E m \in Messages : Publish(m)
  BY <1>2, PublishStep
<1>3. CASE Proceed
  BY <1>3, ThreadStep, DeliverStep, AnalyzeStep, AckStep, NackStep,
     SettleFailsStep DEF Proceed
<1>4. CASE ConnectionLost \/ Stop \/ ProcessDies \/ Restart
  BY <1>4, FaultStep, ThreadStep
<1> QED
  BY <1>1, <1>2, <1>3, <1>4 DEF Next, Idle

LEMMA Invariance == Spec => []IInv
  BY InitSound, NextSound, PTL DEF Spec

(* Every variable keeps its type, those of the analysis included.           *)
THEOREM ConsumerTypes == Spec => []TypeOK
<1>1. IInv => TypeOK
  BY SameWords DEF IInv, Types, TypeOK, Proved!IInv, Proved!TypeOK, Analysis!TypeOK
<1> QED
  BY <1>1, Invariance, PTL

(* No message is lost or doubled, whatever fails and whenever: through lost *)
(* connections, stops and dead processes each is at exactly one place.      *)
THEOREM NoMessageLost == Spec => []MessagesConserved
<1>1. ASSUME IInv PROVE MessagesConserved
  <2> DEFINE places == <<unpublished, Range(ready), Range(Unacked), acked, dead>>
  <2>1. ASSUME NEW m \in Messages PROVE m \in Range(Unacked) <=> InHand(m)
    BY DEF Unacked, Range, InHand
  <2>2. ASSUME NEW m \in Messages
        PROVE  \E i \in DOMAIN places : \A k \in DOMAIN places :
                 m \in places[k] <=> k = i
    <3>1. DOMAIN places = 1 .. 5
      OBVIOUS
    <3>2. /\ places[1] = unpublished /\ places[2] = Range(ready)
          /\ places[3] = Range(Unacked) /\ places[4] = acked /\ places[5] = dead
      OBVIOUS
    <3>3. OnePlace(m)
      BY <1>1 DEF IInv
    <3> HIDE DEF places
    <3> QED
      BY <2>1, <3>1, <3>2, <3>3 DEF OnePlace
  <2> QED
    BY <1>1, <2>2 DEF IInv, MessagesConserved
<1> QED
  BY <1>1, Invariance, PTL

(* What is acknowledged was notified, and nothing is heard of a malformed   *)
(* message.                                                                 *)
THEOREM NotifiedBeforeAck == Spec => []AckedIsNotified
<1>1. IInv => AckedIsNotified
  BY DEF IInv, Heard, AckedIsNotified
<1> QED
  BY <1>1, Invariance, PTL

(* Every delivery of a message but one is owed to a fault of its own.       *)
THEOREM RedeliveriesNeedFaults == Spec => []RedeliveryNeedsFault
<1>1. IInv => RedeliveryNeedsFault
  BY DEF IInv, Counted, RedeliveryNeedsFault
<1> QED
  BY <1>1, Invariance, PTL

(* However often the consumer starts over, the analysis it runs never       *)
(* approves contact data, and only a fallback contradicts its row.          *)
THEOREM QueuedAnalysesSound ==
  Spec => [](Analysis!ApprovalIsEarned /\ Analysis!OnlyFallbackContradictsRow)
<1>1. IInv => Analysis!ApprovalIsEarned
  BY SameWords
     DEF IInv, Proved!IInv, Proved!TypeOK, Proved!Sound, Proved!Told,
         Analysis!ApprovalIsEarned, Analysis!Approves, Analysis!Range,
         Proved!Verdicts, Proved!Letters
<1>2. IInv => Analysis!OnlyFallbackContradictsRow
  <2>1. IInv => Proved!OnlyFallbackContradictsRow
    BY Proved!SoundRows, MaxRetriesAssumption DEF IInv
  <2>2. Proved!OnlyFallbackContradictsRow => Analysis!OnlyFallbackContradictsRow
    BY SameWords
       DEF Proved!OnlyFallbackContradictsRow, Analysis!OnlyFallbackContradictsRow,
           Proved!Approves, Analysis!Approves
  <2>3. QED
    BY <2>1, <2>2
<1>3. QED
  BY <1>1, <1>2, Invariance, PTL
=============================================================================
