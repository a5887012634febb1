------------------------- MODULE AnalyzePropertyProofs -------------------------
(* Theorems about AnalyzeProperty, for any set of jobs and any MaxRetries.  *)
EXTENDS AnalyzeProperty, TLAPS

(* What holds of one job between two steps of it. The counting conjuncts    *)
(* tie the attempt under way to what the webhook can have taken so far.     *)
Posting(j) ==
  /\ verdict[j] # None
  /\ attempt[j] >= 1
  /\ \/ /\ letter[j] = verdict[j]
        /\ Len(delivered[j]) < attempt[j]
        /\ \A i \in DOMAIN delivered[j] : delivered[j][i] = verdict[j]
     \/ /\ letter[j] = "fallback"
        /\ Len(delivered[j]) < MaxRetries + attempt[j]

Told(j) ==
  /\ Len(delivered[j]) <= 2 * MaxRetries
  /\ \A i \in DOMAIN delivered[j] : delivered[j][i] \in {verdict[j], "fallback"}
  /\ \A i, k \in DOMAIN delivered[j] :
       i < k /\ delivered[j][i] = "fallback" => delivered[j][k] = "fallback"

Early == {"new", "screening", "predicting"}

Sound(j) ==
  /\ stage[j] \in Early => verdict[j] = None
  /\ stage[j] = "persisting" =>
       verdict[j] # None /\ row[j] = None /\ delivered[j] = <<>>
  /\ stage[j] = "posting" => Posting(j)
  /\ stage[j] = "returned" =>
       delivered[j] # <<>> /\ delivered[j][Len(delivered[j])] = letter[j]
  /\ signals[j].contact => verdict[j] # "approved" /\ stage[j] # "predicting"
  /\ row[j] \in {None, verdict[j]}
  /\ verdict[j] = None => row[j] = None /\ delivered[j] = <<>>
  /\ Told(j)

IInv == TypeOK /\ \A j \in Jobs : Sound(j)

-----------------------------------------------------------------------------
(* A step of one job leaves every other job as it was.                      *)
LEMMA OthersUntouched ==
  ASSUME TypeOK, NEW j \in Jobs, Begin(j) \/ Step(j), NEW k \in Jobs, k # j
  PROVE  /\ signals'[k] = signals[k] /\ stage'[k] = stage[k]
         /\ verdict'[k] = verdict[k] /\ row'[k] = row[k]
         /\ letter'[k] = letter[k] /\ attempt'[k] = attempt[k]
         /\ delivered'[k] = delivered[k]
<1>1. CASE Begin(j)
  BY <1>1 DEF TypeOK, Begin, Goto
<1>2. CASE Screen(j)
  BY <1>2 DEF TypeOK, Screen, Goto
<1>3. CASE ScreenFails(j)
  BY <1>3 DEF TypeOK, ScreenFails, Goto
<1>4. CASE Predict(j)
  BY <1>4 DEF TypeOK, Predict, Goto
<1>5. CASE PredictFails(j)
  BY <1>5 DEF TypeOK, PredictFails, Goto
<1>6. CASE Persist(j)
  BY <1>6 DEF TypeOK, Persist, Goto
<1>7. CASE PostAccepted(j)
  BY <1>7 DEF TypeOK, PostAccepted, Goto, Deliver
<1>8. CASE PostUnheard(j)
  BY <1>8 DEF TypeOK, PostUnheard, Goto, Deliver
<1> QED
  BY <1>1, <1>2, <1>3, <1>4, <1>5, <1>6, <1>7, <1>8 DEF Step

(* So only the job that steps can lose its soundness.                       *)
LEMMA OnlyOwnSoundness ==
  ASSUME IInv, NEW j \in Jobs, Begin(j) \/ Step(j), TypeOK', Sound(j)'
  PROVE  IInv'
<1> SUFFICES ASSUME NEW k \in Jobs, k # j PROVE Sound(k)'
  BY DEF IInv
<1>1. /\ signals'[k] = signals[k] /\ stage'[k] = stage[k]
      /\ verdict'[k] = verdict[k] /\ row'[k] = row[k]
      /\ letter'[k] = letter[k] /\ attempt'[k] = attempt[k]
      /\ delivered'[k] = delivered[k]
  BY OthersUntouched DEF IInv
<1> QED
  BY <1>1 DEF IInv, Sound, Posting, Told

(* What the webhook has taken, after one payload more.                      *)
LEMMA OneMoreTold ==
  ASSUME NEW told \in Seq(Letters), NEW l \in Letters
  PROVE  /\ Append(told, l) \in Seq(Letters)
         /\ Append(told, l) # <<>>
         /\ Len(Append(told, l)) = Len(told) + 1
         /\ DOMAIN Append(told, l) = 1 .. Len(told) + 1
         /\ DOMAIN told = 1 .. Len(told)
         /\ \A i \in 1 .. Len(told) : Append(told, l)[i] = told[i]
         /\ Append(told, l)[Len(told) + 1] = l
  OBVIOUS

-----------------------------------------------------------------------------
LEMMA InitSound == Init => IInv
<1> SUFFICES ASSUME Init PROVE IInv
  OBVIOUS
<1>1. TypeOK
  BY MaxRetriesAssumption DEF Init, TypeOK, Stages, Verdicts, Letters, None
<1>2. ASSUME NEW j \in Jobs PROVE Sound(j)
  BY MaxRetriesAssumption DEF Init, Sound, Told, Posting, Early, None
<1> QED
  BY <1>1, <1>2 DEF IInv

LEMMA BeginSound ==
  ASSUME IInv, NEW j \in Jobs, Begin(j) PROVE IInv'
<1>1. TypeOK'
  BY DEF IInv, TypeOK, Begin, Goto, Stages
<1>2. stage'[j] = "screening" /\ stage[j] = "new"
  BY DEF IInv, TypeOK, Begin, Goto
<1>3. Sound(j)'
  BY <1>2 DEF IInv, Begin, Sound, Told, Posting, Early
<1> QED
  BY <1>1, <1>3, OnlyOwnSoundness

LEMMA ScreenSound ==
  ASSUME IInv, NEW j \in Jobs, Screen(j) PROVE IInv'
<1>1. TypeOK'
  BY DEF IInv, TypeOK, Screen, Goto, Stages, Verdicts
<1>2. /\ stage[j] = "screening"
      /\ \/ stage'[j] = "persisting" /\ verdict'[j] = "rejected"
         \/ /\ stage'[j] = "predicting" /\ verdict'[j] = verdict[j]
            /\ ~signals[j].contact
  BY DEF IInv, TypeOK, Screen, Goto, IsFraudText
<1>3. Sound(j)'
  BY <1>2 DEF IInv, Screen, Sound, Told, Posting, Early, None
<1> QED
  BY <1>1, <1>3, OnlyOwnSoundness DEF Step

LEMMA ScreenFailsSound ==
  ASSUME IInv, NEW j \in Jobs, ScreenFails(j) PROVE IInv'
<1>1. TypeOK'
  BY DEF IInv, TypeOK, ScreenFails, Goto, Stages
<1>2. stage'[j] = "raised" /\ stage[j] = "screening"
  BY DEF IInv, TypeOK, ScreenFails, Goto
<1>3. Sound(j)'
  BY <1>2 DEF IInv, ScreenFails, Sound, Told, Posting, Early
<1> QED
  BY <1>1, <1>3, OnlyOwnSoundness DEF Step

LEMMA PredictSound ==
  ASSUME IInv, NEW j \in Jobs, Predict(j) PROVE IInv'
<1>1. TypeOK'
  BY DEF IInv, TypeOK, Predict, Goto, Stages, Verdicts
<1>2. /\ stage[j] = "predicting" /\ stage'[j] = "persisting"
      /\ verdict'[j] \in Verdicts
  BY DEF IInv, TypeOK, Predict, Goto
<1>3. Sound(j)'
  BY <1>2 DEF IInv, Predict, Sound, Told, Posting, Early, Verdicts, None
<1> QED
  BY <1>1, <1>3, OnlyOwnSoundness DEF Step

LEMMA PredictFailsSound ==
  ASSUME IInv, NEW j \in Jobs, PredictFails(j) PROVE IInv'
<1>1. TypeOK'
  BY DEF IInv, TypeOK, PredictFails, Goto, Stages
<1>2. stage'[j] = "raised" /\ stage[j] = "predicting"
  BY DEF IInv, TypeOK, PredictFails, Goto
<1>3. Sound(j)'
  BY <1>2 DEF IInv, PredictFails, Sound, Told, Posting, Early
<1> QED
  BY <1>1, <1>3, OnlyOwnSoundness DEF Step

LEMMA PersistSound ==
  ASSUME IInv, NEW j \in Jobs, Persist(j) PROVE IInv'
<1>1. /\ stage[j] = "persisting"
      /\ verdict[j] \in Verdicts /\ row[j] = None /\ delivered[j] = <<>>
  BY DEF IInv, TypeOK, Sound, Persist
<1>2. TypeOK'
  <2>1. row' \in [Jobs -> Verdicts \cup {None}]
    BY <1>1 DEF IInv, TypeOK, Persist
  <2>2. /\ letter' \in [Jobs -> Letters \cup {None}]
        /\ attempt' \in [Jobs -> 0 .. MaxRetries]
        /\ stage' \in [Jobs -> Stages]
    BY <1>1, MaxRetriesAssumption
       DEF IInv, TypeOK, Persist, Goto, Stages, Letters
  <2> QED
    BY <2>1, <2>2 DEF IInv, TypeOK, Persist
<1>3. /\ stage'[j] = "posting" /\ letter'[j] = verdict[j] /\ attempt'[j] = 1
      /\ row'[j] \in {None, verdict[j]}
  BY <1>1 DEF IInv, TypeOK, Persist, Goto
<1>4. Sound(j)'
  BY <1>1, <1>3, MaxRetriesAssumption
     DEF IInv, Persist, Sound, Told, Posting, Early, Verdicts, None
<1> QED
  BY <1>2, <1>4, OnlyOwnSoundness DEF Step

-----------------------------------------------------------------------------
(* The webhook takes the payload being posted: verdicts come before the     *)
(* fallbacks, and each of the two is posted at most MaxRetries times.       *)
LEMMA PayloadTaken ==
  ASSUME IInv, NEW j \in Jobs, stage[j] = "posting", Deliver(j), verdict' = verdict
  PROVE  /\ delivered' \in [Jobs -> Seq(Letters)]
         /\ Told(j)'
         /\ delivered'[j] # <<>>
         /\ delivered'[j][Len(delivered'[j])] = letter[j]
         /\ Len(delivered'[j]) = Len(delivered[j]) + 1
         /\ letter[j] = verdict[j] =>
              \A i \in DOMAIN delivered'[j] : delivered'[j][i] = verdict[j]
<1> DEFINE told == delivered[j]
<1> DEFINE n == Len(told)
<1>1. /\ Posting(j) /\ Told(j) /\ TypeOK
      /\ told \in Seq(Letters) /\ letter[j] \in Letters /\ n \in Nat
      /\ verdict[j] \in Verdicts
      /\ attempt[j] \in 0 .. MaxRetries
  BY DEF IInv, Sound, TypeOK, Posting, Letters
<1>2. delivered'[j] = Append(told, letter[j])
  BY <1>1 DEF Deliver, TypeOK
<1>3. delivered' \in [Jobs -> Seq(Letters)]
  BY <1>1, OneMoreTold DEF Deliver, TypeOK
<1>4. /\ delivered'[j] # <<>> /\ Len(delivered'[j]) = n + 1
      /\ DOMAIN delivered'[j] = 1 .. n + 1 /\ DOMAIN told = 1 .. n
      /\ \A i \in 1 .. n : delivered'[j][i] = told[i]
      /\ delivered'[j][n + 1] = letter[j]
  BY <1>1, <1>2, OneMoreTold
<1>5. Told(j)'
  <2>1. n + 1 <= 2 * MaxRetries
    BY <1>1, MaxRetriesAssumption DEF Posting
  <2>2. ASSUME NEW i \in 1 .. n + 1
        PROVE  delivered'[j][i] \in {verdict[j], "fallback"}
    <3>1. CASE i \in 1 .. n
      BY <1>1, <1>4, <3>1 DEF Told
    <3>2. CASE i = n + 1
      BY <1>1, <1>4, <3>2 DEF Posting
    <3> QED
      BY <1>1, <3>1, <3>2
  <2>3. ASSUME NEW i \in 1 .. n + 1, NEW k \in 1 .. n + 1,
               i < k, delivered'[j][i] = "fallback"
        PROVE  delivered'[j][k] = "fallback"
    <3>1. i \in 1 .. n /\ told[i] = "fallback"
      BY <1>1, <1>4, <2>3
    <3>2. CASE k \in 1 .. n
      BY <1>4, <2>3, <3>1, <3>2, <1>1 DEF Told
    <3>3. CASE k = n + 1
      BY <1>1, <1>4, <3>1, <3>3 DEF Posting, Verdicts
    <3> QED
      BY <1>1, <3>2, <3>3
  <2> QED
    BY <1>4, <2>1, <2>2, <2>3 DEF Told
<1>6. letter[j] = verdict[j] =>
        \A i \in DOMAIN delivered'[j] : delivered'[j][i] = verdict[j]
  BY <1>1, <1>4 DEF Posting, Verdicts
<1> QED
  BY <1>3, <1>4, <1>5, <1>6

LEMMA PostAcceptedSound ==
  ASSUME IInv, NEW j \in Jobs, PostAccepted(j) PROVE IInv'
<1>1. /\ stage[j] = "posting" /\ Deliver(j) /\ stage'[j] = "returned"
      /\ UNCHANGED <<signals, verdict, row, letter, attempt>>
  BY DEF IInv, TypeOK, PostAccepted, Goto
<1>2. /\ delivered' \in [Jobs -> Seq(Letters)] /\ Told(j)' /\ delivered'[j] # <<>>
      /\ delivered'[j][Len(delivered'[j])] = letter[j]
  BY <1>1, PayloadTaken
<1>3. TypeOK'
  BY <1>1, <1>2 DEF IInv, TypeOK, PostAccepted, Goto, Stages
<1>4. Sound(j)'
  BY <1>1, <1>2 DEF IInv, Sound, Posting, Early
<1> QED
  BY <1>3, <1>4, OnlyOwnSoundness DEF Step

LEMMA PostUnheardSound ==
  ASSUME IInv, NEW j \in Jobs, PostUnheard(j) PROVE IInv'
<1>1. /\ stage[j] = "posting" /\ Posting(j)
      /\ UNCHANGED <<signals, verdict, row>>
      /\ TypeOK /\ attempt[j] \in 0 .. MaxRetries /\ verdict[j] \in Verdicts
      /\ Len(delivered[j]) \in Nat
  BY DEF IInv, TypeOK, Sound, PostUnheard, Posting
<1>2. /\ delivered' \in [Jobs -> Seq(Letters)] /\ Told(j)'
      /\ Len(delivered'[j]) \in {Len(delivered[j]), Len(delivered[j]) + 1}
      /\ letter[j] = verdict[j] =>
           \A i \in DOMAIN delivered'[j] : delivered'[j][i] = verdict[j]
  <2>1. CASE Deliver(j)
    BY <1>1, <2>1, PayloadTaken
  <2>2. CASE UNCHANGED delivered
    BY <1>1, <2>2 DEF IInv, TypeOK, Sound, Told, Posting, Verdicts
  <2> QED
    BY <2>1, <2>2 DEF PostUnheard
<1>3. \/ /\ attempt[j] < MaxRetries /\ attempt'[j] = attempt[j] + 1
         /\ attempt' \in [Jobs -> 0 .. MaxRetries]
         /\ UNCHANGED <<stage, letter>>
      \/ /\ attempt[j] = MaxRetries /\ letter[j] # "fallback"
         /\ letter'[j] = "fallback" /\ attempt'[j] = 1
         /\ attempt' \in [Jobs -> 0 .. MaxRetries]
         /\ letter' \in [Jobs -> Letters \cup {None}]
         /\ UNCHANGED stage
      \/ /\ stage'[j] = "raised" /\ stage' \in [Jobs -> Stages]
         /\ UNCHANGED <<letter, attempt>>
  <2>1. CASE /\ attempt[j] < MaxRetries
             /\ attempt' = [attempt EXCEPT ![j] = @ + 1]
             /\ UNCHANGED <<stage, letter>>
    BY <1>1, <2>1, MaxRetriesAssumption DEF TypeOK
  <2>2. CASE /\ attempt[j] = MaxRetries
             /\ letter[j] # "fallback"
             /\ letter' = [letter EXCEPT ![j] = "fallback"]
             /\ attempt' = [attempt EXCEPT ![j] = 1]
             /\ UNCHANGED stage
    <3>1. attempt' \in [Jobs -> 0 .. MaxRetries] /\ attempt'[j] = 1
      BY <1>1, <2>2, MaxRetriesAssumption DEF TypeOK
    <3>2. letter' \in [Jobs -> Letters \cup {None}] /\ letter'[j] = "fallback"
      BY <1>1, <2>2 DEF TypeOK, Letters
    <3> QED
      BY <2>2, <3>1, <3>2
  <2>3. CASE Goto(j, "raised") /\ UNCHANGED <<letter, attempt>>
    BY <1>1, <2>3 DEF TypeOK, Goto, Stages
  <2> QED
    BY <2>1, <2>2, <2>3 DEF PostUnheard
<1>4. TypeOK'
  BY <1>1, <1>2, <1>3 DEF TypeOK
<1>5. stage'[j] = "posting" => Posting(j)'
  BY <1>1, <1>2, <1>3, MaxRetriesAssumption DEF Posting, Verdicts
<1>6. stage'[j] \in {"posting", "raised"}
  BY <1>1, <1>3
<1>7. Sound(j)'
  <2>1. verdict'[j] # None
    BY <1>1 DEF Posting
  <2> QED
    BY <1>1, <1>2, <1>5, <1>6, <2>1 DEF IInv, Sound, Early
<1> QED
  BY <1>4, <1>7, OnlyOwnSoundness DEF Step

-----------------------------------------------------------------------------
LEMMA NextSound == IInv /\ [Next]_jvars => IInv'
<1> SUFFICES ASSUME IInv, [Next]_jvars PROVE IInv'
  OBVIOUS
<1>1. CASE UNCHANGED jvars
  BY <1>1 DEF IInv, TypeOK, Sound, Told, Posting, jvars
<1>2. ASSUME NEW j \in Jobs, Begin(j) \/ Step(j) PROVE IInv'
  BY <1>2, BeginSound, ScreenSound, ScreenFailsSound, PredictSound,
     PredictFailsSound, PersistSound, PostAcceptedSound, PostUnheardSound
     DEF Step
<1> QED
  BY <1>1, <1>2 DEF Next, Quiescent

(* The strengthening of all the invariants below.                           *)
THEOREM AnalysisSound == Spec => []IInv
  BY InitSound, NextSound, PTL DEF Spec

(* The types, and with them the bound on the attempts of a post.            *)
THEOREM AnalysisTypes == Spec => []TypeOK
<1>1. IInv => TypeOK
  BY DEF IInv
<1> QED
  BY <1>1, AnalysisSound, PTL

(* However the LLM, the model, the database and the webhook fail, the       *)
(* webhook is never told to approve a text with contact data, nor anything  *)
(* but the verdict or the fallback.                                         *)
THEOREM ApprovalsEarned == Spec => []ApprovalIsEarned
<1>1. IInv => ApprovalIsEarned
  BY DEF IInv, TypeOK, Sound, Told, ApprovalIsEarned, Approves, Range, Verdicts,
         Letters
<1> QED
  BY <1>1, AnalysisSound, PTL

(* What /analyze answers is the last payload the webhook took.              *)
THEOREM AnswersDelivered == Spec => []AnswerIsLastDelivered
<1>1. IInv => AnswerIsLastDelivered
  BY DEF IInv, Sound, AnswerIsLastDelivered, Last
<1> QED
  BY <1>1, AnalysisSound, PTL

(* Why: a row holds the verdict, and what was taken is it or the fallback.  *)
LEMMA SoundRows == IInv => OnlyFallbackContradictsRow
<1> SUFFICES ASSUME IInv, NEW j \in Jobs
             PROVE  /\ row[j] # None =>
                         \A i \in DOMAIN delivered[j] :
                           Approves(delivered[j][i]) # Approves(row[j]) =>
                             /\ row[j] = "approved" /\ delivered[j][i] = "fallback"
                             /\ \A k \in i .. Len(delivered[j]) :
                                  ~Approves(delivered[j][k])
                    /\ verdict[j] = None => row[j] = None /\ delivered[j] = <<>>
  BY DEF OnlyFallbackContradictsRow
<1>1. Sound(j) /\ delivered[j] \in Seq(Letters) /\ row[j] \in Verdicts \cup {None}
  BY DEF IInv, TypeOK
<1>2. ASSUME row[j] # None, NEW i \in DOMAIN delivered[j],
             Approves(delivered[j][i]) # Approves(row[j])
      PROVE  /\ row[j] = "approved" /\ delivered[j][i] = "fallback"
             /\ \A k \in i .. Len(delivered[j]) : ~Approves(delivered[j][k])
  <2>1. row[j] = verdict[j] /\ delivered[j][i] \in {verdict[j], "fallback"}
    BY <1>1, <1>2 DEF Sound, Told
  <2>2. delivered[j][i] = "fallback" /\ row[j] = "approved"
    BY <1>1, <1>2, <2>1 DEF Approves, Verdicts
  <2>3. ASSUME NEW k \in i .. Len(delivered[j])
        PROVE  delivered[j][k] = "fallback"
    <3>1. DOMAIN delivered[j] = 1 .. Len(delivered[j]) /\ i \in Nat
      BY <1>1, <1>2
    <3>2. k \in DOMAIN delivered[j] /\ (i < k \/ i = k)
      BY <1>2, <2>3, <3>1
    <3>3. QED
      BY <1>1, <1>2, <2>2, <3>2 DEF Sound, Told
  <2> QED
    BY <2>2, <2>3 DEF Approves
<1> QED
  BY <1>1, <1>2 DEF Sound

(* Whatever fails, the webhook is told other than the committed row only by *)
(* the fallback, which turns an approval down for good; never is a rejected *)
(* row answered with an approval.                                           *)
THEOREM OnlyFallbackContradicts == Spec => []OnlyFallbackContradictsRow
  BY SoundRows, AnalysisSound, PTL

(* At most 2 * MaxRetries payloads are taken, no verdict behind a fallback. *)
THEOREM PostsAreBounded == Spec => []PostsBounded
<1>1. IInv => PostsBounded
  BY DEF IInv, Sound, Told, PostsBounded
<1> QED
  BY <1>1, AnalysisSound, PTL
=============================================================================
