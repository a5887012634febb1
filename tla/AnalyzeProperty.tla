--------------------------- MODULE AnalyzeProperty ---------------------------
(****************************************************************************)
(* The anomaly analysis of one listing: usecases/analyze_property.py and    *)
(* the text-risk fusion it starts with.  A job is one call of execute(),    *)
(* made by POST /analyze or by the queue consumer.  Its steps are separated *)
(* by awaits, so jobs interleave, and a step fails where its call can raise.*)
(*                                                                          *)
(* The webhook is external: it may take a payload and its answer be lost.   *)
(****************************************************************************)
EXTENDS Naturals, SequencesExt

CONSTANTS
  Jobs,         (* the calls of execute() *)
  MaxRetries    (* _MAX_RETRIES, the posts of one payload *)

ASSUME MaxRetriesAssumption == MaxRetries \in Nat \ {0}

VARIABLES
  signals,      (* signals[j]: what the rules find in the text of j *)
  stage,        (* stage[j]: the await execute() has reached *)
  verdict,      (* verdict[j]: what the analysis decided *)
  row,          (* row[j]: the verdict in its committed row, if there is one *)
  letter,       (* letter[j]: the payload being posted, or returned *)
  attempt,      (* attempt[j]: the number of the post under way *)
  delivered     (* delivered[j]: the payloads the webhook took, in order *)

jvars == <<signals, stage, verdict, row, letter, attempt, delivered>>

(* RuleSignals: direct contact data, a price, urgent language.              *)
Signals == [contact : BOOLEAN, price : BOOLEAN, urgency : BOOLEAN]

Stages   == {"new", "screening", "predicting", "persisting", "posting",
             "returned", "raised"}
Verdicts == {"approved", "rejected"}
Letters  == Verdicts \cup {"fallback"}
None     == "none"

(* What a payload says of the listing: the fallback is sent with approved = *)
(* False whatever the verdict was.                                          *)
Approves(payload) == payload = "approved"

(* What the LLM says of a text: a label, or nothing (disabled, down, or an  *)
(* answer that is no verdict).                                              *)
Labels == {"fraude", "limpio", None}

(* A faulty variant: contact data is one more soft signal.                  *)
IsFraudTextSoft(sig, label) ==
  \/ label = "fraude"
  \/ label = None /\ sig.price /\ sig.urgency

(* TextRiskService.evaluate: contact data decides alone, the LLM otherwise; *)
(* without the LLM a price and urgency together are needed.                 *)
IsFraudText(sig, label) ==
  \/ sig.contact
  \/ label = "fraude"
  \/ label = None /\ sig.price /\ sig.urgency

Init ==
  /\ signals \in [Jobs -> Signals]
  /\ stage = [j \in Jobs |-> "new"]
  /\ verdict = [j \in Jobs |-> None]
  /\ row = [j \in Jobs |-> None]
  /\ letter = [j \in Jobs |-> None]
  /\ attempt = [j \in Jobs |-> 0]
  /\ delivered = [j \in Jobs |-> <<>>]

Goto(j, s) == stage' = [stage EXCEPT ![j] = s]

(* execute() is called.                                                     *)
Begin(j) ==
  /\ stage[j] = "new"
  /\ Goto(j, "screening")
  /\ UNCHANGED <<signals, verdict, row, letter, attempt, delivered>>

(* evaluate(): a fraudulent text is rejected at once.                       *)
Screen(j) ==
  /\ stage[j] = "screening"
  /\ \E label \in Labels :
       IF IsFraudText(signals[j], label)
       THEN verdict' = [verdict EXCEPT ![j] = "rejected"] /\ Goto(j, "persisting")
       ELSE Goto(j, "predicting") /\ UNCHANGED verdict
  /\ UNCHANGED <<signals, row, letter, attempt, delivered>>

(* The LLM answers JSON of another shape than the client's except clause    *)
(* expects: without contact data the call was made, and its error escapes.  *)
ScreenFails(j) ==
  /\ stage[j] = "screening"
  /\ ~signals[j].contact
  /\ Goto(j, "raised")
  /\ UNCHANGED <<signals, verdict, row, letter, attempt, delivered>>

(* The Isolation Forest, in the thread pool.                                *)
Predict(j) ==
  /\ stage[j] = "predicting"
  /\ \E v \in Verdicts : verdict' = [verdict EXCEPT ![j] = v]
  /\ Goto(j, "persisting")
  /\ UNCHANGED <<signals, row, letter, attempt, delivered>>

PredictFails(j) ==
  /\ stage[j] = "predicting"
  /\ Goto(j, "raised")
  /\ UNCHANGED <<signals, verdict, row, letter, attempt, delivered>>

(* A faulty variant: the row says approved whatever the verdict.            *)
PersistApproved(j) ==
  /\ stage[j] = "persisting"
  /\ row' \in {row, [row EXCEPT ![j] = "approved"]}
  /\ letter' = [letter EXCEPT ![j] = verdict[j]]
  /\ attempt' = [attempt EXCEPT ![j] = 1]
  /\ Goto(j, "posting")
  /\ UNCHANGED <<signals, verdict, delivered>>

(* _persist(): with the row or without it (the error is logged) the result  *)
(* goes to the webhook.                                                     *)
Persist(j) ==
  /\ stage[j] = "persisting"
  /\ row' \in {row, [row EXCEPT ![j] = verdict[j]]}
  /\ letter' = [letter EXCEPT ![j] = verdict[j]]
  /\ attempt' = [attempt EXCEPT ![j] = 1]
  /\ Goto(j, "posting")
  /\ UNCHANGED <<signals, verdict, delivered>>

(* The webhook takes the payload of j.                                      *)
Deliver(j) == delivered' = [delivered EXCEPT ![j] = Append(@, letter[j])]

(* A faulty variant: after the fallback the verdict is answered.            *)
PostAcceptedAnswersVerdict(j) ==
  /\ stage[j] = "posting"
  /\ Deliver(j)
  /\ letter' = [letter EXCEPT ![j] = verdict[j]]
  /\ Goto(j, "returned")
  /\ UNCHANGED <<signals, verdict, row, attempt>>

(* A post answered with 2xx: _post_result and execute return.               *)
PostAccepted(j) ==
  /\ stage[j] = "posting"
  /\ Deliver(j)
  /\ Goto(j, "returned")
  /\ UNCHANGED <<signals, verdict, row, letter, attempt>>

(* Faulty variants: one post too many; the fallback is never given up; lost *)
(* connections are not counted.                                             *)
PostUnheardOnceMore(j) ==
  /\ stage[j] = "posting"
  /\ Deliver(j) \/ UNCHANGED delivered
  /\ \/ /\ attempt[j] <= MaxRetries
        /\ attempt' = [attempt EXCEPT ![j] = @ + 1]
        /\ UNCHANGED <<stage, letter>>
     \/ /\ attempt[j] > MaxRetries
        /\ Goto(j, "raised")
        /\ UNCHANGED <<letter, attempt>>
  /\ UNCHANGED <<signals, verdict, row>>

PostUnheardNoEnd(j) ==
  /\ stage[j] = "posting"
  /\ Deliver(j) \/ UNCHANGED delivered
  /\ \/ /\ attempt[j] < MaxRetries
        /\ attempt' = [attempt EXCEPT ![j] = @ + 1]
        /\ UNCHANGED letter
     \/ /\ attempt[j] = MaxRetries
        /\ letter' = [letter EXCEPT ![j] = "fallback"]
        /\ attempt' = [attempt EXCEPT ![j] = 1]
  /\ UNCHANGED <<signals, stage, verdict, row>>

PostUnheardUncounted(j) ==
  /\ stage[j] = "posting"
  /\ attempt' = [attempt EXCEPT ![j] = (@ % MaxRetries) + 1]
  /\ UNCHANGED <<signals, stage, verdict, row, letter, delivered>>

(* A post that is refused, lost, or whose answer is lost: it is retried     *)
(* after a pause; then the fallback payload is posted instead; when that    *)
(* fails as often, execute raises.                                          *)
PostUnheard(j) ==
  /\ stage[j] = "posting"
  /\ Deliver(j) \/ UNCHANGED delivered
  /\ \/ /\ attempt[j] < MaxRetries
        /\ attempt' = [attempt EXCEPT ![j] = @ + 1]
        /\ UNCHANGED <<stage, letter>>
     \/ /\ attempt[j] = MaxRetries
        /\ letter[j] # "fallback"
        /\ letter' = [letter EXCEPT ![j] = "fallback"]
        /\ attempt' = [attempt EXCEPT ![j] = 1]
        /\ UNCHANGED stage
     \/ /\ attempt[j] = MaxRetries
        /\ letter[j] = "fallback"
        /\ Goto(j, "raised")
        /\ UNCHANGED <<letter, attempt>>
  /\ UNCHANGED <<signals, verdict, row>>

(* One step of a job under way.                                             *)
Step(j) == \/ Screen(j) \/ ScreenFails(j)
           \/ Predict(j) \/ PredictFails(j)
           \/ Persist(j)
           \/ PostAccepted(j) \/ PostUnheard(j)

Ended == {"returned", "raised"}

Quiescent == (\A j \in Jobs : stage[j] \in Ended) /\ UNCHANGED jvars

Next == (\E j \in Jobs : Begin(j) \/ Step(j)) \/ Quiescent

Spec == Init /\ [][Next]_jvars

(* Every await of a job that was begun ends, in time or by its time-out.    *)
FairSpec == Spec /\ \A j \in Jobs : WF_jvars(Step(j))

-----------------------------------------------------------------------------
(* Properties *)

(* Every variable has its type; no post goes beyond the last attempt.       *)
TypeOK ==
  /\ signals \in [Jobs -> Signals]
  /\ stage \in [Jobs -> Stages]
  /\ verdict \in [Jobs -> Verdicts \cup {None}]
  /\ row \in [Jobs -> Verdicts \cup {None}]
  /\ letter \in [Jobs -> Letters \cup {None}]
  /\ attempt \in [Jobs -> 0 .. MaxRetries]
  /\ delivered \in [Jobs -> Seq(Letters)]

(* The webhook never hears an approval of a text with contact data; it is   *)
(* told the verdict, or the fallback, which approves nothing.               *)
ApprovalIsEarned ==
  \A j \in Jobs : \A l \in Range(delivered[j]) :
    /\ Approves(l) => ~signals[j].contact
    /\ l # "fallback" => l = verdict[j]

(* /analyze answers the JSON the webhook was sent last, and that one was    *)
(* taken (docstring of analyze_property in anomaly_controller.py).          *)
AnswerIsLastDelivered ==
  \A j \in Jobs : stage[j] = "returned" =>
    delivered[j] # <<>> /\ Last(delivered[j]) = letter[j]

(* The row may say approved and the webhook be told it is not; but that     *)
(* takes the fallback, behind which nothing takes it back, and a row that   *)
(* says rejected is never answered with an approval.  A job that failed to  *)
(* reach a verdict has no row and told nobody.                              *)
OnlyFallbackContradictsRow ==
  \A j \in Jobs :
    /\ row[j] # None =>
         \A i \in DOMAIN delivered[j] :
           Approves(delivered[j][i]) # Approves(row[j]) =>
             /\ row[j] = "approved" /\ delivered[j][i] = "fallback"
             /\ \A k \in i .. Len(delivered[j]) : ~Approves(delivered[j][k])
    /\ verdict[j] = None => row[j] = None /\ delivered[j] = <<>>

(* The retries are bounded: a job posts each of its two payloads at most    *)
(* MaxRetries times, and never returns to the verdict after the fallback.   *)
PostsBounded ==
  \A j \in Jobs :
    /\ Len(delivered[j]) <= 2 * MaxRetries
    /\ \A i, k \in DOMAIN delivered[j] :
         i < k /\ delivered[j][i] = "fallback" => delivered[j][k] = "fallback"

(* Every analysis that was begun returns or raises.                         *)
EveryAnalysisEnds ==
  \A j \in Jobs : stage[j] = "screening" ~> stage[j] \in Ended
=============================================================================
