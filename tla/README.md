# Verification of vivia-ai

TLA+ models of the parts of vivia-ai whose correctness depends on the order in
which things happen, or on arithmetic nobody sees: the admission, the waiting line
and the streams of `llm_local_service`, the graph that decides what its language
model is told and the parser of what it writes; the analysis and the queue consumer of
`anomaly_detector_api`; and the scripts that put the models into service. TLC
checks them on small instances, TLAPS proves the central theorems for every instance.

## The system

| Component | State it keeps | Operations | Talks to | What is hard |
|---|---|---|---|---|
| Request queue (`request_queue.py`) | `_active`, `_waiters`, one channel per waiter | `acquire`, `release`, `_abandon` | the use cases | hand-over of a turn to a caller that is leaving; late positions |
| Streaming use cases (`generate_content.py`, `generate_listing.py`) | generator frames, `last_usage` of the shared client | `stream` | queue, llama-server, database, SSE client | disconnects at every suspension; dropped generators closed later |
| Controllers (`llm_controller.py`) | none | the two streaming routes, history | use cases | full-queue check goes stale |
| Stream parser (`listing_stream_parser.py`) | automaton | `feed`, `result` | `generate_content` | fragments cut anywhere |
| Graph (`graph_loader.py`, `graph_inference.py`, `summary_builder.py`) | immutable domain | `load_domain`, `infer`, `build_summary` | `generate_content` | float sums in the order of the draft, blocked themes, ties |
| Admission (`jwt_auth.py`, `premium_gate.py`, `subscription_client.py`) | none | `verify_jwt`, `require_premium` | backend | fail closed; the line moves while the backend is asked |
| Property analysis (`analyze_property.py`) | locals of `execute` | `execute` | text risk, model, database, webhook | failures at each await, retries, lost answers |
| Text risk (`text_risk/`) | none | `evaluate` | llama-server | degradation to rules |
| Queue consumer (`anomaly_queue_consumer.py`) | connection, stop flag, thread | `run`, `stop`, `_on_message` | RabbitMQ, analysis | connection lost under the callback, crash before the acknowledgement, stop from another thread |
| Model and features | loaded model | `predict`, `build_features` | analysis | numerical |
| `clustering_batch_service`, `/detect` | none | publish a message | RabbitMQ | skeletons |
| Deployment scripts (`scripts/`), `model_loader.py` | bucket, MLflow registry, model files of the hosts | upload, register, download, `load_model` | GCS, MLflow | check-then-act between hosts, scripts that die half way |
| `shared/queue_*`, `data_lake/`, `alembic/` | none | helpers, object storage, tables | - | pure I/O |
| `notebooks/` | none | experiments | - | not part of a running service |

Every streaming call is authenticated, asks the backend for the subscription (content
calls), passes `is_full`, then `acquire`; with its turn it infers,
reads `stream_chat` fragment by fragment, saves its row and yields `done`; its
`finally` releases the turn. All this runs on one event loop. The consumer runs
in a thread of its own with its own loop, and runs one analysis per message.

## Modules

| Module | Models | Extends / instantiates |
|---|---|---|
| `Turnstile` | what the queue promises: a bounded first-come first-served line in front of a bounded room | - |
| `RequestQueue` | `request_queue.py` | `Turnstile` (refinement mapping `line <- waiters`, `inside <- TurnHolders`) |
| `RequestQueueProofs` | theorems about it | `RequestQueue` |
| `GenerationService` | admission, controllers' check, both `stream()`s, `stream_chat`, `save`, disconnects | `Queue == INSTANCE RequestQueue` |
| `GenerationServiceProofs` | theorems about it | `GenerationService`, `Line == INSTANCE RequestQueueProofs` |
| `AnalyzeProperty` | `execute`, `_persist`, `_post_result`, text-risk fusion | - |
| `AnalyzePropertyProofs` | theorems about it | `AnalyzeProperty` |
| `AnomalyConsumer` | `AnomalyQueueConsumer`, with the broker as its environment | `Analysis == INSTANCE AnalyzeProperty` |
| `AnomalyConsumerProofs` | theorems about it | `AnomalyConsumer`, `Proved == INSTANCE AnalyzePropertyProofs` |
| `SequenceLemmas` | nothing of the code: induction on sequences, recursive functions, `FlattenSeq` | - |
| `ListingStreamParser` | `listing_stream_parser.py`, with the text of the model of the language as its environment | - |
| `ListingStreamParserProofs` | theorems about it | `ListingStreamParser`, `SequenceLemmas` |
| `GraphInference` | `graph_inference.py`, `summary_builder.py`, the checks of `graph_loader.py` | - |
| `GraphInferenceProofs` | theorems about it | `GraphInference`, `SequenceLemmas` |
| `ModelDeployment` | the four scripts, `model_loader.py`, with bucket and registry as their environment | - |
| `ModelDeploymentProofs` | theorems about it | `ModelDeployment` |
| `MC*` | constants for TLC | the module of the same name |

A definition whose comment starts with "A faulty variant" is not part of any
specification: it is a plausible bug in the definition that follows it, kept to
show that each property notices one (`mutants` in `PROJECT.json`).

### RequestQueue
`active` and `waiters` are the fields of the class; a caller stands for its
channel. `channel[r]` holds the numbers put and not read, 0 (`Granted`) the
turn. `announced[r]` is the last position yielded, `phase[r]` where the caller is.
No block under the lock awaits, so on one event loop each is one action, and the
lock is never contended: `_abandon` followed by its `release` is one action too.
A caller uses the queue once, as one HTTP call does.

### GenerationService
`pc[r]` is the suspension point of the task of call `r`. A call is suspended
sending an event (`showing`, `deciding`, `relaying`, `finishing`, `failing`), reading its
channel (`waiting`) or llama-server (`reading`, `reported`), or in the database (`saving`,
`refreshing`). A disconnect while it reads raises `CancelledError` there and runs
the `finally`s at once. While it sends, the generators are only dropped:
`Finalize` is the finalizer of `stream()` (or of `acquire()`), and `CloseStream`
that of the `stream_chat()` nobody closed. `SendFails` is a title or delta with a lone surrogate, which cannot be
encoded where it is sent, outside every `try`: the response ends there, the client is told nothing (`Broken`), and the
generators are dropped as by a disconnect. `done` cannot fail so: its text was stored first, and what
cannot be sent cannot be stored, which is `Commit`'s failure.
Before a stream there is only the admission: `Arrive` is `verify_jwt`, `CheckPremium` the
question to the backend (`checking` is its await, in which the line may fill up), `Handle`
the validation of the body and the look at `is_full`. A refusal is a plain answer and
ends the call. Fragments that give no event are not
visible. `Relay` bounds neither deltas nor titles: how many events come before the
outcome changes nothing else.

### ListingStreamParser
`document` is what the language model wants to say, `text` how it spells it, with
a preamble and a trailer (stray text, a brace, a second copy of the object).
`Feed(n)` hands the next `n` characters to `ReadChar`, the automaton, in one
fold; `parser` has the fields of the class, an optional value as a sequence of
at most one. `Close` may come at any character: the stream is complete, or
`max_tokens` is reached. A key is one character, since nothing depends on a cut
inside it. `PlainlySpelled` says what the program may expect of the model: no key is written twice in one object,
the two keys of the prompt have strings, what else there is (a string, a number, an array) is
flat, and no escape stands for half a character. Every document of `parser_texts` and `parser_cut_short` is
plainly spelled (`PlainlySpelledAssumption`, which TLC evaluates); those of `parser_surrogates` are not.
`Loads` is `json.loads`: the slice must be the whole object and spelled as JSON allows.

### AnalyzeProperty
`stage[j]` is the await `execute` has reached; `letter[j]` is the payload being posted and
`attempt[j]` its number. The webhook may take a payload whose answer is lost
(`PostUnheard`). The fallback approves nothing (`Approves`), whatever the row says. The text is the three signals the rules distinguish, the LLM an
arbitrary label or none, the forest an arbitrary verdict.

### AnomalyConsumer
`thread` is the place of `run()`. The broker (external) keeps `ready` and hands out
one message at a time; what it waits to hear of is `Unacked`. `conn` is the state of the connection at the
broker: the thread notices a closed one only when it next uses it. `Stop` is
`stop()`, called by the web server's thread at any step. `ProcessDies` is a
crash, or the exit that follows `stop()` without waiting for the daemon thread.
The length of the pause between attempts is real time and is left out.

### GraphInference
One behaviour is one generation: each `Propagate` is one round of the loop of `infer` over the active
sources, `Select` the rest of it, `BuildSummary` what the LLM is told. Edges, blocks,
catalogues and aliases are constants; `WellFormedDomain` is what `load_domain` checks, and two
things the CSVs have and it does not check: no two edges join the same nodes, and the scale
(0.3, 0.6, 0.9 and the prior 0.8) holds for priors and audiences too. Weights are tenths. A score is kept as the exact
sum and the error of its double, and every addition rounds half to even as IEEE 754
does: `Double` gives the errors of the literals 0.3, 0.6, 0.8 and 0.9, and `Spacing` the distance of the
doubles up to 8.0, which takes nine edges into one node to pass. `Best` is the sort
by score, greatest contribution and place in the catalogue. Not in it: the wording, the trace, and
the -10 a block adds to the score of a theme that is disqualified anyway.
Run on the same drafts, the Python code and the model give the same scores, bit by
bit, and the same decisions on all 19 200 of them.

### ModelDeployment
A host runs one script at a time; `at[h]` is the next call it makes to the bucket or to MLflow, and
`Stop` ends it there: a call that raises, a missing file, a killed process. Flags
such as `FORCE_UPLOAD` are a free choice at the start of a script. `versions` is the registry of
one model, by its rules: the latest version of a stage is the one with the highest
number, and a promotion archives what was in the stage. `file[h]` is the model file of a host, which a
download empties before it fills it. `done[h]` (the script that last ended normally) is
history for `BackedUp` and `DownloadedIsComplete`. A behaviour is about the LLM or about the anomaly
model: they share nothing but code.

## Runs

| Run | Instance | Shows |
|---|---|---|
| `queue` | 5 callers, 2 turns, line of 2 | no turn lost or doubled; no idle turn; the line is sound; channels are truthful; positions shrink; waiters are served; the turnstile is implemented with its fairness |
| `service` | 2 content calls and a simulated one, 1 turn, line of 1 | turns match stages; usage is the call's own; `done` means persisted; the outcome closes the stream, and is missing only for a client that left or a piece of text that could not be encoded; every call ends; the queue's fair specification is implemented |
| `analysis` | 1 job, 3 posts | approvals are earned; the answer is what was delivered last; nothing but the fallback, as the last word, contradicts an approved row, and nothing a rejected one; retries are bounded; every analysis ends |
| `consumer` | 3 messages, 2 faults, 1 post per payload | no message lost or doubled; acknowledged means notified; redelivery needs a fault; every message settles; `stop()` ends the thread |
| `parser_texts` | 10 units, values of up to 2, 2 preambles, 3 trailers, fragments of up to 3 | what is shown is true at every moment and complete in the end; the result is what was meant; the title of `done` is the one shown |
| `graph` | 5 amenities, 4 types, 6 homes, lists of up to 3 of 7 names | blocked themes never win; floats never decide against weights; the LLM is told the draft's amenities and no others |
| `deployment` | 2 hosts, 2 contents, 3 versions | one version in Production from the first on; no leftover promoted unless another script promoted the host's own version; a promotion of a host's own version, of the file in the bucket, leaves bucket and registry with the same binary; the traced version is the loaded one |
| `service_persistence_aborts` | violation | a failed save ends the stream with `error` (docstring of `generate_content.py` says it does not) |
| `service_overlap` | violation | two generations open at llama-server with `max_concurrent = 1` |
| `parser_cut_short` | violation | a description shown and then cut short is empty in `done` |
| `parser_surrogates` | violation | half a character is sent |
| `deployment_cut_download` | violation | a truncated file is kept by a download that ends normally |

Bounds. Two callers are enough for a grant that crosses a cancellation, a third
to see the line move behind it, and five fill two turns and two places with one
more to refuse. In the service run the line holds one call, so the third finds it
full at the controller's check, after its question to the backend or, later, at `acquire`.
Two faults allow a lost connection in the analysis of a message that was already redelivered, a
stop during a reconnection, and a crash after a stop. `consumer` has one post per
payload: the retries are `analysis`'s, where one job suffices because jobs share no state.
The documents of `parser_texts` put every pair of units next to each other, and
every unit into a title; every state of the automaton meets every cut. The homes of `graph`
stand on both sides of every limit of `buckets_for`; three amenities, repeated or
not, add up to five edges on one theme, and every kind of edge and block is in the part of the graph it loads.
In `deployment`, two hosts and three versions allow a version left behind by a script
that died, and two registrations that overtake each other after it.

Symmetry (of hosts and contents) is used in `deployment` only: it checks invariants
and action properties, and no definition tells them apart. The parser's runs and
`graph` do not check deadlock: a parser stops when its result has been asked for, a
generation when its summary is built.

## Fairness

- Queue and service: weak fairness of each call's own steps, and strong fairness of
  the end of a chat (`FinishChat` or `FailChat`), which is open after every fragment and
  comes in the end because `max_tokens` bounds the fragments. The event loop
  runs every ready callback; llama-server and the database answer or hit their
  time-outs; a client takes its event or is found disconnected, and the
  event loop finalizes dropped generators. Nobody must arrive or disconnect.
- Analysis: weak fairness of each job's steps; every await has a time-out or
  is local work.
- Consumer: weak fairness of the thread, and strong fairness of `Connect`: a
  broker that is tried again and again is reached in the end. Nothing obliges
  anybody to restart the service, so `EveryMessageSettles` promises
  something only while it runs.

## Proofs

`RequestQueueProofs`, for any set of callers (finite or not) and any
`MaxConcurrent >= 1`, `MaxQueueSize >= 0`: `TypeCorrect`, `NoTurnLost`, `WorkConserving`,
`LineBounded`, `NoGrantLost`, `TurnIsExclusive` (with one turn its holder is alone), `LineMovesForward`
(no caller is shown a position behind an earlier one), and `RefinesTurnstile` (every behaviour of the queue is
one of the turnstile; the safety half of `ImplementsTurnstile`).
None of the invariants is inductive alone: that `active` counts the holders needs
`ChannelsTruthful` (a caller outside the line has exactly one grant to read) and
`LineSound`; that the turnstile's `Enter` is allowed needs `TurnsAccounted`; and
`NoIdleTurn` is what makes handing a turn over without touching `_active`
right. `IInv` is their conjunction. One lemma per action shows that the action keeps
it; lemmas about injective sequences say what appending, removing and taking the
head do to the line and to `Position`; `TurnReturned`, `TurnHandedOver` and `LineLeft`
do the counting shared by `Release` and `Abandon`. `LineMovesForward` needs one conjunct more, `LineForward`:
the numbers in a caller's channel never grow, and none is greater than the last one announced.

`GenerationServiceProofs`, for any calls and limits: `ServiceUsesQueue` (every step of the
service is a step of the queue, or leaves it alone: the queue's theorems hold in
the service), types, `TurnMatchesStage`, `DoneIsPersisted`, `OutcomeClosesStream` (with the failed send as its exception) and `UsageIsOwn`.
`ServiceInv` ties what a client was told and which rows there are to the
stage of its call, and the stage to its phase in the queue; a step of a call touches
only its own, so one lemma goes through the actions and one extends it to all calls.
`UsageStaysOwn` composes: while a stream is open or reported it holds the turn
(`ServiceInv`), the turn has one holder (`TurnIsExclusive`, of the same queue by `SameQueue`), so nobody
else can have written `last_usage` in between.

`AnalyzePropertyProofs`, for any set of jobs and any `MaxRetries >= 1`: types,
`ApprovalIsEarned`, `AnswerIsLastDelivered`, `OnlyFallbackContradictsRow` and `PostsBounded`.
Their strengthening, `Sound`, is stated of one job: it ties the attempt under way to the number of payloads
the webhook can have taken so far (`Posting`), and keeps contact data away from the
forest. Jobs share nothing, so a step needs to be looked at for its own job only
(`OthersUntouched`, `OnlyOwnSoundness`).

`AnomalyConsumerProofs`, for any messages, malformed ones, texts and number of
faults: types, `MessagesConserved`, `AckedIsNotified`, `RedeliveryNeedsFault`. The invariant
adds what conservation needs to survive a fault: a message in the queue was never
delivered more often than there were faults, and what the webhook took in the
callback is on the account of the message in it. The analysis inside is
the one proved before: `SameAnalysis` identifies the two instances, its inductive
invariant is a conjunct of the consumer's, and `AnalysisRenewed` re-establishes
it at each delivery (`QueuedAnalysesSound`).

`ModelDeploymentProofs`, for any hosts, contents and number of versions: types,
`AlwaysOneProduction`, `PromotesNoLeftover`, `BackedUp` and `TraceIsExact`. The invariant adds
`Ready`, what a script has already seen to before its next call and no other host can
undo - the version it registered is there and is still its own file - because no version disappears,
changes its content or loses its stage (`StepKeepsShared`); and that at most one version is in Production, without which
`TraceIsExact` would not follow.

`GraphInferenceProofs`, for any graph `WellFormedDomain` admits, any catalogues and any listing:
`BlockedNeverWins`, and `WinnersFollowTheRanking`: the winners are the first `K` of the themes that may win, in the
order of score, heaviest contribution and place. The invariant says which sources are propagated, that
`blocked` is what they block (`BlockedSoFar`), and that nothing moves under a decision. That `Best` finds
a theme for every place needs no induction: the keys are strictly
ordered because a place is nobody else's, so the number of themes ahead of a theme is an
injection of the themes into as many places, and leaves none empty (`EveryPlaceIsTaken`).

`FloatsNeverDecide` proves `DecisionIsBest`, for any graph with the CSVs' weights: the invariant adds that the first
component of a score is the exact sum of its contributions and that this sum, of threes, sixes, eights and
nines, is 0, 3 or at least 6 tenths (`ScoresAddUp`). So no score is ever at the threshold of 0.5, where an
error would decide (`EligibleIsExact`), and who is ahead in the ranking has no smaller exact score (`BeforeIsBetter`).
That the model compares sums before errors is justified by `ScoresCompareAsDoubles`: an addition changes the error by
88 units of 2^-54 / 10 at most (`PlusError`), so up to 8.0 the errors stay far below a
tenth (`ErrorsStaySmall`) and the order is that of the doubles.
`EveryAmenityIsTold` proves `AmenitiesTold`: every edge of a propagated source
is among the contributions and no other is (`ContributedSoFar`), so there are main
amenities just when one of the listing's evokes a winner, and what is not main is secondary.

`SequenceLemmas` has what the two modules on sequences need. Induction on the natural numbers and on
sequences is stated of sets (`Induction`, `SequenceInduction`), not of predicates, and proved by the least
counterexample; `RecursionExists` and `RecursionStays` say that a recursive function on `0 .. n` is defined
and stays in its type; the others what `FlattenSeq` returns, one piece more at a time.

`ListingStreamParserProofs`, for any documents, texts around them and fragments (`TextAssumption`):
`ParserInvariant` and `ParserTypes` need nothing else. The invariant says that the parser is what it would be
had all the text fed so far come in one piece, and that shown deltas and titles are those
of that piece: `RunConcat` makes feeding two fragments the feeding of their concatenation, and
`RunAdds` says that reading on only adds to what was shown. With the hypothesis that documents are `PlainlySpelled`:
`NothingUntrueIsShown`, `NothingIsHeldBack`, `TheResultIsFaithful` and `TheTitlesAgree`.
The argument follows the text: a unit in a string adds its meaning to the open string wherever
it stands (`UnitIsRead`), hence a value all of its units' (`ValueIsRead`), an array's strings
change nothing (`TokenIsRead`), a member leaves the flag for keys right and adds to what is shown
just what it says (`MemberIsRead`), hence a body of any number of members
(`BodyIsRead`), and with the braces the object (`ObjectIsRead`). Behind the object nothing is shown any
more, and a second copy of it changes neither title nor description (`AfterTrailer`). What has been shown of
a part is a beginning of what the whole shows, since reading on only adds; and what the parser keeps
is what it has shown (`Honest`), which is why the values of the stream serve when
`json.loads` refuses the text. The hypothesis is needed: of a character spelled as two surrogates something untrue is shown
(`parser_surrogates`).

The assumptions are those the modules name (`MaxConcurrentAssumption`, ...).
Every invariant and every safety action property that a passing run checks is stated by a theorem.
Only model-checked: the liveness properties, and with them the fair halves of
`ImplementsTurnstile` and `UsesQueue` (fairness and `ENABLED` are out of the prover's reach); and the violations,
each of which is a counterexample.

## Findings

1. A persistence failure aborts the stream (`service_persistence_aborts`).
2. After a disconnect the next generation can overlap the abandoned HTTP stream
   (`service_overlap`), and so it can after a failed send. `UsageIsOwn` still holds: the abandoned generator never runs on.
3. The warning of `result()` promises the values of the stream; a description whose
   string never closed is empty instead (`parser_cut_short`).
4. An escaped surrogate pair is sent as two lone surrogates, which cannot be
   encoded (`parser_surrogates`). The response raises there and the stream ends with neither
   `done` nor `error`, which `generate_content.py:8` promises for any exception; `OutcomeClosesStream`
   excludes this case and no other.
5. A download that died leaves a truncated file that the next download keeps: the hash
   is logged and never compared (`deployment_cut_download`).

Observations that no run states. `delay` in the consumer is reset only on a
path that follows `stop()`. A `stop()` that comes while the thread connects
closes nothing: `StopEndsThread` names that exception. `TraceIsExact` names another: a
promotion between `load_model` and `_resolve_version` makes an API trace a version it did not
load (against `model_loader.py:13-18`). With two registrations at once the older
version may win: each promotes what it finds without a stage, so the second one may archive the newer version.
The registered hash is that of the local file, which need not be the
one in the bucket (`upload_llm_model.py:8-10` says it is; `resources/README.md:25`
says the file is uploaded if it changed, the script skips it if the object exists):
`BackedUp` promises the same binary only to a host whose file is the bucket's when it promotes
its own version. A file replaced after an upload, a download cut short, an upload from another host in between
and the promotion of another host's version are what it excludes.
After posts of an approved verdict that failed, the row says approved and the webhook is told
`approved=False` by the fallback (`analyze_property.py:100-104`), even if it took the verdict before:
`OnlyFallbackContradictsRow` names that case and allows no other, no later approval and none of a rejected row.
`is_premium` promises to fail closed with `SubscriptionServiceUnavailable`
(`subscription_client.py:17`); an answer of another shape is a 500, which admits nobody either.
Themes whose weights add up to the same may differ by a rounding, and the tie then does not go to the
heavier edge as `graph_inference.py:7-8` says: for a new flat to let with Terraza, Salon
de Eventos and Amueblado, 0.6 + 0.3 + 0.9 loses to 0.6 + 0.6 + 0.3 + 0.3.
A draft without parking spaces that lists `Estacionamiento Techado` gets both the amenity
and the fact "no mencionar estacionamientos". `init.md:84` says a prior must never beat
two real amenities; 0.8 beats 0.3 + 0.3.

## Not modelled

Wording (summary, prompts, reasons), regular expressions, features and the numerical model,
JWT signatures, SQL, table migrations and settings; the reading of the CSV files. The history routes and the catalogue are
plain reads (a page and its total come from two queries, and may disagree by what was written between them). Start-up
builds the parts in order and keeps no state; the waits for llama-server and MLflow there are bounded loops that change nothing.
`clustering_batch_service`, `/detect` and `shared/queue_consumer.py` are skeletons
nothing consumes or instantiates. Real time: pauses, time-outs and heartbeats are nondeterministic choices.
Several replicas: the queue is in memory and documented for one. The notebooks and their outputs, two thirds of the
repository's lines, are experiments: no process runs them, so there is nothing
in them to model; of the services' and scripts' own code, the rest is mostly schemas, docstrings, logging and wiring.

## Plan

1. Done: `Turnstile`, `RequestQueue`, `GenerationService` with its admission, `AnalyzeProperty`,
   `AnomalyConsumer`, `ListingStreamParser`, `GraphInference`, `ModelDeployment`.
2. Done: the theorems above, one for every safety property the passing runs check.
3. Open: the history's pages against concurrent writes.
