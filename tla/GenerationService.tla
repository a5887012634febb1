--------------------------- MODULE GenerationService ---------------------------
(****************************************************************************)
(* The streaming generations of llm_local_service: what one HTTP call does  *)
(* from its authentication to the end of its SSE stream, on the event loop  *)
(* it shares with all the others.                                           *)
(*                                                                          *)
(* Content requests run generate_content.py (graph, llama-server, database);*)
(* the others run generate_listing.py (simulated client) and need no        *)
(* subscription.  Both wait in the one RequestQueue of main.py.             *)
(*                                                                          *)
(* An action is the code between two points where the task can be suspended:*)
(* the sends of the SSE events (the generators wait at their yield), the    *)
(* reads of a channel or of llama-server, the two database round trips, and *)
(* the question to the backend whether the user is premium.                 *)
(* A disconnect cancels the task at such a point.  At a read or a round trip*)
(* the CancelledError runs the finally blocks; at a send the generators are *)
(* merely dropped, and the loop's async-generator finalizers close them one *)
(* by one, later.  So they are when an event cannot be encoded.             *)
(****************************************************************************)
EXTENDS Naturals, FiniteSets, Sequences

CONSTANTS
  Requests,         (* the HTTP calls *)
  ContentRequests,  (* those to POST /contents/generations *)
  MaxConcurrent,    (* settings.llm_max_concurrent *)
  MaxQueueSize,     (* settings.llm_max_queue_size *)
  None              (* no usage reported *)

ASSUME KindAssumption          == ContentRequests \subseteq Requests
ASSUME MaxConcurrentAssumption == MaxConcurrent \in Nat \ {0}
ASSUME MaxQueueSizeAssumption  == MaxQueueSize \in Nat

VARIABLES
  active, waiters, channel, announced, phase,   (* the shared RequestQueue *)
  pc,         (* pc[r]: where the task of r is suspended *)
  told,       (* told[r]: the last thing sent to r's client, or why nothing is *)
  streams,    (* the calls with a stream_chat() of llama-server not closed *)
  lastUsage,  (* LlamaServerHttpClient.last_usage: whose usage it is *)
  usageRead,  (* usageRead[r]: the usage r persists, while it has it *)
  rows        (* the calls with a committed row in llm_generations *)

qvars == <<active, waiters, channel, announced, phase>>
svars == <<pc, told, streams, lastUsage, usageRead, rows>>
vars  == <<qvars, svars>>

Queue == INSTANCE RequestQueue

(* Suspended while an event is on its way to the client.                    *)
Sending == {"showing", "deciding", "relaying", "finishing", "failing"}

(* Suspended in stream_chat(), before and after the chunk with the usage.   *)
Chatting == {"reading", "reported"}

Stages == Sending \cup Chatting \cup
          {"new", "checking", "admitted", "waiting", "saving", "refreshing",
           "closing", "ended"}

(* The plain answers of a call that gets no stream, and the SSE events.     *)
Refusals == {"401", "403", "422", "500", "503"}
Outcomes == {"done", "error"}
Events   == {"queued", "decision", "title", "delta"} \cup Outcomes
Nothing  == "nothing"

(* Nothing is sent any more: the client left, or a send failed.             *)
Gone   == "gone"
Broken == "broken"
Lost   == {Gone, Broken}

Unread == "unread"

-----------------------------------------------------------------------------
Init ==
  /\ Queue!Init
  /\ pc = [r \in Requests |-> "new"]
  /\ told = [r \in Requests |-> Nothing]
  /\ streams = {}
  /\ lastUsage = None
  /\ usageRead = [r \in Requests |-> Unread]
  /\ rows = {}

Goto(r, stage) == pc' = [pc EXCEPT ![r] = stage]

Yield(r, event, stage) ==
  /\ told' = [told EXCEPT ![r] = event]
  /\ Goto(r, stage)

Refuse(r, status) == status \in Refusals /\ Yield(r, status, "ended")

(* The fields of the body are validated, and the handler looks at the line: *)
(* 503 while it is full, else the stream is opened.                         *)
Handle(r) ==
  \/ Refuse(r, "422")
  \/ Queue!IsFull /\ Refuse(r, "503")
  \/ ~Queue!IsFull /\ Goto(r, "admitted") /\ UNCHANGED told

(* A body that is no JSON; verify_jwt().  The simulated route asks for      *)
(* nothing else.                                                            *)
Arrive(r) ==
  /\ pc[r] = "new"
  /\ \/ \E status \in {"401", "422"} : Refuse(r, status)
     \/ r \in ContentRequests /\ Goto(r, "checking") /\ UNCHANGED told
     \/ r \notin ContentRequests /\ Handle(r)
  /\ UNCHANGED <<qvars, streams, lastUsage, usageRead, rows>>

(* is_premium(): no answer of the backend, or none with status 200; one of  *)
(* another shape, which nobody catches; or what the subscription is.        *)
Subscriptions == {"unavailable", "malformed", "inactive", "active"}

(* require_premium()                                                        *)
CheckPremium(r) ==
  /\ pc[r] = "checking"
  /\ \E subscription \in Subscriptions :
       \/ subscription = "unavailable" /\ Refuse(r, "503")
       \/ subscription = "malformed" /\ Refuse(r, "500")
       \/ subscription = "inactive" /\ Refuse(r, "403")
       \/ subscription = "active" /\ Handle(r)
  /\ UNCHANGED <<qvars, streams, lastUsage, usageRead, rows>>

(* A faulty variant: stream_chat() does not forget the last usage.          *)
GenerateKeepsUsage(r) ==
  /\ \/ /\ r \in ContentRequests
        /\ Goto(r, "reading")
        /\ streams' = streams \cup {r}
        /\ UNCHANGED told
     \/ /\ r \in ContentRequests
        /\ Yield(r, "error", "failing")
        /\ UNCHANGED streams
     \/ /\ r \notin ContentRequests
        /\ Yield(r, "decision", "deciding")
        /\ UNCHANGED streams
  /\ UNCHANGED <<lastUsage, usageRead, rows>>

(* stream() with the turn taken, up to its next suspension.  Inference and  *)
(* summary are synchronous and may raise; stream_chat() forgets the usage   *)
(* of the generation before it and opens its HTTP stream.                   *)
Generate(r) ==
  /\ \/ /\ r \in ContentRequests
        /\ Goto(r, "reading")
        /\ streams' = streams \cup {r}
        /\ lastUsage' = None
        /\ UNCHANGED told
     \/ /\ r \in ContentRequests
        /\ Yield(r, "error", "failing")
        /\ UNCHANGED <<streams, lastUsage>>
     \/ /\ r \notin ContentRequests
        /\ Yield(r, "decision", "deciding")
        /\ UNCHANGED <<streams, lastUsage>>
  /\ UNCHANGED <<usageRead, rows>>

(* stream() starts: a free turn, a place in line, or QueueFullError because *)
(* the line filled up since the controller looked.                          *)
Start(r) ==
  /\ pc[r] = "admitted"
  /\ \/ Queue!Take(r) /\ Generate(r)
     \/ /\ \/ Queue!Join(r) /\ Yield(r, "queued", "showing")
           \/ Queue!Reject(r) /\ Yield(r, "error", "failing")
        /\ UNCHANGED <<streams, lastUsage, usageRead, rows>>

(* The channel delivers: another position to show, or the turn.             *)
Wake(r) ==
  /\ pc[r] = "waiting"
  /\ \/ Queue!TakeGranted(r) /\ Generate(r)
     \/ /\ Queue!Advance(r)
        /\ Yield(r, "queued", "showing")
        /\ UNCHANGED <<streams, lastUsage, usageRead, rows>>

(* The finally of stream(): release, if the turn was acquired.  The frame   *)
(* goes, and with it the usage it read.                                     *)
ReleaseIfAcquired(r) ==
  /\ \/ phase[r] = "holding" /\ Queue!Release(r)
     \/ phase[r] # "holding" /\ UNCHANGED qvars
  /\ usageRead' = [usageRead EXCEPT ![r] = Unread]

(* The client took the event: the generator runs on from its yield.         *)
Sent(r) ==
  /\ pc[r] \in Sending
  /\ told[r] \notin Lost
  /\ \/ /\ pc[r] = "showing" /\ Goto(r, "waiting")
        /\ UNCHANGED <<qvars, usageRead>>
     \/ /\ pc[r] \in {"deciding", "relaying"} /\ Goto(r, "reading")
        /\ UNCHANGED <<qvars, usageRead>>
     \/ /\ pc[r] \in {"finishing", "failing"} /\ Goto(r, "ended")
        /\ ReleaseIfAcquired(r)
  /\ UNCHANGED <<told, streams, lastUsage, rows>>

(* The event holds half a character, as the parser makes of an escaped      *)
(* surrogate pair.  json.dumps keeps it, the response cannot encode it, and *)
(* its exception drops the generators, which hear nothing of it.  Only the  *)
(* text of the model has such halves, and done has none: asyncpg could not  *)
(* have encoded them for the row either.                                    *)
SendFails(r) ==
  /\ pc[r] = "relaying"
  /\ r \in ContentRequests
  /\ told[r] \notin Lost
  /\ told' = [told EXCEPT ![r] = Broken]
  /\ UNCHANGED <<qvars, pc, streams, lastUsage, usageRead, rows>>

(* A fragment that completes the title or grows the description.  How many  *)
(* there are is bounded by max_tokens; the simulated client has no title.   *)
Relay(r) ==
  /\ pc[r] = "reading"
  /\ \/ Yield(r, "delta", "relaying")
     \/ r \in ContentRequests /\ Yield(r, "title", "relaying")
  /\ UNCHANGED <<qvars, streams, lastUsage, usageRead, rows>>

(* The last chunk of llama-server, the only one that carries the usage; the *)
(* server may leave it out.                                                 *)
ReportUsage(r) ==
  /\ pc[r] = "reading"
  /\ r \in ContentRequests
  /\ lastUsage' = r
  /\ Goto(r, "reported")
  /\ UNCHANGED <<qvars, told, streams, usageRead, rows>>

(* A faulty variant: simulated generations are persisted too.               *)
FinishChatSavesAll(r) ==
  /\ pc[r] \in Chatting
  /\ streams' = streams \ {r}
  /\ usageRead' = [usageRead EXCEPT ![r] = lastUsage]
  /\ Goto(r, "saving")
  /\ UNCHANGED <<qvars, told, lastUsage, rows>>

(* The stream of the model ends.  A content generation reads last_usage and *)
(* goes to the database; a simulated one is done.                           *)
FinishChat(r) ==
  /\ pc[r] \in Chatting
  /\ streams' = streams \ {r}
  /\ \/ /\ r \in ContentRequests
        /\ usageRead' = [usageRead EXCEPT ![r] = lastUsage]
        /\ Goto(r, "saving")
        /\ UNCHANGED told
     \/ /\ r \notin ContentRequests
        /\ Yield(r, "done", "finishing")
        /\ UNCHANGED usageRead
  /\ UNCHANGED <<qvars, lastUsage, rows>>

(* llama-server is unreachable, times out, or answers what is no chunk: the *)
(* HTTP stream is closed on the way to stream()'s except.                   *)
FailChat(r) ==
  /\ pc[r] \in Chatting
  /\ r \in ContentRequests
  /\ streams' = streams \ {r}
  /\ Yield(r, "error", "failing")
  /\ UNCHANGED <<qvars, lastUsage, usageRead, rows>>

(* Faulty variants: a failed commit is only logged; it is reported, and the *)
(* generation goes on.                                                      *)
CommitLogsFailure(r) ==
  /\ pc[r] = "saving"
  /\ \/ rows' = rows \cup {r} /\ Goto(r, "refreshing") /\ UNCHANGED told
     \/ Yield(r, "done", "finishing") /\ UNCHANGED rows
  /\ UNCHANGED <<qvars, streams, lastUsage, usageRead>>

CommitGoesOn(r) ==
  /\ pc[r] = "saving"
  /\ \/ rows' = rows \cup {r} /\ Goto(r, "refreshing") /\ UNCHANGED told
     \/ Yield(r, "error", "refreshing") /\ UNCHANGED rows
  /\ UNCHANGED <<qvars, streams, lastUsage, usageRead>>

(* save(): the commit succeeds or fails ...                                 *)
Commit(r) ==
  /\ pc[r] = "saving"
  /\ \/ rows' = rows \cup {r} /\ Goto(r, "refreshing") /\ UNCHANGED told
     \/ Yield(r, "error", "failing") /\ UNCHANGED rows
  /\ UNCHANGED <<qvars, streams, lastUsage, usageRead>>

(* ... and so does the re-read of the row that follows it.                  *)
Refresh(r) ==
  /\ pc[r] = "refreshing"
  /\ \/ Yield(r, "done", "finishing")
     \/ Yield(r, "error", "failing")
  /\ UNCHANGED <<qvars, streams, lastUsage, usageRead, rows>>

(* The client disconnects and the task is cancelled where it is suspended.  *)
(* A commit under way may or may not reach the database.                    *)
Disconnect(r) ==
  /\ pc[r] \notin {"new", "checking", "ended", "closing"}
  /\ told[r] \notin Lost
  /\ told' = [told EXCEPT ![r] = Gone]
  /\ \/ /\ pc[r] \in Sending
        /\ UNCHANGED <<qvars, pc, streams, usageRead, rows>>
     \/ /\ pc[r] \notin Sending
        /\ Goto(r, "ended")
        /\ streams' = streams \ {r}
        /\ usageRead' = [usageRead EXCEPT ![r] = Unread]
        /\ \/ pc[r] = "admitted" /\ UNCHANGED qvars
           \/ pc[r] = "waiting" /\ Queue!Abandon(r)
           \/ pc[r] \in Chatting \cup {"saving", "refreshing"} /\ Queue!Release(r)
        /\ \/ UNCHANGED rows
           \/ pc[r] = "saving" /\ rows' = rows \cup {r}
  /\ UNCHANGED lastUsage

(* Faulty variants: a dropped stream() keeps its turn; it keeps its place.  *)
FinalizeKeepsTurn(r) ==
  /\ pc[r] \in Sending
  /\ told[r] \in Lost
  /\ \/ pc[r] = "showing" /\ Queue!Abandon(r)
     \/ pc[r] # "showing" /\ UNCHANGED qvars
  /\ Goto(r, IF r \in streams THEN "closing" ELSE "ended")
  /\ UNCHANGED <<told, streams, lastUsage, usageRead, rows>>

FinalizeKeepsPlace(r) ==
  /\ pc[r] \in Sending
  /\ told[r] \in Lost
  /\ \/ pc[r] = "showing" /\ UNCHANGED <<qvars, usageRead>>
     \/ pc[r] # "showing" /\ ReleaseIfAcquired(r)
  /\ Goto(r, IF r \in streams THEN "closing" ELSE "ended")
  /\ UNCHANGED <<told, streams, lastUsage, rows>>

(* The finalizer of the dropped stream() or, before its turn, of acquire(). *)
(* A stream_chat() that is not exhausted is left to a finalizer of its own. *)
Finalize(r) ==
  /\ pc[r] \in Sending
  /\ told[r] \in Lost
  /\ \/ pc[r] = "showing" /\ Queue!Abandon(r) /\ UNCHANGED usageRead
     \/ pc[r] # "showing" /\ ReleaseIfAcquired(r)
  /\ Goto(r, IF r \in streams THEN "closing" ELSE "ended")
  /\ UNCHANGED <<told, streams, lastUsage, rows>>

(* The finalizer of the dropped stream_chat(): its HTTP stream is closed.   *)
CloseStream(r) ==
  /\ pc[r] = "closing"
  /\ streams' = streams \ {r}
  /\ Goto(r, "ended")
  /\ UNCHANGED <<qvars, told, lastUsage, usageRead, rows>>

Quiescent ==
  /\ \A r \in Requests : pc[r] = "ended"
  /\ UNCHANGED vars

(* What the service does once it is asked and not abandoned.                *)
Work(r) ==
  \/ CheckPremium(r) \/ Start(r) \/ Wake(r) \/ Sent(r) \/ SendFails(r)
  \/ Relay(r) \/ ReportUsage(r) \/ FinishChat(r) \/ FailChat(r)
  \/ Commit(r) \/ Refresh(r)
  \/ Finalize(r) \/ CloseStream(r)

Next ==
  \/ \E r \in Requests : Arrive(r) \/ Work(r) \/ Disconnect(r)
  \/ Quiescent

Spec == Init /\ [][Next]_vars

(* Every task that can run does; clients take their events or disconnect;   *)
(* llama-server, the backend and the database answer or time out.  Every    *)
(* generation is bounded by max_tokens, so its stream ends however many     *)
(* fragments it yields.  Nobody has to arrive or to disconnect.             *)
Fairness ==
  \A r \in Requests : /\ WF_vars(Work(r))
                      /\ SF_vars(FinishChat(r) \/ FailChat(r))

FairSpec == Spec /\ Fairness

-----------------------------------------------------------------------------
(* Properties *)

(* Every variable has its type: only content calls reach llama-server and    *)
(* the database.                                                            *)
TypeOK ==
  /\ pc \in [Requests -> Stages]
  /\ told \in [Requests -> Events \cup Refusals \cup {Nothing} \cup Lost]
  /\ streams \subseteq ContentRequests
  /\ lastUsage \in ContentRequests \cup {None}
  /\ usageRead \in [Requests -> ContentRequests \cup {None, Unread}]
  /\ rows \subseteq ContentRequests

(* The stages at which stream() owns a turn, and those of a call in line.   *)
Working  == Chatting \cup {"deciding", "relaying", "saving", "refreshing", "finishing"}
Queueing == {"showing", "waiting"}

(* stream() owns a turn while it works: it never generates without one, and *)
(* however it is left - done, failed, cancelled, dropped - neither its turn *)
(* nor its place in line stays behind.                                      *)
TurnMatchesStage ==
  \A r \in Requests :
    /\ pc[r] \in Working => phase[r] = "holding"
    /\ pc[r] \in Queueing <=> phase[r] = "waiting"
    /\ pc[r] \in {"closing", "ended"} => phase[r] # "holding"

(* With one turn, the usage a generation persists is its own or none: never *)
(* that of the generation before it, nor of the one after.                  *)
UsageIsOwn ==
  MaxConcurrent = 1 => \A r \in Requests : usageRead[r] \in {r, None, Unread}

(* A client of the content route that is told done has its row committed.   *)
DoneIsPersisted ==
  \A r \in ContentRequests : told[r] = "done" => r \in rows

(* How a step treats the outcome of r, and with what it may end r.          *)
KeepsOutcome(r) ==
  /\ told[r] \in Outcomes => told'[r] \in {told[r], Gone}
  /\ pc[r] # "ended" /\ pc'[r] = "ended" /\ told'[r] \notin Lost =>
       told'[r] \in IF pc[r] \in {"new", "checking"} THEN Refusals ELSE Outcomes
  /\ told[r] # Broken /\ told'[r] = Broken =>
       r \in ContentRequests /\ told[r] \in {"title", "delta"}

(* The outcome is the last event and comes once; and no call ends without   *)
(* an answer, an outcome if its stream was opened, unless its client left   *)
(* or was sent a piece of generated text that could not be encoded: of that *)
(* failure it is told nothing (generate_content.py:8 says error on any).    *)
OutcomeClosesStream == [][\A r \in Requests : KeepsOutcome(r)]_vars

(* Every call that the service began to look at ends.                       *)
EveryCallEnds ==
  \A r \in Requests : pc[r] \in {"checking", "admitted"} ~> pc[r] = "ended"

(* The use cases use the queue as its module assumes, and let go of every   *)
(* turn in the end.                                                         *)
UsesQueue == Queue!FairSpec

-----------------------------------------------------------------------------
(* What the documentation says and the code does not do *)

(* generate_content.py:93 - a persistence failure does not abort the stream.*)
PersistenceFailureSparesStream ==
  \A r \in ContentRequests : usageRead[r] # Unread => told[r] # "error"

(* request_queue.py:11 - the LLM serves max_concurrent generations at once. *)
LlmServesMaxConcurrent == Cardinality(streams) <= MaxConcurrent
=============================================================================
