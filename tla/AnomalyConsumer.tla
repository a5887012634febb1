---------------------------- MODULE AnomalyConsumer ----------------------------
(****************************************************************************)
(* messaging/anomaly_queue_consumer.py: the thread of anomaly_detector_api  *)
(* that takes listings from RabbitMQ one at a time and runs the analysis of *)
(* AnalyzeProperty on each, inside the callback of the connection.          *)
(*                                                                          *)
(* The broker is external: it keeps a message until it is acknowledged, and *)
(* puts an unacknowledged one back at the head when the connection closes.  *)
(* While the callback runs nobody serves the heartbeats, so the connection  *)
(* may be gone long before the thread notices.  stop() is called from the   *)
(* thread of the web server, at any point of this one.                      *)
(****************************************************************************)
EXTENDS Naturals, SequencesExt

CONSTANTS
  Messages,    (* the messages the backend publishes *)
  Malformed,   (* those whose body is no valid listing *)
  Text,        (* Text[m]: what the rules find in the text of m *)
  MaxRetries,  (* _MAX_RETRIES of the analysis *)
  MaxFaults    (* bound on lost connections, stops and dead processes *)

(* No message in the callback.                                              *)
NoMessage == "no message"

ASSUME MessagesAssumption   == NoMessage \notin Messages
ASSUME MalformedAssumption  == Malformed \subseteq Messages
ASSUME MaxRetriesAssumption == MaxRetries \in Nat \ {0}
ASSUME MaxFaultsAssumption  == MaxFaults \in Nat

VARIABLES
  unpublished,    (* the messages the backend has not sent yet *)
  ready,          (* the queue of the broker *)
  acked, dead,    (* the messages acknowledged, and dead-lettered *)
  conn,           (* self._connection, as the broker sees it *)
  thread,         (* where run() is *)
  current,        (* the message in the callback *)
  stopRequested,  (* self._stop_event *)
  faults,         (* how many faults there were *)
  deliveries,     (* deliveries[m]: how often m was handed to the callback *)
  heard,          (* heard[m]: the payloads the webhook took on account of m *)
  signals, stage, verdict, row, letter, attempt, delivered   (* the analysis *)

bvars == <<unpublished, ready, acked, dead, conn, deliveries>>
tvars == <<thread, current, stopRequested, faults>>
jvars == <<signals, stage, verdict, row, letter, attempt, delivered>>
vars  == <<bvars, tvars, heard, jvars>>

(* The one analysis the thread can have under way.                          *)
Self == "queue"

Analysis == INSTANCE AnalyzeProperty WITH Jobs <- {Self}

ASSUME TextAssumption == Text \in [Messages -> Analysis!Signals]

Places == {"deciding", "connecting", "consuming", "handling", "backoff",
           "ended", "killed"}

(* What the broker delivered and waits to hear of: at most one message.     *)
Unacked == IF thread = "handling" /\ conn = "open" THEN <<current>> ELSE <<>>

-----------------------------------------------------------------------------
Init ==
  /\ unpublished = Messages
  /\ ready = <<>>
  /\ acked = {} /\ dead = {}
  /\ conn = "closed"
  /\ thread = "deciding"
  /\ current = NoMessage
  /\ stopRequested = FALSE
  /\ faults = 0
  /\ deliveries = [m \in Messages |-> 0]
  /\ heard = [m \in Messages |-> {}]
  /\ Analysis!Init /\ signals[Self] = [contact |-> FALSE, price |-> FALSE, urgency |-> FALSE]

(* The backend publishes.                                                   *)
Publish(m) ==
  /\ m \in unpublished
  /\ unpublished' = unpublished \ {m}
  /\ ready' = Append(ready, m)
  /\ UNCHANGED <<acked, dead, conn, deliveries, tvars, heard, jvars>>

Goto(place) ==
  /\ thread' = place
  /\ UNCHANGED <<stopRequested, faults>>

(* A faulty variant: while True.                                            *)
DecideAlways ==
  /\ thread = "deciding"
  /\ Goto("connecting")
  /\ UNCHANGED <<bvars, current, heard, jvars>>

(* The while of run() asks for the stop flag.                               *)
Decide ==
  /\ thread = "deciding"
  /\ Goto(IF stopRequested THEN "ended" ELSE "connecting")
  /\ UNCHANGED <<bvars, current, heard, jvars>>

Connect ==
  /\ thread = "connecting"
  /\ conn' = "open"
  /\ Goto("consuming")
  /\ UNCHANGED <<unpublished, ready, acked, dead, deliveries, current, heard, jvars>>

(* A faulty variant: the first error ends run().                            *)
ExceptGivesUp == Goto("ended")

(* The except of run(): an orderly end, or a pause and another round.       *)
Except == Goto(IF stopRequested THEN "ended" ELSE "backoff")

ConnectFails ==
  /\ thread = "connecting"
  /\ Except
  /\ UNCHANGED <<bvars, current, heard, jvars>>

PauseEnds ==
  /\ thread = "backoff"
  /\ Goto("deciding")
  /\ UNCHANGED <<bvars, current, heard, jvars>>

(* start_consuming() finds the connection closed while it waits.            *)
ConsumingEnds ==
  /\ thread = "consuming"
  /\ conn = "closed"
  /\ Except
  /\ UNCHANGED <<bvars, current, heard, jvars>>

(* AnalyzePropertyUseCase(...): an analysis that has not started.           *)
NewAnalysis(sig) ==
  /\ signals' = [signals EXCEPT ![Self] = sig]
  /\ stage' = [stage EXCEPT ![Self] = "new"]
  /\ verdict' = [verdict EXCEPT ![Self] = Analysis!None]
  /\ row' = [row EXCEPT ![Self] = Analysis!None]
  /\ letter' = [letter EXCEPT ![Self] = Analysis!None]
  /\ attempt' = [attempt EXCEPT ![Self] = 0]
  /\ delivered' = [delivered EXCEPT ![Self] = <<>>]

(* A faulty variant: auto_ack=True.                                         *)
DeliverAutoAck ==
  /\ thread = "consuming"
  /\ conn = "open"
  /\ ready # <<>>
  /\ current' = Head(ready)
  /\ ready' = Tail(ready)
  /\ acked' = acked \cup {current'}
  /\ deliveries' = [deliveries EXCEPT ![current'] = @ + 1]
  /\ Goto("handling")
  /\ NewAnalysis(Text[current'])
  /\ UNCHANGED <<unpublished, dead, conn, heard>>

(* The broker hands out one message (prefetch_count=1): _on_message() is    *)
(* called with it, and sets up an analysis of its own.                      *)
Deliver ==
  /\ thread = "consuming"
  /\ conn = "open"
  /\ ready # <<>>
  /\ current' = Head(ready)
  /\ ready' = Tail(ready)
  /\ deliveries' = [deliveries EXCEPT ![current'] = @ + 1]
  /\ Goto("handling")
  /\ NewAnalysis(Text[current'])
  /\ UNCHANGED <<unpublished, acked, dead, conn, heard>>

(* The body is a listing: execute() is called, and runs in the callback.    *)
Analyze ==
  /\ thread = "handling"
  /\ \/ current \notin Malformed /\ Analysis!Begin(Self)
     \/ Analysis!Step(Self)
  /\ heard' = [heard EXCEPT ![current] = @ \cup Range(delivered'[Self])]
  /\ UNCHANGED <<bvars, tvars>>

(* The callback is left, the message settled.                               *)
Settled ==
  /\ current' = NoMessage
  /\ Goto("consuming")
  /\ UNCHANGED <<unpublished, ready, conn, deliveries, heard, jvars>>

Failed == stage[Self] = "raised" \/ current \in Malformed

(* A faulty variant: the message is acknowledged in a finally.              *)
AckAlways ==
  /\ thread = "handling"
  /\ stage[Self] = "returned" \/ Failed
  /\ conn = "open"
  /\ acked' = acked \cup {current}
  /\ Settled
  /\ UNCHANGED dead

(* basic_ack: the analysis returned.                                        *)
Ack ==
  /\ thread = "handling"
  /\ stage[Self] = "returned"
  /\ conn = "open"
  /\ acked' = acked \cup {current}
  /\ Settled
  /\ UNCHANGED dead

(* A faulty variant: requeue=True.                                          *)
NackRequeues ==
  /\ thread = "handling"
  /\ Failed
  /\ conn = "open"
  /\ ready' = <<current>> \o ready
  /\ current' = NoMessage
  /\ Goto("consuming")
  /\ UNCHANGED <<unpublished, acked, dead, conn, deliveries, heard, jvars>>

(* basic_nack(requeue=False): the broker dead-letters the message.          *)
Nack ==
  /\ thread = "handling"
  /\ Failed
  /\ conn = "open"
  /\ dead' = dead \cup {current}
  /\ Settled
  /\ UNCHANGED acked

(* The connection was lost under the callback: basic_ack raises, and so     *)
(* does the basic_nack of its except clause, out of start_consuming().      *)
SettleFails ==
  /\ thread = "handling"
  /\ stage[Self] = "returned" \/ Failed
  /\ conn = "closed"
  /\ current' = NoMessage
  /\ Except
  /\ UNCHANGED <<bvars, heard, jvars>>

(* The connection closes: the broker takes back what is unacknowledged.     *)
Disconnected ==
  /\ conn' = "closed"
  /\ ready' = Unacked \o ready
  /\ UNCHANGED <<unpublished, acked, dead, deliveries, heard, jvars>>

Fault == faults < MaxFaults /\ faults' = faults + 1

ConnectionLost ==
  /\ Fault
  /\ conn = "open"
  /\ Disconnected
  /\ UNCHANGED <<thread, current, stopRequested>>

(* stop(): the flag, then the connection there is at that moment.           *)
Stop ==
  /\ Fault
  /\ thread \notin {"ended", "killed"}
  /\ ~stopRequested
  /\ stopRequested' = TRUE
  /\ Disconnected
  /\ UNCHANGED <<thread, current>>

(* The process dies, or exits after stop() without waiting for its daemon   *)
(* thread: whatever the callback was doing is cut short.                    *)
ProcessDies ==
  /\ Fault
  /\ thread # "killed"
  /\ Disconnected
  /\ thread' = "killed"
  /\ current' = NoMessage
  /\ UNCHANGED stopRequested

(* A new process, with a new consumer.                                      *)
Restart ==
  /\ thread = "killed"
  /\ thread' = "deciding"
  /\ stopRequested' = FALSE
  /\ UNCHANGED <<bvars, current, faults, heard, jvars>>

(* Every message is settled, or the thread has ended as it was told to.     *)
Idle ==
  /\ unpublished = {}
  /\ \/ thread = "consuming" /\ conn = "open" /\ ready = <<>>
     \/ thread = "ended"
  /\ UNCHANGED vars

(* What the thread does by itself.                                          *)
Proceed ==
  \/ Decide \/ Connect \/ ConnectFails \/ PauseEnds \/ ConsumingEnds
  \/ Deliver \/ Analyze \/ Ack \/ Nack \/ SettleFails

Next ==
  \/ \E m \in Messages : Publish(m)
  \/ Proceed
  \/ ConnectionLost \/ Stop \/ ProcessDies \/ Restart
  \/ Idle

Spec == Init /\ [][Next]_vars

(* The thread runs, every call of it ends, and a broker that is tried again *)
(* and again answers in the end.  Nobody has to restart the service.        *)
FairSpec == Spec /\ WF_vars(Proceed) /\ SF_vars(Connect)

-----------------------------------------------------------------------------
(* Properties *)

(* Every variable has its type.                                             *)
TypeOK ==
  /\ unpublished \subseteq Messages
  /\ ready \in Seq(Messages)
  /\ acked \subseteq Messages /\ dead \subseteq Messages
  /\ conn \in {"open", "closed"}
  /\ thread \in Places
  /\ current \in Messages \cup {NoMessage}
  /\ stopRequested \in BOOLEAN
  /\ faults \in 0 .. MaxFaults
  /\ deliveries \in [Messages -> Nat]
  /\ heard \in [Messages -> SUBSET Analysis!Letters]
  /\ Analysis!TypeOK
  /\ thread = "handling" <=> current # NoMessage

(* No message is lost or doubled, whatever fails and whenever: each is at   *)
(* one place only - to come, in the queue once, in the callback, settled.   *)
MessagesConserved ==
  /\ IsInjective(ready)
  /\ LET places == <<unpublished, Range(ready), Range(Unacked), acked, dead>>
     IN \A m \in Messages : \E i \in DOMAIN places :
          \A k \in DOMAIN places : m \in places[k] <=> k = i

(* A message is acknowledged only when the webhook took a payload for it,   *)
(* and the webhook never hears of a malformed one.                          *)
AckedIsNotified ==
  /\ \A m \in acked : heard[m] # {}
  /\ \A m \in Malformed : heard[m] = {}

(* A message is analysed again only after a fault: one that fails, however  *)
(* often, goes to the dead letters and never comes back round.              *)
RedeliveryNeedsFault == \A m \in Messages : deliveries[m] <= 1 + faults

Running == thread # "killed" /\ ~stopRequested

(* While the service runs every message in the queue is settled: no failure *)
(* of the broker, the webhook or the analysis stops the thread for good.    *)
EveryMessageSettles ==
  \A m \in Messages : m \in Range(ready) ~> m \in acked \cup dead \/ ~Running

(* stop() ends the thread, unless it was just then being connected: the     *)
(* connection it gets after that is closed by nobody.                       *)
StopEndsThread ==
  (stopRequested /\ conn = "closed" /\ thread # "connecting")
    ~> thread \in {"ended", "killed"}
=============================================================================
