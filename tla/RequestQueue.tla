----------------------------- MODULE RequestQueue -----------------------------
(****************************************************************************)
(* services/request_queue.py of llm_local_service: the in-memory FIFO that  *)
(* decides which generation may talk to the LLM.                            *)
(*                                                                          *)
(* Every block the code runs under its asyncio.Lock has no await inside, so *)
(* on the single event loop each of them is one action here.  Between two   *)
(* actions of a request any number of actions of the others may happen: its *)
(* channel is what it learns of them, late.                                 *)
(*                                                                          *)
(* A request is used once, as one HTTP call is; Requests may be infinite.   *)
(****************************************************************************)
EXTENDS Naturals, FiniteSets, SequencesExt

CONSTANTS
  Requests,        (* the callers of acquire(), one per HTTP call *)
  MaxConcurrent,   (* __init__'s max_concurrent *)
  MaxQueueSize     (* __init__'s max_queue_size *)

ASSUME MaxConcurrentAssumption == MaxConcurrent \in Nat \ {0}
ASSUME MaxQueueSizeAssumption  == MaxQueueSize \in Nat

VARIABLES
  active,      (* self._active *)
  waiters,     (* self._waiters: the callers whose channel is in the list *)
  channel,     (* channel[r]: the asyncio.Queue of r, numbers not read yet *)
  announced,   (* announced[r]: the last position acquire() yielded to r *)
  phase        (* phase[r]: where r is in its use of the queue *)

vars == <<active, waiters, channel, announced, phase>>

Phases == {"new", "waiting", "holding", "gone"}

(* The number put in a channel to say that the turn is granted. *)
Granted == 0

-----------------------------------------------------------------------------
(* Helper state formulae *)

Position(line, r) == CHOOSE i \in DOMAIN line : line[i] = r

(* Faulty variants: positions are counted from zero; from two.              *)
NotifyPositionsFromZero(channels, line) ==
  [r \in Requests |-> IF r \in Range(line)
                      THEN Append(channels[r], Position(line, r) - 1)
                      ELSE channels[r]]

NotifyPositionsFromTwo(channels, line) ==
  [r \in Requests |-> IF r \in Range(line)
                      THEN Append(channels[r], Position(line, r) + 1)
                      ELSE channels[r]]

(* _notify_positions: everyone still in the list is told its place again. *)
NotifyPositions(channels, line) ==
  [r \in Requests |-> IF r \in Range(line)
                      THEN Append(channels[r], Position(line, r))
                      ELSE channels[r]]

IsFull == Len(waiters) >= MaxQueueSize

(* Whoever owns a turn: it took it, or it was granted one it has not read. *)
TurnHolders ==
  {r \in Requests : \/ phase[r] = "holding"
                    \/ phase[r] = "waiting" /\ r \notin Range(waiters)}

-----------------------------------------------------------------------------
Init ==
  /\ active = 0
  /\ waiters = <<>>
  /\ channel = [r \in Requests |-> <<>>]
  /\ announced = [r \in Requests |-> 0]
  /\ phase = [r \in Requests |-> "new"]

(* A faulty variant: _active is not compared with the limit.                *)
TakeUnguarded(r) ==
  /\ phase[r] = "new"
  /\ waiters = <<>>
  /\ active' = active + 1
  /\ phase' = [phase EXCEPT ![r] = "holding"]
  /\ UNCHANGED <<waiters, channel, announced>>

(* acquire(), a free turn and nobody in line: the generator ends at once. *)
Take(r) ==
  /\ phase[r] = "new"
  /\ active < MaxConcurrent
  /\ waiters = <<>>
  /\ active' = active + 1
  /\ phase' = [phase EXCEPT ![r] = "holding"]
  /\ UNCHANGED <<waiters, channel, announced>>

(* acquire(), no turn and no place in line: QueueFullError. *)
Reject(r) ==
  /\ phase[r] = "new"
  /\ ~(active < MaxConcurrent /\ waiters = <<>>)
  /\ IsFull
  /\ phase' = [phase EXCEPT ![r] = "gone"]
  /\ UNCHANGED <<active, waiters, channel, announced>>

(* acquire(), a place in line: the channel is appended, the position yielded. *)
Join(r) ==
  /\ phase[r] = "new"
  /\ ~(active < MaxConcurrent /\ waiters = <<>>)
  /\ ~IsFull
  /\ waiters' = Append(waiters, r)
  /\ announced' = [announced EXCEPT ![r] = Len(waiters')]
  /\ phase' = [phase EXCEPT ![r] = "waiting"]
  /\ UNCHANGED <<active, channel>>

(* channel.get() returns a position, which acquire() yields. *)
Advance(r) ==
  /\ phase[r] = "waiting"
  /\ channel[r] # <<>>
  /\ Head(channel[r]) # Granted
  /\ announced' = [announced EXCEPT ![r] = Head(channel[r])]
  /\ channel' = [channel EXCEPT ![r] = Tail(@)]
  /\ UNCHANGED <<active, waiters, phase>>

(* channel.get() returns the grant: acquire() ends and the turn is taken. *)
TakeGranted(r) ==
  /\ phase[r] = "waiting"
  /\ channel[r] # <<>>
  /\ Head(channel[r]) = Granted
  /\ channel' = [channel EXCEPT ![r] = Tail(@)]
  /\ phase' = [phase EXCEPT ![r] = "holding"]
  /\ UNCHANGED <<active, waiters, announced>>

(* Faulty variants of release(): _active is lowered although the turn is    *)
(* handed over; nobody is handed a turn; the last in line is served first.  *)
PassTurnOnTwice ==
  /\ active' = active - 1
  /\ \/ /\ waiters # <<>>
        /\ waiters' = Tail(waiters)
        /\ channel' = NotifyPositions(
                        [channel EXCEPT ![Head(waiters)] = Append(@, Granted)],
                        waiters')
     \/ waiters = <<>> /\ UNCHANGED <<waiters, channel>>

PassTurnOnToNobody ==
  /\ active' = active - 1
  /\ UNCHANGED <<waiters, channel>>

PassTurnOnToLast ==
  \/ /\ waiters # <<>>
     /\ waiters' = Front(waiters)
     /\ channel' = NotifyPositions(
                     [channel EXCEPT ![Last(waiters)] = Append(@, Granted)],
                     waiters')
     /\ UNCHANGED active
  \/ /\ waiters = <<>>
     /\ active' = active - 1
     /\ UNCHANGED <<waiters, channel>>

(* What release() does to the shared state: it hands the turn to the head   *)
(* of the line, _active as it was, or lowers _active.                        *)
PassTurnOn ==
  \/ /\ waiters # <<>>
     /\ waiters' = Tail(waiters)
     /\ channel' = NotifyPositions(
                     [channel EXCEPT ![Head(waiters)] = Append(@, Granted)],
                     waiters')
     /\ UNCHANGED active
  \/ /\ waiters = <<>>
     /\ active' = active - 1
     /\ UNCHANGED <<waiters, channel>>

(* release() by the caller that took its turn. *)
Release(r) ==
  /\ phase[r] = "holding"
  /\ PassTurnOn
  /\ phase' = [phase EXCEPT ![r] = "gone"]
  /\ UNCHANGED announced

(* Faulty variants of _abandon(): the channel stays in the list; a grant    *)
(* that crossed the cancellation is dropped with the channel.               *)
AbandonStays(r) ==
  /\ phase[r] = "waiting"
  /\ \/ r \in Range(waiters) /\ UNCHANGED <<active, waiters, channel>>
     \/ r \notin Range(waiters) /\ PassTurnOn
  /\ phase' = [phase EXCEPT ![r] = "gone"]
  /\ UNCHANGED announced

AbandonDropsGrant(r) ==
  /\ phase[r] = "waiting"
  /\ \/ /\ r \in Range(waiters)
        /\ waiters' = RemoveAt(waiters, Position(waiters, r))
        /\ channel' = NotifyPositions(channel, waiters')
     \/ r \notin Range(waiters) /\ UNCHANGED <<waiters, channel>>
  /\ phase' = [phase EXCEPT ![r] = "gone"]
  /\ UNCHANGED <<active, announced>>

(* The caller leaves before it read a grant: _abandon() takes its channel   *)
(* out of the list, or passes on the turn it was granted in the meantime.   *)
Abandon(r) ==
  /\ phase[r] = "waiting"
  /\ \/ /\ r \in Range(waiters)
        /\ waiters' = RemoveAt(waiters, Position(waiters, r))
        /\ channel' = NotifyPositions(channel, waiters')
        /\ UNCHANGED active
     \/ /\ r \notin Range(waiters)
        /\ PassTurnOn
  /\ phase' = [phase EXCEPT ![r] = "gone"]
  /\ UNCHANGED announced

(* Every request was served or left. *)
Quiescent ==
  /\ \A r \in Requests : phase[r] = "gone"
  /\ UNCHANGED vars

Next ==
  \/ \E r \in Requests : \/ Take(r) \/ Reject(r) \/ Join(r)
                         \/ Advance(r) \/ TakeGranted(r)
                         \/ Release(r) \/ Abandon(r)
  \/ Quiescent

Spec == Init /\ [][Next]_vars

(* The event loop runs every ready callback, and a generation that holds a  *)
(* turn ends (the LLM call is bounded in tokens and in read time-out).       *)
Fairness ==
  \A r \in Requests : /\ WF_vars(Advance(r))
                      /\ WF_vars(TakeGranted(r))
                      /\ WF_vars(Release(r))

FairSpec == Spec /\ Fairness

-----------------------------------------------------------------------------
(* Properties *)

(* Every variable has its type: acquire() only yields positions the line    *)
(* can have.                                                                *)
TypeOK ==
  /\ active \in 0 .. MaxConcurrent
  /\ waiters \in Seq(Requests)
  /\ channel \in [Requests -> Seq(Nat)]
  /\ announced \in [Requests -> Nat]
  /\ phase \in [Requests -> Phases]

(* The counter _active is the number of turns somebody owns: a turn in      *)
(* flight from release() to acquire(), or abandoned on the way, is neither  *)
(* lost nor doubled.                                                        *)
TurnsAccounted ==
  /\ IsFiniteSet(TurnHolders)
  /\ active = Cardinality(TurnHolders)

(* Nobody waits while the LLM could serve one more.                         *)
NoIdleTurn == waiters # <<>> => active = MaxConcurrent

(* _waiters holds each caller at most once, only callers that wait, and no  *)
(* more of them than max_queue_size.                                        *)
LineSound ==
  /\ IsInjective(waiters)
  /\ \A r \in Range(waiters) : phase[r] = "waiting"
  /\ Len(waiters) <= MaxQueueSize

(* A caller that was shown one position and has ch still to read will end   *)
(* up knowing that its place is place; a grant can only come last.          *)
Truthful(ch, shown, place) ==
  /\ (IF ch = <<>> THEN shown ELSE Last(ch)) = place
  /\ \A i \in DOMAIN ch : i < Len(ch) => ch[i] # Granted

(* What r's channel and position say, once it is in use, is its true place  *)
(* or its grant; before that nothing was sent to it.                        *)
ChannelTruthful(r) ==
  /\ phase[r] = "new" => channel[r] = <<>>
  /\ phase[r] = "waiting" =>
       Truthful(channel[r], announced[r],
                IF r \in Range(waiters) THEN Position(waiters, r) ELSE Granted)

(* A caller in line will end up knowing its true place, and one that was    *)
(* taken out of the line by release() finds its grant, once, at the end of  *)
(* its channel: no grant is lost, nobody sleeps on an empty channel, and    *)
(* nothing is sent to a caller that has not lined up.                       *)
ChannelsTruthful == \A r \in Requests : ChannelTruthful(r)

(* The positions a client is shown never grow: the line only moves forward. *)
PositionsOnlyShrink ==
  [][\A r \in Requests :
       announced[r] # 0 => announced'[r] # 0 /\ announced'[r] <= announced[r]]_vars

(* Whoever lines up is served or leaves: no turn is stranded.               *)
WaitersAreServed ==
  \A r \in Requests : phase[r] = "waiting" ~> phase[r] \in {"holding", "gone"}

(* The queue implements the turnstile, its fairness included.               *)
Abstract == INSTANCE Turnstile
              WITH Capacity <- MaxConcurrent, LineBound <- MaxQueueSize,
                   line <- waiters, inside <- TurnHolders

ImplementsTurnstile == Abstract!FairSpec
=============================================================================
