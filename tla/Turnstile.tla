------------------------------ MODULE Turnstile ------------------------------
(****************************************************************************)
(* What the request queue of llm_local_service promises its callers: a      *)
(* first-come first-served turnstile that lets at most Capacity generations *)
(* in, keeps at most LineBound of them in line, and hands the place of one  *)
(* that leaves straight to the head of the line.  Channels, positions and   *)
(* the active counter of the code are not visible here.                     *)
(****************************************************************************)
EXTENDS Naturals, FiniteSets, SequencesExt

CONSTANTS
  Requests,   (* every generation request that may ever arrive *)
  Capacity,   (* places inside: RequestQueue's max_concurrent *)
  LineBound   (* places in line: RequestQueue's max_queue_size *)

VARIABLES
  line,       (* the requests in line, the oldest first *)
  inside      (* the requests that own a place inside *)

tvars == <<line, inside>>

Outside(r) == r \notin inside /\ r \notin Range(line)

Init == line = <<>> /\ inside = {}

(* A newcomer walks in only past an empty line. *)
Enter(r) ==
  /\ Outside(r)
  /\ line = <<>>
  /\ Cardinality(inside) < Capacity
  /\ inside' = inside \cup {r}
  /\ UNCHANGED line

(* It lines up only when every place is taken. *)
LineUp(r) ==
  /\ Outside(r)
  /\ Cardinality(inside) = Capacity
  /\ Len(line) < LineBound
  /\ line' = Append(line, r)
  /\ UNCHANGED inside

(* A place that is given back goes to the head of the line, if there is one. *)
Leave(r) ==
  /\ r \in inside
  /\ \/ /\ line = <<>>
        /\ inside' = inside \ {r}
        /\ UNCHANGED line
     \/ /\ line # <<>>
        /\ inside' = (inside \ {r}) \cup {Head(line)}
        /\ line' = Tail(line)

(* Whoever is in line may walk away; nobody else loses its order. *)
GiveUp(r) ==
  /\ \E i \in DOMAIN line : line[i] = r /\ line' = RemoveAt(line, i)
  /\ UNCHANGED inside

Next == \E r \in Requests : Enter(r) \/ LineUp(r) \/ Leave(r) \/ GiveUp(r)

Spec == Init /\ [][Next]_tvars

FairSpec == Spec /\ \A r \in Requests : WF_tvars(Leave(r))
=============================================================================
