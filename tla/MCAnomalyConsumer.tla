--------------------------- MODULE MCAnomalyConsumer ---------------------------
(* A small instance of AnomalyConsumer: m1 is clean, m2 has contact data,    *)
(* the body of m3 is malformed.                                              *)
EXTENDS AnomalyConsumer

CONSTANTS m1, m2, m3

Clean   == [contact |-> FALSE, price |-> FALSE, urgency |-> FALSE]
Contact == [Clean EXCEPT !.contact = TRUE]

AllMessages == {m1, m2, m3}
TextOfAll == [m \in AllMessages |-> IF m = m2 THEN Contact ELSE Clean]
BadMessages == {m3}
=============================================================================
