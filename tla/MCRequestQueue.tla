---------------------------- MODULE MCRequestQueue ----------------------------
(* A small instance of RequestQueue. *)
EXTENDS RequestQueue

CONSTANTS r1, r2, r3, r4, r5

FiveRequests == {r1, r2, r3, r4, r5}
=============================================================================
