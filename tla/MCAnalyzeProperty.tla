--------------------------- MODULE MCAnalyzeProperty ---------------------------
(* A small instance of AnalyzeProperty. *)
EXTENDS AnalyzeProperty

CONSTANT j1
=============================================================================
