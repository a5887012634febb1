-------------------------- MODULE MCGenerationService --------------------------
(* Small instances of GenerationService: content calls c1 and c2, and a      *)
(* simulated call s1.                                                        *)
EXTENDS GenerationService

CONSTANTS c1, c2, s1

Mixed == {c1, c2, s1}
TwoContents == {c1, c2}
=============================================================================
