------------------------- MODULE MCTreeSitterService -------------------------
(***************************************************************************)
(* Small instances of TreeSitterService.                                    *)
(***************************************************************************)
EXTENDS TreeSitterService, TLC

\* Buffers, states and jobs are interchangeable, and so are workers.
Interchangeable ==
  Permutations(Buffers) \cup Permutations(States) \cup Permutations(Jobs) \cup Permutations(Workers)
=============================================================================
