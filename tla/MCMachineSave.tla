--------------------------- MODULE MCMachineSave ---------------------------
(***************************************************************************)
(* Small instances of MachineSave.                                          *)
(***************************************************************************)
EXTENDS MachineSave, TLC


\* The result of a save that nothing names any more is never read: a new save with its
\* token resets it. Reload state, moves and so on stay.
WithoutForgottenSaves ==
  <<client, conn, requests, replies, late, writing, files, moves, promised, seen,
    [id \in InFlight \cap SaveIds |-> saves[id]]>>

\* Files, and texts other than the empty one, are interchangeable. Save tokens are not: a
\* new save takes the first fresh one.
Interchangeable == Permutations(Paths) \cup Permutations(Texts \ {Empty})
=============================================================================
