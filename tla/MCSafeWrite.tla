----------------------------- MODULE MCSafeWrite -----------------------------
(***************************************************************************)
(* A small instance of SafeWrite.                                          *)
(***************************************************************************)
EXTENDS SafeWrite, TLC

\* Texts are interchangeable, and so are identities and stamps.
Interchangeable == Permutations(Texts) \cup Permutations(Ids) \cup Permutations(Stamps)

\* What no later step and no property depends on: what the last save left behind and what was
\* noted of it, which the next one forgets, and the value of outside, of which only a change
\* matters.
Forgotten == IF save = NoSave THEN <<>> ELSE <<tmp, staging, late, stuck>>
Remembered == <<target, backup, base, request, save, slot, pc, keeper, began, piled, Forgotten>>
=============================================================================
