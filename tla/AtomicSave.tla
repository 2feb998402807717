----------------------------- MODULE AtomicSave -----------------------------
(***************************************************************************)
(* What a save promises for the text of its file: whatever happens, the    *)
(* text that can be had from the disk is the text before the save, the     *)
(* text of the save, or what somebody else put there. No step of the       *)
(* editor, and no crash, gives anything else, such as half a file. A save  *)
(* that does not watch for other programs may bring back an earlier text   *)
(* of theirs, one that it found when it looked.                            *)
(***************************************************************************)
CONSTANTS Contents, NoText

VARIABLES
  content,   \* the text that can be had from the disk
  before,    \* what it was when the save that runs began
  saving,    \* the text of that save
  guarded,   \* it watches for other programs
  outside    \* changes with each step that is not the editor's own

abstractVars == <<content, before, saving, guarded, outside>>

Init ==
  /\ content \in Contents
  /\ before = NoText
  /\ saving = NoText
  /\ guarded = FALSE
  /\ outside = FALSE

Start ==
  /\ saving = NoText
  /\ saving' \in Contents
  /\ before' = content
  /\ guarded' \in BOOLEAN
  /\ UNCHANGED <<content, outside>>

\* The text that others have put there by now is the one to come back.
Look ==
  /\ saving # NoText /\ ~guarded
  /\ before' = content
  /\ UNCHANGED <<content, saving, guarded, outside>>

\* The save may come into force, or be undone, in a step of its own or in its last one.
Settle ==
  /\ saving # NoText
  /\ content' \in {content, before, saving}
  /\ \/ UNCHANGED <<before, saving, guarded>>
     \/ before' = NoText /\ saving' = NoText /\ guarded' = FALSE
  /\ UNCHANGED outside

\* Another program writes the file, or the user decides about a backup.
Others ==
  /\ content' \in Contents
  /\ outside' = ~outside
  /\ UNCHANGED <<before, saving, guarded>>

Next == Start \/ Look \/ Settle \/ Others

Spec == Init /\ [][Next]_abstractVars
=============================================================================
