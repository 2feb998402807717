------------------------- MODULE BufferHistoryProofs -------------------------
(***************************************************************************)
(* What TLAPS proves about BufferHistory, for all texts, all history sizes *)
(* and all bounds: the type invariant, that every undo step fits its text, *)
(* that a Buffer that shows as saved has the text of its file, that no     *)
(* write takes the file back to older text, and what a background save     *)
(* may do to other programs' work and may say at its end.                  *)
(***************************************************************************)
EXTENDS BufferHistory, TLAPS

\* The state of the history alone.
HistoryOK ==
  /\ text \in Texts
  /\ lo \in Nat \ {0} /\ hi \in Nat /\ undo_idx \in lo .. hi + 1
  /\ step \in [lo .. hi -> Step]

\* The rest of the type invariant.
SaveOK ==
  /\ text_revision \in Nat \ {0}
  /\ clean_change_id \in Nat \cup {-1}
  /\ new_file \in BOOLEAN
  /\ load \in {"none", "pending", "stale", "failed"}
  /\ settings \in Settings
  /\ pending_save \in Request \cup {NoSave}
  /\ jobs \in [RequestIds -> {"unused", "queued", "written", "failed", "done"}]
  /\ disk \in Texts \cup {NoFile}
  /\ external \in BOOLEAN /\ foreign \in BOOLEAN
  /\ disk_revision \in Nat

HistoryInv == HistoryOK /\ StepsFit /\ HistoryBounded /\ CursorBetweenGroups

\* The inductive invariant.
IInv == HistoryInv /\ SaveOK /\ CleanHolds /\ PendingHolds /\ disk_revision <= text_revision

LEMMA TypeSplit == TypeOK <=> HistoryOK /\ SaveOK
  BY DEF TypeOK, HistoryOK, SaveOK

\* A new step on top of the stack: the history invariants hold again, and the change
\* ids up to the old cursor keep their texts.
LEMMA RecordEditHistory ==
  ASSUME HistoryInv, NEW t \in Texts, NEW merge \in BOOLEAN, NEW near \in BOOLEAN,
         RecordEdit(t, merge, near)
  PROVE  /\ HistoryInv'
         /\ undo_idx' = undo_idx + 1 /\ hi' = undo_idx /\ lo' >= lo /\ text' = t
         /\ \A i \in lo' .. undo_idx : TextAt(i)' = TextAt(i)
<1> DEFINE s == [before |-> text, after |-> t, merge |-> merge, near |-> near, joins |-> FALSE]
           low == IF undo_idx - lo >= MaxUndos THEN lo + 1 ELSE lo
<1>1. s \in Step
  BY DEF Step, HistoryInv, HistoryOK
<1>2. /\ step' = [i \in low .. undo_idx |-> IF i = undo_idx THEN s ELSE step[i]]
      /\ lo' = low /\ hi' = undo_idx /\ undo_idx' = undo_idx + 1 /\ text' = t
  BY DEF RecordEdit, Push
<1>3. /\ low \in Nat \ {0} /\ low >= lo /\ low <= undo_idx /\ undo_idx - low < MaxUndos
      /\ undo_idx \in Nat \ {0} /\ lo \in Nat /\ hi \in Nat /\ undo_idx <= hi + 1
      /\ lo <= undo_idx /\ hi - lo < MaxUndos
  BY UndosAssumption DEF HistoryInv, HistoryOK, HistoryBounded
<1> HIDE DEF s, low
<1>4. \A i \in low .. undo_idx - 1 : step'[i] = step[i] /\ step[i] \in Step
  BY <1>2, <1>3 DEF HistoryInv, HistoryOK
<1>5. step'[undo_idx] = s
  BY <1>2, <1>3
<1>6. HistoryOK'
  BY <1>1, <1>2, <1>3, <1>4, <1>5 DEF HistoryOK
<1>7. StepsFit'
  <2>1. \A i \in low .. undo_idx - 1 : step'[i].after = step'[i + 1].before
    <3> TAKE i \in low .. undo_idx - 1
    <3>1. CASE i = undo_idx - 1
      <4>1. step[undo_idx - 1].after = text
        BY <3>1, <1>3 DEF HistoryInv, StepsFit
      <4> QED BY <4>1, <3>1, <1>3, <1>4, <1>5 DEF s
    <3>2. CASE i < undo_idx - 1
      <4>1. i \in lo .. hi - 1 /\ i + 1 \in low .. undo_idx - 1
        BY <3>2, <1>3
      <4> QED BY <4>1, <1>4 DEF HistoryInv, StepsFit
    <3> QED BY <3>1, <3>2, <1>3
  <2>2. step'[undo_idx' - 1].after = text'
    BY <1>2, <1>3, <1>5 DEF s
  <2> QED BY <2>1, <2>2, <1>2, <1>3 DEF StepsFit
<1>8. HistoryBounded' /\ CursorBetweenGroups'
  BY <1>2, <1>3 DEF HistoryBounded, CursorBetweenGroups
<1>9. ASSUME NEW i \in low .. undo_idx
      PROVE  TextAt(i)' = TextAt(i)
  <2>1. CASE i = undo_idx
    <3>1. TextAt(i) = text /\ TextAt(i)' = step'[i].before
      BY <2>1, <1>2, <1>3 DEF TextAt
    <3> QED BY <3>1, <2>1, <1>5 DEF s
  <2>2. CASE i < undo_idx
    <3>1. TextAt(i) = step[i].before /\ TextAt(i)' = step'[i].before
      BY <2>2, <1>2, <1>3 DEF TextAt
    <3> QED BY <3>1, <2>2, <1>3, <1>4
  <2> QED BY <2>1, <2>2, <1>3
<1> QED BY <1>2, <1>3, <1>6, <1>7, <1>8, <1>9 DEF HistoryInv

\* Undo and redo keep the history and every text in it.
LEMMA UndoHistory ==
  ASSUME HistoryInv, Undo
  PROVE  /\ HistoryInv'
         /\ UNCHANGED <<lo, hi>>
         /\ \A i \in lo .. hi + 1 : TextAt(i)' = TextAt(i)
<1>1. PICK k \in DOMAIN step : UndoStops(k) /\ MoveTo(k, step[k].before, undo_idx - k)
  BY DEF Undo
<1>2. /\ UNCHANGED <<step, lo, hi>> /\ undo_idx' = k /\ text' = step[k].before
      /\ k \in lo .. undo_idx - 1 /\ lo \in Nat \ {0} /\ hi \in Nat /\ undo_idx \in lo .. hi + 1
      /\ step \in [lo .. hi -> Step] /\ k \in lo .. hi
  BY <1>1 DEF MoveTo, UndoStops, HistoryInv, HistoryOK
<1>3. HistoryOK'
  BY <1>2 DEF HistoryOK, Step
<1>4. StepsFit'
  BY <1>2 DEF StepsFit, HistoryInv
<1>5. HistoryBounded'
  BY <1>2 DEF HistoryInv, HistoryBounded
<1>6. CursorBetweenGroups'
  BY <1>1, <1>2 DEF CursorBetweenGroups, UndoStops, Linked
<1>7. ASSUME NEW i \in lo .. hi + 1
      PROVE  TextAt(i)' = TextAt(i)
  <2>1. CASE i = undo_idx
    <3>1. TextAt(i) = text /\ TextAt(i)' = IF i <= hi THEN step[i].before ELSE step[hi].after
      BY <2>1, <1>2 DEF TextAt
    <3>2. CASE i <= hi
      BY <3>1, <3>2, <2>1 DEF HistoryInv, StepsFit
    <3>3. CASE i = hi + 1
      <4>1. undo_idx - 1 = hi /\ undo_idx > lo
        BY <3>3, <2>1, <1>2
      <4> QED BY <3>1, <3>3, <4>1, <1>2 DEF HistoryInv, StepsFit
    <3> QED BY <3>2, <3>3, <1>2
  <2>2. CASE i # undo_idx
    BY <2>2, <1>2 DEF TextAt
  <2> QED BY <2>1, <2>2
<1> QED BY <1>2, <1>3, <1>4, <1>5, <1>6, <1>7 DEF HistoryInv

LEMMA RedoHistory ==
  ASSUME HistoryInv, Redo
  PROVE  /\ HistoryInv'
         /\ UNCHANGED <<lo, hi>>
         /\ \A i \in lo .. hi + 1 : TextAt(i)' = TextAt(i)
<1>1. PICK k \in 2 .. hi + 1 : RedoStops(k) /\ MoveTo(k, step[k - 1].after, k - undo_idx)
  BY DEF Redo
<1>2. /\ UNCHANGED <<step, lo, hi>> /\ undo_idx' = k /\ text' = step[k - 1].after
      /\ k \in undo_idx + 1 .. hi + 1 /\ lo \in Nat \ {0} /\ hi \in Nat /\ undo_idx \in lo .. hi + 1
      /\ step \in [lo .. hi -> Step] /\ k - 1 \in lo .. hi
  BY <1>1 DEF MoveTo, RedoStops, HistoryInv, HistoryOK
<1>3. HistoryOK'
  BY <1>2 DEF HistoryOK, Step
<1>4. StepsFit'
  BY <1>2 DEF StepsFit, HistoryInv
<1>5. HistoryBounded'
  BY <1>2 DEF HistoryInv, HistoryBounded
<1>6. CursorBetweenGroups'
  BY <1>1, <1>2 DEF CursorBetweenGroups, RedoStops, Linked
<1>7. ASSUME NEW i \in lo .. hi + 1
      PROVE  TextAt(i)' = TextAt(i)
  BY <1>2 DEF TextAt, HistoryInv, StepsFit
<1> QED BY <1>2, <1>3, <1>4, <1>5, <1>6, <1>7 DEF HistoryInv

\* Marking steps as joined changes no text.
LEMMA JoinHistory ==
  ASSUME HistoryInv, NEW idx \in DOMAIN step, JoinUndoSince(idx)
  PROVE  /\ HistoryInv'
         /\ UNCHANGED <<lo, hi>>
         /\ \A i \in lo .. hi + 1 : TextAt(i)' = TextAt(i)
<1>1. /\ lo \in Nat \ {0} /\ hi \in Nat /\ undo_idx \in lo .. hi + 1
      /\ step \in [lo .. hi -> Step] /\ UNCHANGED <<text, lo, hi, undo_idx>>
      /\ idx \in lo .. undo_idx - 2
      /\ step' = [i \in lo .. hi |-> IF i \in idx + 1 .. undo_idx - 1
                                     THEN [step[i] EXCEPT !.joins = TRUE] ELSE step[i]]
  BY DEF HistoryInv, HistoryOK, JoinUndoSince
<1>2. \A i \in lo .. hi : /\ step'[i] \in Step
                          /\ step'[i].before = step[i].before
                          /\ step'[i].after = step[i].after
                          /\ step'[i].merge = step[i].merge
                          /\ step'[i].near = step[i].near
                          /\ i >= undo_idx => step'[i] = step[i]
  <2> TAKE i \in lo .. hi
  <2>1. step[i] \in Step /\ i \in Int /\ idx \in Int /\ undo_idx \in Int
    BY <1>1
  <2>2. CASE i \in idx + 1 .. undo_idx - 1
    <3>1. step'[i] = [step[i] EXCEPT !.joins = TRUE]
      BY <1>1, <2>2
    <3>2. i < undo_idx
      BY <2>1, <2>2
    <3> DEFINE r == [step[i] EXCEPT !.joins = TRUE]
    <3>3. r \in Step /\ r.before = step[i].before /\ r.after = step[i].after
      BY <2>1 DEF Step
    <3>4. r.merge = step[i].merge /\ r.near = step[i].near
      BY <2>1 DEF Step
    <3> QED BY <2>1, <3>1, <3>2, <3>3, <3>4
  <2>3. CASE i \notin idx + 1 .. undo_idx - 1
    <3>1. step'[i] = step[i]
      BY <1>1, <2>3
    <3> QED BY <2>1, <3>1
  <2> QED BY <2>2, <2>3
<1>3. HistoryOK'
  <2>1. step' \in [lo .. hi -> Step]
    BY <1>1, <1>2
  <2> QED BY <1>1, <2>1 DEF HistoryOK, HistoryInv
<1>4. StepsFit'
  <2>1. \A i \in lo .. hi - 1 : step'[i].after = step'[i + 1].before
    BY <1>1, <1>2 DEF StepsFit, HistoryInv
  <2>2. undo_idx <= hi => step'[undo_idx].before = text
    BY <1>1, <1>2 DEF StepsFit, HistoryInv
  <2>3. undo_idx > lo => step'[undo_idx - 1].after = text
    BY <1>1, <1>2 DEF StepsFit, HistoryInv
  <2> QED BY <1>1, <2>1, <2>2, <2>3 DEF StepsFit
<1>5. HistoryBounded'
  BY <1>1 DEF HistoryBounded, HistoryInv
<1>6. CursorBetweenGroups'
  <2> SUFFICES ASSUME undo_idx \in lo + 1 .. hi, Linked(undo_idx)'
               PROVE  FALSE
    BY <1>1 DEF CursorBetweenGroups
  <2>1. /\ step'[undo_idx] = step[undo_idx]
        /\ undo_idx - 1 \in lo .. hi /\ undo_idx \in lo .. hi
        /\ step'[undo_idx - 1].merge = step[undo_idx - 1].merge
        /\ DOMAIN step = lo .. hi /\ DOMAIN step' = lo .. hi
    BY <1>1, <1>2
  <2>2. \/ step[undo_idx].joins
        \/ step[undo_idx].merge /\ step[undo_idx - 1].merge /\ step[undo_idx].near
    BY <2>1, <1>1 DEF Linked
  <2>3. Linked(undo_idx)
    BY <2>1, <2>2 DEF Linked
  <2> QED BY <2>3 DEF CursorBetweenGroups, HistoryInv
<1>7. \A i \in lo .. hi + 1 : TextAt(i)' = TextAt(i)
  BY <1>1, <1>2 DEF TextAt
<1> QED BY <1>1, <1>3, <1>4, <1>5, <1>6, <1>7 DEF HistoryInv

\* A step that leaves the text and the stacks alone.
LEMMA SameHistory ==
  ASSUME HistoryInv, UNCHANGED <<text, history>>
  PROVE  HistoryInv' /\ UNCHANGED <<lo, hi>> /\ \A i : TextAt(i)' = TextAt(i)
BY DEF HistoryInv, HistoryOK, StepsFit, HistoryBounded, CursorBetweenGroups, Linked, TextAt, history

\* A load empties the stacks.
LEMMA ClearedHistory ==
  ASSUME ClearUndoRedo, text' \in Texts
  PROVE  HistoryInv' /\ lo' = 1 /\ hi' = 0 /\ undo_idx' = 1
<1>1. lo' = 1 /\ hi' = 0 /\ undo_idx' = 1 /\ step' = [i \in {} |-> 0]
  BY DEF ClearUndoRedo
<1>2. step' \in [1 .. 0 -> Step]
  <2>1. 1 .. 0 = {}
    OBVIOUS
  <2> QED BY <1>1, <2>1
<1>3. HistoryOK'
  BY <1>1, <1>2 DEF HistoryOK
<1> QED BY <1>1, <1>3, UndosAssumption
        DEF HistoryInv, StepsFit, HistoryBounded, CursorBetweenGroups

\* The text at the cursor is the Buffer's text.
LEMMA TextAtCursor == TextAt(undo_idx) = text
BY DEF TextAt

-----------------------------------------------------------------------------
\* What a new step does to the save in the background: it still remembers the text at
\* its change id, or it is marked as forked.
LEMMA RecordEditPending ==
  ASSUME IInv, NEW t \in Texts, NEW merge \in BOOLEAN, NEW near \in BOOLEAN,
         RecordEdit(t, merge, near), UNCHANGED disk_revision
  PROVE  /\ PendingHolds'
         /\ pending_save' \in Request \cup {NoSave}
         /\ text_revision' = text_revision + 1
<1>1. /\ undo_idx' = undo_idx + 1 /\ hi' = undo_idx /\ lo' >= lo
      /\ undo_idx \in Nat /\ lo' \in Nat /\ lo \in Nat
      /\ \A i \in lo' .. undo_idx : TextAt(i)' = TextAt(i)
      /\ text_revision' = text_revision + 1 /\ text_revision \in Nat
  BY RecordEditHistory DEF IInv, HistoryInv, HistoryOK, SaveOK, RecordEdit
<1>2. CASE pending_save = NoSave
  BY <1>1, <1>2 DEF RecordEdit, PendingHolds
<1>3. CASE pending_save # NoSave
  <2>1. pending_save \in Request /\ PendingHolds
    BY <1>3 DEF IInv, SaveOK
  <2>2. CASE undo_idx < pending_save.change_id
    <3>1. pending_save' = [pending_save EXCEPT !.forked = TRUE]
      BY <1>3, <2>2 DEF RecordEdit
    <3>2. pending_save' \in Request /\ pending_save'.forked
      BY <2>1, <3>1 DEF Request
    <3>3. pending_save'.revision = pending_save.revision /\ pending_save.revision \in Nat
      BY <2>1, <3>1 DEF Request
    <3> QED BY <1>1, <1>3, <2>1, <3>2, <3>3 DEF PendingHolds
  <2>3. CASE ~(undo_idx < pending_save.change_id)
    <3>1. pending_save' = pending_save /\ pending_save.change_id \in Nat
      BY <2>1, <2>3, <1>3 DEF RecordEdit, Request
    <3>2. pending_save.revision \in Nat /\ disk_revision \in Nat
      BY <2>1 DEF Request, IInv, SaveOK
    <3> QED BY <1>1, <1>3, <2>1, <2>3, <3>1, <3>2 DEF PendingHolds
  <2> QED BY <2>2, <2>3
<1> QED BY <1>1, <1>2, <1>3

\* A step that keeps the history and the file keeps what the Buffer and its background
\* save know about them.
LEMMA KeepsKnowledge ==
  ASSUME IInv,
         UNCHANGED <<lo, hi, clean_change_id, foreign, new_file, external, disk>>,
         \A i \in lo .. hi + 1 : TextAt(i)' = TextAt(i)
  PROVE  CleanHolds'
<1>1. lo \in Nat /\ hi \in Nat /\ clean_change_id \in Int
  BY DEF IInv, HistoryInv, HistoryOK, SaveOK
<1> QED BY <1>1 DEF IInv, CleanHolds

LEMMA KeepsPending ==
  ASSUME IInv,
         UNCHANGED <<lo, hi, pending_save, disk_revision>>,
         \A i \in lo .. hi + 1 : TextAt(i)' = TextAt(i),
         \/ UNCHANGED <<text, text_revision>>
         \/ text_revision' \in Nat /\ text_revision' > text_revision
  PROVE  PendingHolds'
<1>1. CASE pending_save = NoSave
  BY <1>1 DEF PendingHolds
<1>2. CASE pending_save # NoSave
  <2>1. /\ pending_save \in Request /\ lo \in Nat /\ hi \in Nat
        /\ pending_save.revision \in Nat /\ pending_save.change_id \in Nat
        /\ text_revision \in Nat /\ disk_revision \in Nat
    BY <1>2 DEF IInv, HistoryInv, HistoryOK, SaveOK, Request
  <2> QED BY <1>2, <2>1 DEF IInv, PendingHolds
<1> QED BY <1>1, <1>2

-----------------------------------------------------------------------------
LEMMA InitInv == Init => IInv
<1> SUFFICES ASSUME Init PROVE IInv
  OBVIOUS
<1>1. 1 .. 0 = {}
  OBVIOUS
<1>2. HistoryOK
  BY <1>1, TextsAssumption DEF Init, HistoryOK
<1>3. StepsFit /\ HistoryBounded /\ CursorBetweenGroups
  BY UndosAssumption DEF Init, StepsFit, HistoryBounded, CursorBetweenGroups
<1>4. SaveOK
  <2>1. disk \in Texts \cup {NoFile} /\ new_file \in BOOLEAN
    BY DEF Init
  <2>2. /\ text_revision \in Nat \ {0} /\ clean_change_id \in Nat \cup {-1}
        /\ settings \in Settings /\ disk_revision \in Nat
    BY DEF Init
  <2>3. /\ load \in {"none", "pending", "stale", "failed"}
        /\ pending_save \in Request \cup {NoSave}
        /\ jobs \in [RequestIds -> {"unused", "queued", "written", "failed", "done"}]
        /\ external \in BOOLEAN /\ foreign \in BOOLEAN
    BY DEF Init
  <2> QED BY <2>1, <2>2, <2>3 DEF SaveOK
<1>5. CleanHolds /\ PendingHolds /\ disk_revision <= text_revision
  BY DEF Init, CleanHolds, PendingHolds, TextAt
<1> QED BY <1>2, <1>3, <1>4, <1>5 DEF IInv, HistoryInv

LEMMA EditInv ==
  ASSUME IInv, NEW t \in Texts, NEW merge \in BOOLEAN, NEW near \in BOOLEAN,
         Edit(t, merge, near)
  PROVE  IInv'
<1>1. RecordEdit(t, merge, near) /\ UNCHANGED <<new_file, load, settings, jobs, disk, external, disk_revision>>
  BY DEF Edit
<1>2. /\ HistoryInv' /\ undo_idx' = undo_idx + 1 /\ hi' = undo_idx /\ lo' >= lo
      /\ \A i \in lo' .. undo_idx : TextAt(i)' = TextAt(i)
      /\ undo_idx \in Nat /\ lo' \in Nat /\ lo \in Nat /\ hi \in Nat
  BY <1>1, RecordEditHistory DEF IInv, HistoryInv, HistoryOK
<1>3. /\ PendingHolds' /\ pending_save' \in Request \cup {NoSave}
      /\ text_revision' = text_revision + 1
  BY <1>1, RecordEditPending
<1>4. /\ clean_change_id' = IF undo_idx < clean_change_id THEN -1 ELSE clean_change_id
      /\ foreign' = (foreign /\ clean_change_id' # -1)
  BY DEF Edit, CleanIdAfterEdit
<1>5. SaveOK'
  BY <1>1, <1>3, <1>4 DEF SaveOK, IInv
<1>6. CleanHolds'
  <2> SUFFICES ASSUME ~foreign'
               PROVE  /\ clean_change_id' <= hi' + 1
                      /\ ~new_file' /\ ~external' /\ clean_change_id' >= lo' =>
                           TextAt(clean_change_id)' = disk'
    BY DEF CleanHolds
  <2>1. CASE clean_change_id' = -1
    BY <2>1, <1>2
  <2>2. CASE clean_change_id' # -1
    <3>1. /\ ~foreign /\ clean_change_id' = clean_change_id /\ clean_change_id <= undo_idx
          /\ clean_change_id \in Nat
      BY <2>2, <1>2, <1>4 DEF IInv, SaveOK
    <3> QED BY <3>1, <1>1, <1>2 DEF IInv, CleanHolds
  <2> QED BY <2>1, <2>2
<1>7. disk_revision' <= text_revision'
  BY <1>1, <1>3 DEF IInv, SaveOK
<1> QED BY <1>2, <1>3, <1>5, <1>6, <1>7 DEF IInv

LEMMA MoveInv ==
  ASSUME IInv, Undo \/ Redo
  PROVE  IInv'
<1>1. PICK i, t, n : /\ i \in Int /\ n \in Nat \ {0} /\ MoveTo(i, t, n)
  <2>1. CASE Undo
    <3>1. PICK i \in DOMAIN step : UndoStops(i) /\ MoveTo(i, step[i].before, undo_idx - i)
      BY <2>1 DEF Undo
    <3>2. i \in Int /\ undo_idx - i \in Nat \ {0}
      BY <3>1 DEF UndoStops, IInv, HistoryInv, HistoryOK
    <3> QED BY <3>1, <3>2
  <2>2. CASE Redo
    <3>1. PICK i \in 2 .. hi + 1 : RedoStops(i) /\ MoveTo(i, step[i - 1].after, i - undo_idx)
      BY <2>2 DEF Redo
    <3>2. i \in Int /\ i - undo_idx \in Nat \ {0}
      BY <3>1 DEF RedoStops, IInv, HistoryInv, HistoryOK
    <3> QED BY <3>1, <3>2
  <2> QED BY <2>1, <2>2
<1>2. /\ HistoryInv' /\ UNCHANGED <<lo, hi>>
      /\ \A k \in lo .. hi + 1 : TextAt(k)' = TextAt(k)
  BY UndoHistory, RedoHistory DEF IInv
<1>3. /\ text_revision' = text_revision + n
      /\ UNCHANGED <<clean_change_id, new_file, load, settings, pending_save, jobs, disk,
                     external, foreign, disk_revision>>
  BY <1>1 DEF MoveTo
<1>4. text_revision' \in Nat \ {0} /\ text_revision' > text_revision
  BY <1>1, <1>3 DEF IInv, SaveOK
<1>5. SaveOK'
  BY <1>3, <1>4 DEF IInv, SaveOK
<1>6. CleanHolds'
  BY <1>2, <1>3, KeepsKnowledge
<1>7. PendingHolds'
  BY <1>2, <1>3, <1>4, KeepsPending
<1>8. disk_revision' <= text_revision'
  BY <1>3, <1>4 DEF IInv, SaveOK
<1> QED BY <1>2, <1>5, <1>6, <1>7, <1>8 DEF IInv

LEMMA JoinInv ==
  ASSUME IInv, NEW idx \in DOMAIN step, JoinUndoSince(idx)
  PROVE  IInv'
<1>1. /\ HistoryInv' /\ UNCHANGED <<lo, hi>>
      /\ \A k \in lo .. hi + 1 : TextAt(k)' = TextAt(k)
  BY JoinHistory DEF IInv
<1>2. UNCHANGED <<text, text_revision, clean_change_id, new_file, load, settings,
                  pending_save, jobs, disk, external, foreign, disk_revision>>
  BY DEF JoinUndoSince
<1>3. SaveOK' /\ disk_revision' <= text_revision'
  BY <1>2 DEF IInv, SaveOK
<1> QED BY <1>1, <1>2, <1>3, KeepsKnowledge, KeepsPending DEF IInv

LEMMA SaveInv ==
  ASSUME IInv, Save
  PROVE  IInv'
<1>1. HistoryInv' /\ UNCHANGED <<text, lo, hi, undo_idx>> /\ \A i : TextAt(i)' = TextAt(i)
  BY SameHistory DEF IInv, Save, history
<1>2. SaveOK' /\ disk_revision' <= text_revision'
  <2>1. /\ text_revision' \in Nat \ {0} /\ clean_change_id' \in Nat /\ disk' \in Texts
        /\ disk_revision' \in Nat /\ disk_revision' <= text_revision'
    BY DEF IInv, SaveOK, HistoryInv, HistoryOK, Save
  <2>2. /\ new_file' \in BOOLEAN /\ external' \in BOOLEAN /\ foreign' \in BOOLEAN
        /\ pending_save' \in Request \cup {NoSave} /\ settings' \in Settings
    BY DEF Save, Synced
  <2> QED BY <2>1, <2>2 DEF IInv, SaveOK, Save
<1>3. CleanHolds'
  <2>1. undo_idx <= hi + 1
    BY DEF IInv, HistoryInv, HistoryOK
  <2>2. clean_change_id' = undo_idx /\ disk' = text
    BY DEF Save
  <2> QED BY <1>1, <2>1, <2>2, TextAtCursor DEF CleanHolds
<1>4. PendingHolds'
  BY DEF PendingHolds, Save
<1> QED BY <1>1, <1>2, <1>3, <1>4 DEF IInv

\* The steps that change neither the history nor the file nor what the Buffer knows of it.
LEMMA IdleInv ==
  ASSUME IInv,
         UNCHANGED <<text, text_revision, history, clean_change_id, new_file, disk,
                     external, foreign, disk_revision>>,
         SaveOK',
         \/ pending_save' \in {pending_save, NoSave}
         \/ /\ pending_save' # NoSave
            /\ pending_save'.revision = text_revision /\ pending_save'.text = text
            /\ pending_save'.change_id = undo_idx
  PROVE  IInv'
<1>1. /\ HistoryInv' /\ UNCHANGED <<text, lo, hi, undo_idx>> /\ \A i : TextAt(i)' = TextAt(i)
      /\ lo \in Nat /\ hi \in Nat /\ undo_idx \in lo .. hi + 1
      /\ disk_revision \in Nat /\ text_revision \in Nat /\ disk_revision <= text_revision
  BY SameHistory DEF IInv, HistoryInv, HistoryOK, SaveOK, history
<1>2. CleanHolds'
  BY <1>1, KeepsKnowledge
<1>3. PendingHolds'
  <2>1. CASE pending_save' = NoSave
    BY <2>1 DEF PendingHolds
  <2>2. CASE pending_save' = pending_save
    BY <2>2, <1>1, KeepsPending
  <2>3. CASE /\ pending_save' # NoSave
             /\ pending_save'.revision = text_revision /\ pending_save'.text = text
             /\ pending_save'.change_id = undo_idx
    <3>1. TextAt(undo_idx)' = text
      BY <1>1, TextAtCursor
    <3> QED BY <1>1, <2>3, <3>1 DEF PendingHolds
  <2> QED BY <2>1, <2>2, <2>3
<1> QED BY <1>1, <1>2, <1>3 DEF IInv

LEMMA SaveAsyncInv ==
  ASSUME IInv, NEW id \in RequestIds, SaveAsync(id)
  PROVE  IInv'
<1>1. /\ text \in Texts /\ text_revision \in Nat /\ undo_idx \in Nat \ {0}
      /\ settings \in Settings /\ external \in BOOLEAN
  BY DEF IInv, HistoryInv, HistoryOK, SaveOK
<1>2. pending_save' = [id |-> id, text |-> text, revision |-> text_revision,
                       change_id |-> undo_idx, settings |-> settings, forked |-> FALSE,
                       touched |-> external]
  BY DEF SaveAsync
<1>3. pending_save' \in Request
  BY <1>1, <1>2 DEF Request
<1>4. SaveOK'
  BY <1>3 DEF IInv, SaveOK, SaveAsync
<1>5. /\ pending_save'.revision = text_revision /\ pending_save'.text = text
      /\ pending_save'.change_id = undo_idx
  BY <1>2
<1>6. CASE pending_save' = NoSave
  BY <1>4, <1>6, IdleInv DEF SaveAsync
<1>7. CASE pending_save' # NoSave
  BY <1>4, <1>5, <1>7, IdleInv DEF SaveAsync
<1> QED BY <1>6, <1>7

\* The prepared save: the file gets the text of the request, and the clean id names it.
LEMMA AsyncSavedInv ==
  ASSUME IInv, NEW id \in RequestIds, AsyncSaved(id)
  PROVE  IInv'
<1>1. /\ HistoryInv' /\ UNCHANGED <<text, text_revision, lo, hi, undo_idx>>
      /\ \A i : TextAt(i)' = TextAt(i)
  BY SameHistory DEF IInv, AsyncSaved, history
<1>2. /\ pending_save # NoSave /\ pending_save \in Request /\ PendingHolds
      /\ pending_save.change_id \in Nat /\ pending_save.text \in Texts
      /\ pending_save.revision \in Nat /\ pending_save.forked \in BOOLEAN
  BY DEF IInv, SaveOK, AsyncSaved, IsPending, Request
<1>3. /\ disk' = pending_save.text /\ clean_change_id' = PreparedCleanId(pending_save)
      /\ foreign' = (pending_save.forked /\ undo_idx # pending_save.change_id)
      /\ disk_revision' = pending_save.revision /\ pending_save' = NoSave
      /\ new_file' = FALSE /\ external' = FALSE /\ UNCHANGED <<load, settings>>
      /\ jobs' = [jobs EXCEPT ![id] = "done"]
  BY DEF AsyncSaved, Arrived
<1>4. SaveOK'
  <2>1. clean_change_id' \in Nat \cup {-1} /\ disk' \in Texts /\ disk_revision' \in Nat
    BY <1>2, <1>3 DEF PreparedCleanId
  <2>2. foreign' \in BOOLEAN
    BY <1>3
  <2>3. jobs' \in [RequestIds -> {"unused", "queued", "written", "failed", "done"}]
    BY <1>3 DEF IInv, SaveOK
  <2> QED BY <1>1, <1>3, <2>1, <2>2, <2>3 DEF IInv, SaveOK
<1>5. disk_revision' <= text_revision'
  BY <1>1, <1>2, <1>3 DEF PendingHolds
<1>6. CleanHolds'
  <2> SUFFICES ASSUME ~foreign'
               PROVE  /\ clean_change_id' <= hi' + 1
                      /\ clean_change_id' >= lo' => TextAt(clean_change_id)' = disk'
    BY DEF CleanHolds
  <2>1. /\ lo \in Nat \ {0} /\ hi \in Nat /\ undo_idx \in lo .. hi + 1
        /\ TextAt(clean_change_id)' = TextAt(clean_change_id')
    BY <1>1 DEF IInv, HistoryInv, HistoryOK, TextAt
  <2>2. CASE undo_idx = pending_save.change_id
    <3>1. CASE text_revision # pending_save.revision /\ text # pending_save.text
      BY <1>1, <1>3, <2>1, <2>2, <3>1 DEF PreparedCleanId
    <3>2. CASE text = pending_save.text
      <4>1. clean_change_id' = undo_idx /\ TextAt(undo_idx) = text
        BY <1>3, <2>2, <3>2, TextAtCursor DEF PreparedCleanId
      <4> QED BY <1>1, <1>3, <2>1, <3>2, <4>1
    <3>3. CASE text_revision = pending_save.revision
      BY <1>2, <3>2, <3>3 DEF PendingHolds
    <3> QED BY <3>1, <3>2, <3>3
  <2>3. CASE undo_idx # pending_save.change_id
    <3>1. ~pending_save.forked
      BY <1>2, <1>3, <2>3
    <3>2. clean_change_id' = pending_save.change_id
      BY <1>3, <2>3 DEF PreparedCleanId
    <3>3. /\ pending_save.change_id <= hi + 1
          /\ pending_save.change_id >= lo => TextAt(pending_save.change_id) = pending_save.text
      BY <1>2, <3>1 DEF PendingHolds
    <3> QED BY <1>1, <1>3, <2>1, <3>2, <3>3
  <2> QED BY <2>2, <2>3
<1>7. PendingHolds'
  BY <1>3 DEF PendingHolds
<1> QED BY <1>1, <1>4, <1>5, <1>6, <1>7 DEF IInv

LEMMA PublishInv ==
  ASSUME IInv, Publish, new_file' \in BOOLEAN
  PROVE  IInv'
<1>1. text' \in Texts /\ disk' = disk /\ text' = disk
  BY DEF IInv, SaveOK, Publish
<1>2. HistoryInv' /\ lo' = 1 /\ hi' = 0 /\ undo_idx' = 1
  BY <1>1, ClearedHistory DEF Publish
<1>3. SaveOK' /\ disk_revision' <= text_revision'
  <2>1. text_revision' = text_revision + 1 /\ disk_revision' = disk_revision
    BY DEF Publish
  <2>2. text_revision' \in Nat \ {0} /\ disk_revision' <= text_revision'
    BY <2>1 DEF IInv, SaveOK
  <2> QED BY <2>2 DEF IInv, SaveOK, Publish, Synced
<1>4. CleanHolds'
  <2>1. TextAt(clean_change_id)' = text'
    BY <1>2 DEF TextAt, Publish
  <2>2. clean_change_id' = 1
    BY DEF Publish
  <2> QED BY <1>1, <1>2, <2>1, <2>2 DEF CleanHolds
<1>5. PendingHolds'
  BY DEF Publish, PendingHolds
<1> QED BY <1>2, <1>3, <1>4, <1>5 DEF IInv

LEMMA ReloadInv ==
  ASSUME IInv, Reload
  PROVE  IInv'
<1>1. /\ disk \in Texts /\ disk' = disk /\ clean_change_id' = undo_idx'
      /\ external' = FALSE /\ foreign' = FALSE
      /\ UNCHANGED <<new_file, load, settings, jobs, disk_revision>>
  BY DEF Reload, Synced, IInv, SaveOK
<1>2. /\ HistoryInv' /\ PendingHolds' /\ pending_save' \in Request \cup {NoSave}
      /\ text' = disk /\ text_revision' \in Nat \ {0} /\ text_revision' >= text_revision
  <2>1. CASE disk = text
    <3>1. UNCHANGED <<text, text_revision, history, pending_save>>
      BY <2>1 DEF Reload
    <3>2. HistoryInv' /\ UNCHANGED <<lo, hi>> /\ \A i : TextAt(i)' = TextAt(i)
      BY <3>1, SameHistory DEF IInv
    <3>3. PendingHolds'
      BY <1>1, <3>1, <3>2, KeepsPending
    <3> QED BY <2>1, <3>1, <3>2, <3>3 DEF IInv, SaveOK
  <2>2. CASE disk # text
    <3>1. RecordEdit(disk, FALSE, FALSE)
      BY <2>2 DEF Reload
    <3>2. HistoryInv' /\ text' = disk
      BY <1>1, <3>1, RecordEditHistory DEF IInv
    <3>3. /\ PendingHolds' /\ pending_save' \in Request \cup {NoSave}
          /\ text_revision' = text_revision + 1
      BY <1>1, <3>1, RecordEditPending
    <3> QED BY <3>2, <3>3 DEF IInv, SaveOK
  <2> QED BY <2>1, <2>2
<1>3. clean_change_id' \in Nat
  BY <1>1, <1>2 DEF HistoryInv, HistoryOK
<1>4. SaveOK' /\ disk_revision' <= text_revision'
  <2>1. disk_revision' \in Nat /\ disk_revision' <= text_revision'
    BY <1>1, <1>2 DEF IInv, SaveOK
  <2>2. external' \in BOOLEAN /\ foreign' \in BOOLEAN
    BY <1>1
  <2> QED BY <1>1, <1>2, <1>3, <2>1, <2>2 DEF IInv, SaveOK
<1>5. CleanHolds'
  <2>1. TextAt(undo_idx)' = text' /\ undo_idx' <= hi' + 1
    BY <1>2 DEF TextAt, HistoryInv, HistoryOK
  <2>2. TextAt(clean_change_id)' = TextAt(undo_idx)'
    BY <1>1 DEF TextAt
  <2> QED BY <1>1, <1>2, <2>1, <2>2 DEF CleanHolds
<1> QED BY <1>2, <1>4, <1>5 DEF IInv

\* Another program writes: from here on the Buffer makes no claim about the file.
LEMMA ExternalInv ==
  ASSUME IInv, ExternalWrite
  PROVE  IInv'
<1>1. /\ HistoryInv' /\ UNCHANGED <<text, lo, hi, undo_idx>> /\ \A i : TextAt(i)' = TextAt(i)
  BY SameHistory DEF IInv, ExternalWrite, history
<1>2. /\ external' = TRUE
      /\ UNCHANGED <<text_revision, clean_change_id, new_file, load, settings, jobs, foreign,
                     disk_revision>>
      /\ pending_save' = IF pending_save = NoSave THEN NoSave
                         ELSE [pending_save EXCEPT !.touched = TRUE]
      /\ disk' \in Texts \cup {NoFile}
  BY DEF ExternalWrite
<1>3. pending_save' \in Request \cup {NoSave}
  BY <1>2 DEF IInv, SaveOK, Request
<1>4. SaveOK' /\ disk_revision' <= text_revision'
  <2>1. external' \in BOOLEAN
    BY <1>2
  <2> QED BY <1>2, <1>3, <2>1 DEF IInv, SaveOK
<1>5. CleanHolds'
  <2>1. lo \in Nat /\ hi \in Nat /\ clean_change_id \in Int
    BY DEF IInv, HistoryInv, HistoryOK, SaveOK
  <2> QED BY <1>1, <1>2, <2>1 DEF IInv, CleanHolds
<1>6. PendingHolds'
  <2>1. CASE pending_save = NoSave
    BY <1>2, <2>1 DEF PendingHolds
  <2>2. CASE pending_save # NoSave
    <3>1. pending_save \in Request
      BY <2>2 DEF IInv, SaveOK
    <3>2. /\ pending_save'.text = pending_save.text
          /\ pending_save'.revision = pending_save.revision
          /\ pending_save'.change_id = pending_save.change_id
          /\ pending_save'.forked = pending_save.forked
      BY <1>2, <2>2, <3>1 DEF Request
    <3> QED BY <1>1, <1>2, <2>2, <3>2 DEF IInv, PendingHolds
  <2> QED BY <2>1, <2>2
<1> QED BY <1>1, <1>4, <1>5, <1>6 DEF IInv

LEMMA MissingInv ==
  ASSUME IInv, MarkFileMissing
  PROVE  IInv'
<1>1. /\ HistoryInv' /\ UNCHANGED <<text, lo, hi, undo_idx>> /\ \A i : TextAt(i)' = TextAt(i)
  BY SameHistory DEF IInv, MarkFileMissing, history
<1>2. /\ new_file' = FALSE /\ clean_change_id' = undo_idx /\ external' = TRUE /\ foreign' = FALSE
      /\ UNCHANGED <<text_revision, load, settings, pending_save, jobs, disk, disk_revision>>
      /\ undo_idx \in Nat /\ undo_idx <= hi + 1
  BY DEF MarkFileMissing, IInv, HistoryInv, HistoryOK
<1>3. SaveOK' /\ disk_revision' <= text_revision'
  <2>1. new_file' \in BOOLEAN /\ external' \in BOOLEAN /\ foreign' \in BOOLEAN
    BY <1>2
  <2> QED BY <1>2, <2>1 DEF IInv, SaveOK
<1>4. CleanHolds'
  BY <1>1, <1>2 DEF CleanHolds
<1>5. PendingHolds'
  BY <1>1, <1>2, KeepsPending
<1> QED BY <1>1, <1>3, <1>4, <1>5 DEF IInv

LEMMA NextInv == IInv /\ [Next]_vars => IInv'
<1> SUFFICES ASSUME IInv, [Next]_vars PROVE IInv'
  OBVIOUS
<1>1. CASE \E t \in Texts, merge, near \in BOOLEAN : Edit(t, merge, near)
  BY <1>1, EditInv
<1>2. CASE \E idx \in DOMAIN step : JoinUndoSince(idx)
  BY <1>2, JoinInv
<1>3. CASE Undo \/ Redo
  BY <1>3, MoveInv
<1>4. CASE Save
  BY <1>4, SaveInv
<1>5. CASE SaveFails
  BY <1>5, IdleInv DEF SaveFails, IInv, SaveOK
<1>6. ASSUME NEW id \in RequestIds, SaveAsync(id) PROVE IInv'
  BY <1>6, SaveAsyncInv
<1>7. ASSUME NEW id \in RequestIds, WriteTemporary(id) PROVE IInv'
  BY <1>7, IdleInv DEF WriteTemporary, IInv, SaveOK
<1>8. ASSUME NEW id \in RequestIds, DropResult(id) PROVE IInv'
  BY <1>8, IdleInv DEF DropResult, Arrived, IInv, SaveOK
<1>9. ASSUME NEW id \in RequestIds, AsyncSaveFails(id) PROVE IInv'
  BY <1>9, IdleInv DEF AsyncSaveFails, Arrived, IInv, SaveOK
<1>10. ASSUME NEW id \in RequestIds, AsyncSaved(id) PROVE IInv'
  BY <1>10, AsyncSavedInv
<1>11. CASE Load
  <2>1. Publish /\ new_file' \in BOOLEAN
    BY <1>11 DEF Load, IInv, SaveOK
  <2> QED BY <2>1, PublishInv
<1>12. CASE LoadAsync
  BY <1>12, IdleInv DEF LoadAsync, IInv, SaveOK
<1>13. CASE LoadAsyncDone
  <2>1. Publish /\ new_file' \in BOOLEAN
    BY <1>13 DEF LoadAsyncDone
  <2> QED BY <2>1, PublishInv
<1>14. CASE LoadAsyncFails
  BY <1>14, IdleInv DEF LoadAsyncFails, IInv, SaveOK
<1>15. CASE Reload
  BY <1>15, ReloadInv
<1>16. CASE MarkFileMissing
  BY <1>16, MissingInv
<1>17. CASE ChangeSettings
  BY <1>17, IdleInv DEF ChangeSettings, IInv, SaveOK
<1>18. CASE ExternalWrite
  BY <1>18, ExternalInv
<1>19. CASE UNCHANGED vars
  BY <1>19, IdleInv DEF vars, history, IInv, SaveOK
<1> QED BY <1>1, <1>2, <1>3, <1>4, <1>5, <1>6, <1>7, <1>8, <1>9, <1>10, <1>11, <1>12,
           <1>13, <1>14, <1>15, <1>16, <1>17, <1>18, <1>19 DEF Next

LEMMA Invariance == Spec => []IInv
  BY InitInv, NextInv, PTL DEF Spec

-----------------------------------------------------------------------------
\* The variables keep their types (every field of buffer/init.lua that the module has).
THEOREM TypeCorrect == Spec => []TypeOK
<1>1. IInv => TypeOK
  BY TypeSplit DEF IInv, HistoryInv
<1> QED BY <1>1, Invariance, PTL

\* Every undo and redo step fits the text it is applied to (pop_undo, apply_edits).
THEOREM HistoryCorrect == Spec => [](StepsFit /\ HistoryBounded /\ CursorBetweenGroups)
<1>1. IInv => StepsFit /\ HistoryBounded /\ CursorBetweenGroups
  BY DEF IInv, HistoryInv
<1> QED BY <1>1, Invariance, PTL

\* A Buffer that shows as saved has the text of its file (is_dirty, save, save_async,
\* reload, load), with the exceptions that CleanIsSaved names.
THEOREM SavedCorrect == Spec => []CleanIsSaved
<1>1. IInv => CleanIsSaved
  <2> SUFFICES ASSUME IInv, ~Dirty, ~external, ~foreign PROVE text = disk
    BY DEF CleanIsSaved
  <2>1. clean_change_id = undo_idx /\ ~new_file
    BY DEF Dirty
  <2>2. undo_idx >= lo
    BY DEF IInv, HistoryInv, HistoryOK
  <2> QED BY <2>1, <2>2, TextAtCursor DEF IInv, CleanHolds
<1> QED BY <1>1, Invariance, PTL

\* Without background saves no exception for them is needed: a Buffer whose saves are
\* all synchronous and that shows as saved has the text of its file.
NoBackground == pending_save = NoSave /\ ~foreign /\ \A id \in RequestIds : jobs[id] = "unused"
THEOREM SynchronousSavedCorrect ==
  ASSUME AsyncSaves = FALSE
  PROVE  Spec => []LaterEditsRemainDirty
<1>1. Init => NoBackground
  BY DEF Init, NoBackground
<1>2. NoBackground /\ [Next]_vars => NoBackground'
  <2> SUFFICES ASSUME NoBackground, [Next]_vars PROVE NoBackground'
    OBVIOUS
  <2>1. \A id \in RequestIds : /\ ~SaveAsync(id) /\ ~WriteTemporary(id) /\ ~DropResult(id)
                               /\ ~AsyncSaveFails(id) /\ ~AsyncSaved(id)
    BY DEF NoBackground, SaveAsync, CanSaveAsync, WriteTemporary, DropResult, AsyncSaveFails,
           AsyncSaved, Arrived
  <2>2. pending_save' = NoSave
    BY <2>1 DEF NoBackground, Next, Edit, RecordEdit, JoinUndoSince, Undo, Redo, MoveTo, Save,
                SaveFails, Load, LoadAsync, LoadAsyncDone, LoadAsyncFails, Publish, Reload,
                MarkFileMissing, ChangeSettings, ExternalWrite, vars
  <2>3. ~foreign'
    BY <2>1 DEF NoBackground, Next, Edit, JoinUndoSince, Undo, Redo, MoveTo, Save, Synced,
                SaveFails, Load, LoadAsync, LoadAsyncDone, LoadAsyncFails, Publish, Reload,
                MarkFileMissing, ChangeSettings, ExternalWrite, vars
  <2>4. jobs' = jobs
    BY <2>1 DEF Next, Edit, JoinUndoSince, Undo, Redo, MoveTo, Save,
                SaveFails, Load, LoadAsync, LoadAsyncDone, LoadAsyncFails, Publish, Reload,
                MarkFileMissing, ChangeSettings, ExternalWrite, vars
  <2> QED BY <2>2, <2>3, <2>4 DEF NoBackground
<1>3. NoBackground /\ CleanIsSaved => LaterEditsRemainDirty
  BY DEF NoBackground, CleanIsSaved, LaterEditsRemainDirty
<1> QED BY <1>1, <1>2, <1>3, SavedCorrect, PTL DEF Spec

\* A late result of a background save never takes the file back behind a newer save
\* (save, save_async, cancel_pending_save).
THEOREM WritesGoForward == Spec => NeverOlder
<1>1. IInv /\ [Next]_vars => disk_revision' >= disk_revision
  <2> SUFFICES ASSUME IInv, [Next]_vars PROVE disk_revision' >= disk_revision
    OBVIOUS
  <2>1. disk_revision \in Nat /\ disk_revision <= text_revision /\ text_revision \in Nat
    BY DEF IInv, SaveOK
  <2>2. CASE Save
    BY <2>1, <2>2 DEF Save
  <2>3. ASSUME NEW id \in RequestIds, AsyncSaved(id) PROVE disk_revision' >= disk_revision
    BY <2>3 DEF AsyncSaved, IsPending, IInv, PendingHolds
  <2>4. CASE ~Save /\ \A id \in RequestIds : ~AsyncSaved(id)
    <3>1. disk_revision' = disk_revision
      BY <2>4 DEF Next, Edit, JoinUndoSince, Undo, Redo, MoveTo, SaveFails, SaveAsync,
             WriteTemporary, DropResult, AsyncSaveFails, Load, LoadAsync, LoadAsyncDone,
             LoadAsyncFails, Publish, Reload, MarkFileMissing, ChangeSettings, ExternalWrite, vars
    <3> QED BY <2>1, <3>1
  <2> QED BY <2>2, <2>3, <2>4
<1> QED BY <1>1, Invariance, PTL DEF Spec, NeverOlder

\* Only the end of a background save changes what a job is and the file in one step.
LEMMA JobsAndFile ==
  ASSUME [Next]_vars, NEW id \in RequestIds, jobs'[id] # jobs[id], disk' # disk
  PROVE  \E other \in RequestIds : AsyncSaved(other)
<1>1. ~Save /\ ~ExternalWrite
  BY DEF Save, ExternalWrite
<1>2. SUFFICES ASSUME \A other \in RequestIds : ~AsyncSaved(other) PROVE disk' = disk
  OBVIOUS
<1> QED BY <1>1, <1>2 DEF Next, Edit, JoinUndoSince, Undo, Redo, MoveTo, SaveFails, SaveAsync,
           WriteTemporary, DropResult, AsyncSaveFails, Load, LoadAsync, LoadAsyncDone,
           LoadAsyncFails, Publish, Reload, MarkFileMissing, ChangeSettings, vars

\* A file that another program changed or removed since a background save began is known to
\* that save (file_id, and the guard that autosave passes).
TouchInv == pending_save # NoSave /\ (external \/ disk = NoFile) => pending_save.touched

LEMMA TouchStep == IInv /\ TouchInv /\ [Next]_vars => TouchInv'
<1> SUFFICES ASSUME IInv, TouchInv, [Next]_vars, pending_save' # NoSave, external' \/ disk' = NoFile
             PROVE  pending_save'.touched
  BY DEF TouchInv
<1>1. pending_save \in Request \cup {NoSave}
  BY DEF IInv, SaveOK
<1>2. CASE ExternalWrite
  BY <1>1, <1>2 DEF ExternalWrite, Request
<1>3. ASSUME NEW id \in RequestIds, SaveAsync(id) PROVE pending_save'.touched
  <2>1. pending_save'.touched = external /\ external' = external /\ disk' = disk /\ disk # NoFile
    BY <1>3 DEF SaveAsync, CanSaveAsync
  <2> QED BY <2>1
<1>4. CASE MarkFileMissing
  BY <1>4 DEF MarkFileMissing, TouchInv
<1>5. ASSUME NEW t, NEW merge, NEW near, RecordEdit(t, merge, near)
      PROVE  pending_save # NoSave /\ pending_save'.touched = pending_save.touched
  BY <1>1, <1>5 DEF RecordEdit, Request
<1>6. ASSUME NEW t \in Texts, NEW merge \in BOOLEAN, NEW near \in BOOLEAN, Edit(t, merge, near)
      PROVE  pending_save'.touched
  <2>1. UNCHANGED <<external, disk>> /\ RecordEdit(t, merge, near)
    BY <1>6 DEF Edit
  <2> QED BY <1>5, <2>1 DEF TouchInv
<1>7. CASE Reload
  BY <1>7 DEF Reload, Synced
<1>8. CASE /\ ~ExternalWrite /\ ~MarkFileMissing /\ ~Reload /\ \A id \in RequestIds : ~SaveAsync(id)
           /\ \A t \in Texts, merge, near \in BOOLEAN : ~Edit(t, merge, near)
  <2>1. pending_save' = pending_save /\ external' = external /\ disk' = disk
    BY <1>8 DEF Next, JoinUndoSince, Undo, Redo, MoveTo, Save, SaveFails, WriteTemporary, DropResult,
           AsyncSaveFails, AsyncSaved, Load, LoadAsync, LoadAsyncDone, LoadAsyncFails, Publish,
           ChangeSettings, vars
  <2> QED BY <2>1 DEF TouchInv
<1> QED BY <1>2, <1>3, <1>4, <1>6, <1>7, <1>8

\* A background save never replaces a file that another program changed since the Buffer
\* last read or wrote it (save_async, the guard of autosave).
THEOREM OthersWorkIsKept == Spec => BackgroundKeepsOtherWork
<1>1. Init => TouchInv
  BY DEF Init, TouchInv
<1>2. IInv /\ TouchInv /\ [Next]_vars =>
        \A id \in RequestIds : jobs'[id] # jobs[id] /\ external => disk' = disk
  <2> SUFFICES ASSUME IInv, TouchInv, [Next]_vars, NEW id \in RequestIds,
                      jobs'[id] # jobs[id], external, disk' # disk
               PROVE  FALSE
    OBVIOUS
  <2>1. PICK other \in RequestIds : AsyncSaved(other)
    BY JobsAndFile
  <2> QED BY <2>1 DEF AsyncSaved, IsPending, GuardAllows, TouchInv
<1> QED BY <1>1, <1>2, TouchStep, Invariance, PTL DEF Spec, BackgroundKeepsOtherWork

\* The step that ends a background save leaves the Buffer saved only with the text that was
\* written (save with a prepared save).
THEOREM SavedIsWritten == Spec => FinishIsHonest
<1>1. ASSUME IInv, [Next]_vars, NEW id \in RequestIds, jobs'[id] # jobs[id], disk' # disk, ~Dirty'
      PROVE  text' = disk'
  <2>1. PICK other \in RequestIds : AsyncSaved(other)
    BY <1>1, JobsAndFile
  <2>2. /\ disk' = pending_save.text /\ text' = text /\ undo_idx' = undo_idx
        /\ clean_change_id' = PreparedCleanId(pending_save) /\ pending_save # NoSave
    BY <2>1 DEF AsyncSaved, IsPending, history
  <2>3. clean_change_id' = undo_idx /\ undo_idx \in Nat
    BY <1>1, <2>2 DEF Dirty, IInv, HistoryInv, HistoryOK
  <2>4. pending_save.change_id = undo_idx
        /\ (text_revision = pending_save.revision \/ text = pending_save.text)
    BY <2>2, <2>3 DEF PreparedCleanId
  <2> QED BY <1>1, <2>2, <2>4 DEF IInv, PendingHolds
<1>2. IInv /\ [Next]_vars => \A id \in RequestIds :
        jobs'[id] # jobs[id] /\ disk' # disk /\ ~Dirty' => text' = disk'
  BY <1>1
<1> QED BY <1>2, Invariance, PTL DEF Spec, FinishIsHonest
=============================================================================
