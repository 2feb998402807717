---------------------------- MODULE BufferHistory ----------------------------
(***************************************************************************)
(* One Buffer of the editor and the file it shows: the undo and redo        *)
(* stacks, the change id at which the Buffer counts as saved, synchronous   *)
(* saves, background ("prepared") saves, loads and reloads                  *)
(* (src/data/core/buffer/init.lua).                                         *)
(*                                                                          *)
(* A text is a value: a batch of edits takes the Buffer from one text to    *)
(* another, and its undo step knows both. The code keeps two stacks; a step *)
(* that leaves one enters the other, so together they are one line of steps *)
(* with the cursor undo_idx between them:                                   *)
(*   undo_stack[i] for i in lo .. undo_idx-1, redo_stack holds the rest up  *)
(*   to hi, nearest first. undo_idx is undo_stack.idx, the change id.       *)
(* raw_insert and raw_remove, the legacy entries of the stacks, have no     *)
(* caller that passes an undo stack, so every step is a batch.              *)
(***************************************************************************)
EXTENDS Integers, FiniteSets

CONSTANTS
  Texts,        \* the texts a Buffer or a file can hold
  Empty,        \* the text of a new Buffer
  NoFile,       \* stands for a file that does not exist
  NoSave,       \* stands for pending_save == nil
  Settings,     \* encoding, line ending, BOM and path, as one value
  MaxUndos,     \* config.max_undos
  AsyncSaves,   \* can_save_async() of this Buffer, apart from the file's presence
  Grouping,     \* bound: whether steps can merge and join, or each stands alone
  MaxRevision,  \* bound: text_revision stops here
  MaxRequests   \* bound: background saves started

ASSUME TextsAssumption == Empty \in Texts /\ NoFile \notin Texts
ASSUME UndosAssumption == MaxUndos \in Nat \ {0}
ASSUME BoundsAssumption == MaxRevision \in Nat /\ MaxRequests \in Nat
ASSUME AsyncAssumption == AsyncSaves \in BOOLEAN
ASSUME GroupingAssumption == Grouping \in BOOLEAN

VARIABLES
  text,             \* self.lines
  text_revision,    \* self.text_revision
  step,             \* the steps of both stacks, by change id
  lo, hi,           \* the first and the last change id that has a step
  undo_idx,         \* undo_stack.idx
  clean_change_id,  \* self.clean_change_id, -1 when no step leads to it
  new_file,         \* self.new_file
  load,             \* "none", "pending" (pending_load) or "failed" (load_error)
  settings,         \* self.encoding, crlf, bom, abs_filename
  pending_save,     \* self.pending_save
  jobs,             \* the worker's jobs: request id -> "queued", "written", "failed"
  disk,             \* the file
  external,         \* history: another program changed the file since the Buffer read or wrote it
  foreign,          \* history: clean_change_id names a step that a later edit replaced
  disk_revision     \* history: text_revision of the text the Buffer last wrote

history == <<step, lo, hi, undo_idx>>
vars == <<text, text_revision, step, lo, hi, undo_idx, clean_change_id, new_file, load,
          settings, pending_save, jobs, disk, external, foreign, disk_revision>>

RequestIds == 1 .. MaxRequests

\* What a step of the history holds. merge: merge_undo ~= false. near: the step came
\* within undo_merge_timeout of the one before it. joins: joins_previous.
Step == [before : Texts, after : Texts, merge : BOOLEAN, near : BOOLEAN, joins : BOOLEAN]

\* What a background save remembers of the Buffer. forked is a history field: an
\* edit replaced a step below change_id while the save ran. touched stands for the
\* state of the file that the guard expects: another program changed it since the
\* Buffer last read or wrote it.
Request == [id : RequestIds, text : Texts, revision : Nat, change_id : Nat \ {0},
            settings : Settings, forked : BOOLEAN, touched : BOOLEAN]

-----------------------------------------------------------------------------
Loading == load = "pending"
Editable == load = "none"

\* Buffer:is_dirty, for a Buffer with a file name.
Dirty == new_file \/ clean_change_id # undo_idx

\* True when step i undoes and redoes together with step i-1.
Linked(i) ==
  /\ i - 1 \in DOMAIN step /\ i \in DOMAIN step
  /\ \/ step[i].joins
     \/ step[i].merge /\ step[i - 1].merge /\ step[i].near

\* The change id where an undo from here stops, and the one where a redo stops.
UndoStops(i) == /\ i \in lo .. undo_idx - 1
                /\ \A j \in i + 1 .. undo_idx - 1 : Linked(j)
                /\ i > lo => ~Linked(i)
RedoStops(i) == /\ i \in undo_idx + 1 .. hi + 1
                /\ \A j \in undo_idx + 1 .. i - 1 : Linked(j)
                /\ i <= hi => ~Linked(i)

\* Mutant: a load keeps both stacks.
KeepUndoRedo == UNCHANGED <<step, lo, hi, undo_idx>>

\* clear_undo_redo: both stacks empty, the next change id is 1.
ClearUndoRedo == /\ step' = [i \in {} |-> 0]
                 /\ lo' = 1 /\ hi' = 0 /\ undo_idx' = 1

\* push_batch_undo of a new step, after redo_stack was cleared. The oldest step goes
\* when the stack is full.
Push(s) ==
  LET low == IF undo_idx - lo >= MaxUndos THEN lo + 1 ELSE lo
  IN /\ step' = [i \in low .. undo_idx |-> IF i = undo_idx THEN s ELSE step[i]]
     /\ lo' = low
     /\ hi' = undo_idx
     /\ undo_idx' = undo_idx + 1

\* The Buffer has what the file has.
Synced == external' = FALSE /\ foreign' = FALSE

-----------------------------------------------------------------------------
\* A Buffer opens on a file it has read, or on a name without a file.
Init ==
  /\ \/ disk \in Texts /\ text = disk /\ new_file = FALSE
     \/ disk = NoFile /\ text = Empty /\ new_file = TRUE
  /\ text_revision = 1
  /\ step = [i \in {} |-> 0] /\ lo = 1 /\ hi = 0 /\ undo_idx = 1
  /\ clean_change_id = 1
  /\ load = "none"
  /\ settings \in Settings
  /\ pending_save = NoSave
  /\ jobs = [r \in RequestIds |-> "unused"]
  /\ external = FALSE /\ foreign = FALSE /\ disk_revision = 1

\* apply_edits with record_undo: the redo steps go, and a clean id above the cursor
\* with them.
RecordEdit(t, merge, near) ==
  /\ Push([before |-> text, after |-> t, merge |-> merge, near |-> near, joins |-> FALSE])
  /\ text' = t
  /\ text_revision' = text_revision + 1
  /\ pending_save' =
       IF pending_save # NoSave /\ undo_idx < pending_save.change_id
       THEN [pending_save EXCEPT !.forked = TRUE]
       ELSE pending_save

\* Mutant: the clean id stays.
CleanIdStays == clean_change_id

\* A clean id above the cursor belongs to a step that the edit replaces.
CleanIdAfterEdit == IF undo_idx < clean_change_id THEN -1 ELSE clean_change_id

Edit(t, merge, near) ==
  /\ Editable
  /\ text_revision < MaxRevision
  /\ near => merge
  /\ ~Grouping => merge /\ ~near
  /\ RecordEdit(t, merge, near)
  /\ clean_change_id' = CleanIdAfterEdit
  /\ foreign' = (foreign /\ clean_change_id' # -1)
  /\ UNCHANGED <<new_file, load, settings, jobs, disk, external, disk_revision>>

\* join_undo_since(idx): the steps after idx undo with the step at idx.
JoinUndoSince(idx) ==
  /\ Grouping
  /\ idx \in lo .. undo_idx - 2
  /\ step' = [i \in DOMAIN step |->
       IF i \in idx + 1 .. undo_idx - 1 THEN [step[i] EXCEPT !.joins = TRUE] ELSE step[i]]
  /\ UNCHANGED <<text, text_revision, lo, hi, undo_idx, clean_change_id, new_file, load,
                 settings, pending_save, jobs, disk, external, foreign, disk_revision>>

\* Buffer:undo and Buffer:redo: pop_undo runs until the next step is not linked.
\* apply_edits cannot reject an undo step: only a loading Buffer rejects edits, and
\* the inverse edits of a batch never overlap.
MoveTo(i, t, moved) ==
  /\ Editable
  /\ text_revision + moved <= MaxRevision
  /\ undo_idx' = i
  /\ text' = t
  /\ text_revision' = text_revision + moved
  /\ UNCHANGED <<step, lo, hi, clean_change_id, new_file, load, settings, pending_save,
                 jobs, disk, external, foreign, disk_revision>>

Undo == \E i \in DOMAIN step : UndoStops(i) /\ MoveTo(i, step[i].before, undo_idx - i)

Redo == \E i \in 2 .. hi + 1 : RedoStops(i) /\ MoveTo(i, step[i - 1].after, i - undo_idx)

-----------------------------------------------------------------------------
\* Mutant: a save lets the background save go on.
SaveKeepsPending ==
  /\ Editable
  /\ settings' \in Settings
  /\ disk' = text /\ new_file' = FALSE /\ clean_change_id' = undo_idx
  /\ Synced /\ disk_revision' = text_revision
  /\ UNCHANGED <<text, text_revision, history, load, jobs, pending_save>>

\* Buffer:save without a prepared save, and Save As, which can change the settings.
\* A pending background save ends first, also when the write then fails.
Save ==
  /\ Editable
  /\ settings' \in Settings
  /\ disk' = text
  /\ new_file' = FALSE
  /\ clean_change_id' = undo_idx
  /\ pending_save' = NoSave
  /\ Synced
  /\ disk_revision' = text_revision
  /\ UNCHANGED <<text, text_revision, history, load, jobs>>

SaveFails ==
  /\ Editable
  /\ pending_save' = NoSave
  /\ UNCHANGED <<text, text_revision, history, clean_change_id, new_file, load, settings,
                 jobs, disk, external, foreign, disk_revision>>

\* can_save_async: the file must exist and the Buffer must not be loading.
CanSaveAsync == AsyncSaves /\ Editable /\ disk # NoFile

NextRequest(id) == /\ jobs[id] = "unused"
                   /\ \A r \in RequestIds : r < id => jobs[r] # "unused"

SaveAsync(id) ==
  /\ pending_save = NoSave
  /\ CanSaveAsync
  /\ NextRequest(id)
  /\ pending_save' = [id |-> id, text |-> text, revision |-> text_revision,
                      change_id |-> undo_idx, settings |-> settings, forked |-> FALSE,
                      touched |-> external]
  /\ jobs' = [jobs EXCEPT ![id] = "queued"]
  /\ UNCHANGED <<text, text_revision, history, clean_change_id, new_file, load, settings,
                 disk, external, foreign, disk_revision>>

\* The file_io worker writes the temporary file, or fails, or was told to stop.
WriteTemporary(id) ==
  /\ jobs[id] = "queued"
  /\ \E outcome \in {"written", "failed"} : jobs' = [jobs EXCEPT ![id] = outcome]
  /\ UNCHANGED <<text, text_revision, history, clean_change_id, new_file, load, settings,
                 pending_save, disk, external, foreign, disk_revision>>

\* The worker's message on the UI thread. IsPending: the request is still the Buffer's.
Arrived(id) == jobs[id] \in {"written", "failed"} /\ jobs' = [jobs EXCEPT ![id] = "done"]
IsPending(id) == pending_save # NoSave /\ pending_save.id = id

DropResult(id) ==
  /\ Arrived(id)
  /\ ~IsPending(id)
  /\ UNCHANGED <<text, text_revision, history, clean_change_id, new_file, load, settings,
                 pending_save, disk, external, foreign, disk_revision>>

\* Mutant: a failed background save stays pending.
FailureStaysPending(id) ==
  /\ Arrived(id) /\ IsPending(id)
  /\ UNCHANGED <<text, text_revision, history, clean_change_id, new_file, load, settings,
                 pending_save, disk, external, foreign, disk_revision>>

\* The worker failed, the settings changed, or the guard or the replacement refused.
AsyncSaveFails(id) ==
  /\ Arrived(id)
  /\ IsPending(id)
  /\ pending_save' = NoSave
  /\ UNCHANGED <<text, text_revision, history, clean_change_id, new_file, load, settings,
                 disk, external, foreign, disk_revision>>

\* Mutant: the Buffer as it is now counts as saved.
CurrentCleanId(r) == undo_idx

\* Mutant: the request's change id, without a look at the text there now.
RequestCleanId(r) == r.change_id

\* The clean id after the prepared save r.
PreparedCleanId(r) ==
  IF undo_idx = r.change_id /\ text_revision # r.revision /\ text # r.text
  THEN -1
  ELSE r.change_id

\* Mutant: no guard.
NoGuard == TRUE

\* run_guard refuses a file that another program changed: replaced since the request
\* (file_id), or changed in place (autosave, the only caller, passes that guard).
GuardAllows == ~pending_save.touched

\* Buffer:save with prepared_save: the temporary file replaces the file.
AsyncSaved(id) ==
  /\ Arrived(id)
  /\ jobs[id] = "written"
  /\ IsPending(id)
  /\ pending_save.settings = settings
  /\ CanSaveAsync
  /\ GuardAllows
  /\ disk' = pending_save.text
  /\ new_file' = FALSE
  /\ clean_change_id' = PreparedCleanId(pending_save)
  /\ external' = FALSE
  /\ foreign' = (pending_save.forked /\ undo_idx # pending_save.change_id)
  /\ disk_revision' = pending_save.revision
  /\ pending_save' = NoSave
  /\ UNCHANGED <<text, text_revision, history, load, settings>>

-----------------------------------------------------------------------------
\* publish_snapshot and the clean() after it: the file replaces the text and both stacks.
Publish ==
  /\ disk # NoFile
  /\ text_revision < MaxRevision
  /\ text' = disk
  /\ text_revision' = text_revision + 1
  /\ ClearUndoRedo
  /\ clean_change_id' = 1
  /\ load' = "none"
  /\ pending_save' = NoSave
  /\ Synced
  /\ UNCHANGED <<settings, jobs, disk, disk_revision>>

\* Buffer:load, and Buffer:reload of a Buffer without valid text.
Load == Publish /\ UNCHANGED new_file

LoadAsync ==
  /\ load' = "pending"
  /\ pending_save' = NoSave
  /\ UNCHANGED <<text, text_revision, history, clean_change_id, new_file, settings, jobs,
                 disk, external, foreign, disk_revision>>

LoadAsyncDone == load = "pending" /\ Publish /\ new_file' = FALSE

\* The read failed, the file changed during it, the load was cancelled, or the
\* Buffer's settings changed.
LoadAsyncFails ==
  /\ load \in {"pending", "stale"}
  /\ load' = "failed"
  /\ UNCHANGED <<text, text_revision, history, clean_change_id, new_file, settings,
                 pending_save, jobs, disk, external, foreign, disk_revision>>

\* Buffer:reload of a Buffer with text: the file as one step that does not merge. A
\* file with the Buffer's own text makes no step. new_file keeps its value.
Reload ==
  /\ Editable
  /\ disk # NoFile
  /\ IF disk = text
     THEN UNCHANGED <<text, text_revision, history, pending_save>>
     ELSE text_revision < MaxRevision /\ RecordEdit(disk, FALSE, FALSE)
  /\ clean_change_id' = undo_idx'
  /\ Synced
  /\ UNCHANGED <<new_file, load, settings, jobs, disk, disk_revision>>

\* A restored View of a file that is gone.
MarkFileMissing ==
  /\ Editable
  /\ new_file /\ disk = NoFile
  /\ new_file' = FALSE
  /\ clean_change_id' = undo_idx
  /\ external' = TRUE /\ foreign' = FALSE
  /\ UNCHANGED <<text, text_revision, history, load, settings, pending_save, jobs, disk,
                 disk_revision>>

\* set_encoding, a line ending change or a rename. A load that runs no longer fits.
ChangeSettings ==
  /\ settings' \in Settings \ {settings}
  /\ load' = IF Loading THEN "stale" ELSE load
  /\ UNCHANGED <<text, text_revision, history, clean_change_id, new_file, pending_save,
                 jobs, disk, external, foreign, disk_revision>>

\* Another program writes or deletes the file.
ExternalWrite ==
  /\ disk' \in (Texts \cup {NoFile}) \ {disk}
  /\ external' = TRUE
  /\ pending_save' = IF pending_save = NoSave THEN NoSave
                     ELSE [pending_save EXCEPT !.touched = TRUE]
  /\ UNCHANGED <<text, text_revision, history, clean_change_id, new_file, load, settings,
                 jobs, foreign, disk_revision>>

Next ==
  \/ \E t \in Texts, merge, near \in BOOLEAN : Edit(t, merge, near)
  \/ \E idx \in DOMAIN step : JoinUndoSince(idx)
  \/ Undo
  \/ Redo
  \/ Save
  \/ SaveFails
  \/ \E id \in RequestIds : \/ SaveAsync(id)
                            \/ WriteTemporary(id)
                            \/ DropResult(id)
                            \/ AsyncSaveFails(id)
                            \/ AsyncSaved(id)
  \/ Load
  \/ LoadAsync
  \/ LoadAsyncDone
  \/ LoadAsyncFails
  \/ Reload
  \/ MarkFileMissing
  \/ ChangeSettings
  \/ ExternalWrite

\* The worker runs and its messages arrive; loads end. Nobody has to type or save.
Fairness ==
  /\ \A id \in RequestIds :
       /\ WF_vars(WriteTemporary(id))
       /\ WF_vars(DropResult(id) \/ AsyncSaveFails(id) \/ AsyncSaved(id))

Spec == Init /\ [][Next]_vars
FairSpec == Spec /\ Fairness

-----------------------------------------------------------------------------
\* The values of the state.
TypeOK ==
  /\ text \in Texts
  /\ text_revision \in Nat \ {0}
  /\ lo \in Nat \ {0} /\ hi \in Nat /\ undo_idx \in lo .. hi + 1
  /\ step \in [lo .. hi -> Step]
  /\ clean_change_id \in Nat \cup {-1}
  /\ new_file \in BOOLEAN
  /\ load \in {"none", "pending", "stale", "failed"}
  /\ settings \in Settings
  /\ pending_save \in Request \cup {NoSave}
  /\ jobs \in [RequestIds -> {"unused", "queued", "written", "failed", "done"}]
  /\ disk \in Texts \cup {NoFile}
  /\ external \in BOOLEAN /\ foreign \in BOOLEAN
  /\ disk_revision \in Nat

\* Every step fits the text at its place, so an undo or a redo never applies inverse
\* edits to other text (pop_undo: "Older steps only fit the text from before it").
StepsFit ==
  /\ \A i \in lo .. hi - 1 : step[i].after = step[i + 1].before
  /\ undo_idx <= hi => step[undo_idx].before = text
  /\ undo_idx > lo => step[undo_idx - 1].after = text

\* The stack keeps at most max_undos steps, undo and redo together.
HistoryBounded == hi - lo < MaxUndos

\* The cursor never stands inside a group of linked steps, so a redo after an undo
\* brings back exactly the steps the undo took, and the other way round.
CursorBetweenGroups == undo_idx \in lo + 1 .. hi => ~Linked(undo_idx)

\* The text at change id i, wherever the cursor stands.
TextAt(i) == IF i = undo_idx THEN text
             ELSE IF i <= hi THEN step[i].before ELSE step[hi].after

\* The saved change id, and the one a background save remembers, still lead to the
\* text that was saved and that is being saved.
CleanHolds ==
  ~foreign =>
    /\ clean_change_id <= hi + 1
    /\ ~new_file /\ ~external /\ clean_change_id >= lo => TextAt(clean_change_id) = disk
PendingHolds ==
  pending_save # NoSave =>
    /\ disk_revision <= pending_save.revision
    /\ pending_save.revision <= text_revision
    /\ text_revision = pending_save.revision => text = pending_save.text
    /\ ~pending_save.forked =>
         /\ pending_save.change_id <= hi + 1
         /\ pending_save.change_id >= lo => TextAt(pending_save.change_id) = pending_save.text

\* A Buffer that shows as saved has the text of its file, unless another program
\* changed the file, or a background save finished for a change id whose step a later
\* edit replaced (foreign).
CleanIsSaved == ~Dirty /\ ~external /\ ~foreign => text = disk

\* The same without the exception for background saves: "Later edits remain dirty"
\* (the comment of save_async).
LaterEditsRemainDirty == ~Dirty /\ ~external => text = disk

\* A write by this Buffer never takes the file back to older text than the Buffer
\* already wrote: a late background result loses to a newer save.
NeverOlder == [][disk_revision' >= disk_revision]_vars

\* A background save leaves the work of other programs alone.
BackgroundKeepsOtherWork ==
  [][\A id \in RequestIds : jobs'[id] # jobs[id] /\ external => disk' = disk]_vars

\* The step that finishes a background save leaves the Buffer saved only if its
\* text is what was written.
FinishIsHonest ==
  [][\A id \in RequestIds :
       jobs'[id] # jobs[id] /\ disk' # disk /\ ~Dirty' => text' = disk']_vars

\* A background save ends: pending_save does not stay set, which would make autosave
\* skip the Buffer for good.
BackgroundSaveEnds ==
  \A id \in RequestIds : IsPending(id) ~> ~IsPending(id)
=============================================================================
