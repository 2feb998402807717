------------------------------ MODULE SafeWrite ------------------------------
(***************************************************************************)
(* write_file_safely (data/core/buffer/init.lua): how a save puts a text   *)
(* over a file so that the file survives a crash at any moment, a failing  *)
(* file operation and other programs, and the question about a backup that *)
(* the next load asks.                                                     *)
(*                                                                         *)
(* There are three ways. A file is replaced by a temporary one ("temp",    *)
(* "check", "identify", "rename"). A file with several links, or one that  *)
(* cannot be replaced, is written in place behind a backup ("guard",       *)
(* "copy", "install", "recheck", "open", "write", "sync"). A background    *)
(* save brings a temporary file that a worker has written. Some saves have *)
(* no guard. What cannot be removed stays, mostly without a word.          *)
(***************************************************************************)
EXTENDS Naturals, FiniteSets

CONSTANTS
  Texts,        \* what files hold
  Torn,         \* the text of a file that was not written to its end
  Missing,      \* the text of a file that does not exist
  Ids, Stamps,  \* the identities that the file system gives to files, and their times
  None,         \* the identity and the time of a file that does not exist
  NoFile, NoSave, NoBase,
  MaxBackups    \* bound: backups beside the file at a time

\* The files, backups, requests and saves that there can be.
Slots == 1 .. MaxBackups
Contents == Texts \cup {Torn, Missing}
Target == [text : Contents, synced : BOOLEAN, id : Ids \cup {None}, stamp : Stamps \cup {None},
           linked : BOOLEAN]
SideFile == [text : Texts \cup {Torn}, synced : BOOLEAN]
Backup == [text : Texts \cup {Torn}, synced : BOOLEAN, asked : {"no", "shown", "done"}]
Request == [text : Texts, id : Ids \cup {None}, ready : BOOLEAN]
Save == [text : Texts, expected : Stamps \cup {None, NoBase}, prepared : Ids \cup {None},
         exists : BOOLEAN, id : Ids \cup {None}]
Began == [content : Contents, text : Contents, backups : SUBSET Slots]
Removable == {"tmp", "staging", "backup"}

ASSUME SafeWriteAssumption ==
  /\ MaxBackups \in Nat \ {0}
  /\ Torn \notin Texts /\ Missing \notin Texts /\ Torn # Missing
  /\ None \notin Ids /\ None \notin Stamps /\ NoBase \notin Stamps \cup {None}
  /\ NoFile \notin SideFile \cup Backup
  /\ NoSave \notin Contents \cup Request \cup Save \cup Began

VARIABLES
  target,    \* the file: text, synced (a power failure keeps it), id, stamp, linked
  tmp,       \* the temporary file of the save that runs, or what its last save left of it
  staging,   \* the backup while it is being copied, or what was left of it
  backup,    \* the backups beside the file; a later one has a higher number
  base,      \* disk_state: the state of the file that the Buffer knows
  request,   \* pending_save: a background save and its temporary file
  save,      \* the save that runs
  slot,      \* the backup of that save, or the one that an answer restores
  pc         \* the next step of write_file_safely

\* History, for the properties only.
VARIABLES
  keeper,    \* the backup of the text that the file had before it was opened
  began,     \* how things stood when the save began
  late,      \* another program wrote after the save had looked for the last time, or since
  stuck,     \* the files of the save that could not be removed, or restored
  piled,     \* a torn file was saved, or restored, beside a backup with its text
  outside    \* changes with each step of another program or answer of the user

disk == <<target, tmp, staging, backup>>
program == <<base, request, save, slot, pc>>
history == <<keeper, began, late, stuck, piled, outside>>
vars == <<target, tmp, staging, backup, base, request, save, slot, pc,
          keeper, began, late, stuck, piled, outside>>

\* Two states of the file differ when their stamps do: a write sets the time of the file,
\* so that the same text again is another state. An identity or a stamp that is remembered
\* is not given again.
FreshStamps ==
  Stamps \ ({target.stamp, base} \cup (IF save = NoSave THEN {} ELSE {save.expected}))
FreshIds ==
  Ids \ ({target.id} \cup (IF save = NoSave THEN {} ELSE {save.id, save.prepared})
                    \cup (IF request = NoSave THEN {} ELSE {request.id}))

File(t, synced, i, s, l) ==
  [text |-> t, synced |-> synced, id |-> i, stamp |-> s, linked |-> l]
NoTarget == File(Missing, TRUE, None, None, FALSE)

Without(i) == [n \in Slots |-> IF n = i THEN NoFile ELSE backup[n]]
KeeperWithout(i) == IF keeper = i THEN 0 ELSE keeper
Newest(i) == backup[i] # NoFile /\ \A n \in Slots : n > i => backup[n] = NoFile

Complete == target.synced /\ target.text # Torn

\* The text that can be had after a power failure: the file's, or that of the backup.
Content ==
  IF Complete THEN target.text
  ELSE IF keeper # 0 /\ backup[keeper] # NoFile /\ backup[keeper].synced
       THEN backup[keeper].text ELSE Torn

-----------------------------------------------------------------------------
Init ==
  /\ \/ target = NoTarget
     \/ \E t \in Texts, i \in Ids, s \in Stamps, l \in BOOLEAN : target = File(t, TRUE, i, s, l)
  /\ tmp = NoFile /\ staging = NoFile
  /\ backup = [n \in Slots |-> NoFile]
  /\ base = NoBase /\ request = NoSave /\ save = NoSave
  /\ slot = 0 /\ pc = "idle"
  /\ keeper = 0
  /\ began = NoSave
  /\ late = FALSE /\ stuck = {} /\ piled = FALSE /\ outside = FALSE

-----------------------------------------------------------------------------
(* Loads and background saves *)

\* Mutant: the question is about the oldest backup.
AskAboutOldest(files) ==
  [n \in Slots |->
     IF /\ files[n] # NoFile /\ files[n].asked = "no"
        /\ \A k \in Slots : k < n => files[k] = NoFile
     THEN [files[n] EXCEPT !.asked = "shown"] ELSE files[n]]

\* A load reads the file and asks about the newest backup, once in a run of the program.
AskAbout(files) ==
  [n \in Slots |->
     IF /\ files[n] # NoFile /\ files[n].asked = "no"
        /\ \A k \in Slots : k > n => files[k] = NoFile
     THEN [files[n] EXCEPT !.asked = "shown"] ELSE files[n]]

Load ==
  /\ pc = "idle"
  /\ base' = target.stamp
  /\ request' = NoSave
  /\ backup' = IF target.text = Missing THEN backup ELSE AskAbout(backup)
  /\ UNCHANGED <<target, tmp, staging, save, slot, pc, history>>

\* can_save_async: a plain file that can be replaced.
CanSaveAsync == target.text # Missing /\ ~target.linked

\* save_async takes the text now and gives it to a worker.
Prepare(t) ==
  /\ pc = "idle" /\ base # NoBase
  /\ request = NoSave
  /\ CanSaveAsync
  /\ request' = [text |-> t, id |-> target.id, ready |-> FALSE]
  /\ UNCHANGED <<disk, base, save, slot, pc, history>>

\* The worker has written and synced the temporary file, which nobody else knows.
WriteTemporary ==
  /\ request # NoSave
  /\ ~request.ready
  /\ request' = [request EXCEPT !.ready = TRUE]
  /\ UNCHANGED <<disk, base, save, slot, pc, history>>

\* The worker fails, or its result comes to a Buffer whose settings changed.
DropRequest ==
  /\ request # NoSave
  /\ request' = NoSave
  /\ UNCHANGED <<disk, base, save, slot, pc, history>>

-----------------------------------------------------------------------------
(* The beginning of write_file_safely, and its guard *)

Started(t, expected, prepared) ==
  /\ save' = [text |-> t, expected |-> expected, prepared |-> prepared,
              exists |-> target.text # Missing, id |-> target.id]
  /\ began' = [content |-> Content, text |-> target.text,
               backups |-> {n \in Slots : backup[n] # NoFile}]
  /\ request' = NoSave
  /\ late' = FALSE /\ stuck' = {}
  /\ staging' = NoFile

\* Buffer:save. The guard expects what the Buffer knows, or what the user has just been
\* shown and chose to replace. There is no guard (NoBase) for a Save As to another file, for
\* the configuration files that are not autosaved, and without the autosave plugin. A save
\* ends a background save. Its files have new names: what an earlier one left is forgotten.
Begin(t) ==
  /\ pc = "idle"
  /\ backup[MaxBackups] = NoFile
  /\ \E expected \in {base, target.stamp, NoBase} : Started(t, expected, None)
  /\ tmp' = NoFile
  /\ pc' = IF target.linked THEN "guard" ELSE "temp"
  /\ UNCHANGED <<target, backup, base, slot, keeper, piled, outside>>

\* The result of the worker: its file is the temporary file of the save.
BeginPrepared ==
  /\ pc = "idle" /\ base # NoBase
  /\ backup[MaxBackups] = NoFile
  /\ request # NoSave /\ request.ready
  /\ CanSaveAsync
  /\ Started(request.text, base, request.id)
  /\ tmp' = [text |-> request.text, synced |-> TRUE]
  /\ pc' = "check"
  /\ UNCHANGED <<target, backup, base, slot, keeper, piled, outside>>

\* run_guard: the file is the one that the worker's save was meant for, and as expected.
Guarded == save.expected # NoBase
Allowed ==
  /\ save.prepared # None => target.text # Missing /\ target.id = save.prepared
  /\ Guarded => target.stamp = save.expected

Pass(from, to) ==
  /\ pc = from
  /\ Allowed
  /\ pc' = to
  /\ UNCHANGED <<disk, base, request, save, slot, history>>

Check == Pass("check", "identify")
Guard == Pass("guard", "copy")
\* Mutant: the guard does not run again after the backup was made.
RecheckForgotten ==
  /\ pc = "recheck"
  /\ pc' = "open"
  /\ UNCHANGED <<disk, base, request, save, slot, history>>

Recheck == Pass("recheck", "open")

-----------------------------------------------------------------------------
(* Replacement by a temporary file *)

\* The temporary file is opened, written, flushed, synced and closed.
WriteTemp ==
  /\ pc = "temp"
  /\ tmp' = [text |-> save.text, synced |-> TRUE]
  /\ pc' = "check"
  /\ UNCHANGED <<target, staging, backup, base, request, save, slot, history>>

\* atomic_replace_file looks whether the target is still the file that the save found.
SameTarget ==
  /\ (target.text # Missing) = save.exists
  /\ target.id = save.id

Identify ==
  /\ pc = "identify"
  /\ SameTarget
  /\ pc' = "rename"
  /\ UNCHANGED <<disk, base, request, save, slot, history>>

\* It renames over a target that exists, and links to a name that does not.
Rename ==
  /\ pc = "rename"
  /\ save.exists \/ target.text = Missing
  /\ \E i \in FreshIds, s \in FreshStamps : target' = File(tmp.text, tmp.synced, i, s, FALSE)
  /\ tmp' = NoFile
  /\ pc' = "clean"
  /\ UNCHANGED <<staging, backup, base, request, save, slot, history>>

\* The file system cannot replace this file: write it in place, behind a backup.
FallBack ==
  /\ pc \in {"identify", "rename"}
  /\ pc = "identify" => SameTarget
  /\ save.exists
  /\ pc' = "guard"
  /\ UNCHANGED <<disk, base, request, save, slot, history>>

-----------------------------------------------------------------------------
(* Writing in place *)

\* copy_file to the staging file, which it syncs.
Copy ==
  /\ pc = "copy"
  /\ target.text # Missing
  /\ staging' = [text |-> target.text, synced |-> TRUE]
  /\ pc' = "install"
  /\ UNCHANGED <<target, tmp, backup, base, request, save, slot, history>>

\* The staging file gets the name under which a load finds it.
Install ==
  /\ pc = "install"
  /\ \E n \in Slots :
       /\ \A k \in Slots : k >= n => backup[k] = NoFile
       /\ n > 1 => backup[n - 1] # NoFile
       /\ backup' = [backup EXCEPT ![n] =
                       [text |-> staging.text, synced |-> staging.synced, asked |-> "no"]]
       /\ slot' = n
  /\ staging' = NoFile
  /\ piled' = (piled \/ staging.text = Torn)
  /\ pc' = "recheck"
  /\ UNCHANGED <<target, tmp, base, request, save, keeper, began, late, stuck, outside>>

\* Opening the file empties it. A file that is gone is created.
Opened ==
  \E i \in IF target.text = Missing THEN FreshIds ELSE {target.id}, s \in FreshStamps :
    target' = File(Torn, FALSE, i, s, target.linked)

Open ==
  /\ pc = "open"
  /\ Opened
  /\ keeper' = IF backup[slot].text # Torn THEN slot ELSE keeper
  /\ pc' = "write"
  /\ UNCHANGED <<tmp, staging, backup, base, request, save, slot,
                 began, late, stuck, piled, outside>>

Write ==
  /\ pc = "write"
  /\ target' = [target EXCEPT !.text = save.text]
  /\ pc' = "sync"
  /\ UNCHANGED <<tmp, staging, backup, base, request, save, slot, history>>

\* Mutant: the file is not synced before the backup goes.
SyncForgotten ==
  /\ pc = "sync"
  /\ pc' = "clean"
  /\ UNCHANGED <<disk, base, request, save, slot, history>>

Sync ==
  /\ pc = "sync"
  /\ target' = [target EXCEPT !.synced = TRUE]
  /\ pc' = "clean"
  /\ UNCHANGED <<tmp, staging, backup, base, request, save, slot, history>>

-----------------------------------------------------------------------------
(* The ends of write_file_safely *)

\* A write that fails leaves a part of its file.
Partial == [text |-> Torn, synced |-> FALSE]
TmpThere == IF pc = "temp" THEN Partial ELSE tmp
StagingThere == IF pc = "copy" THEN Partial ELSE staging
There == (IF TmpThere # NoFile THEN {"tmp"} ELSE {})
           \cup (IF StagingThere # NoFile THEN {"staging"} ELSE {})
           \cup (IF slot # 0 THEN {"backup"} ELSE {})

\* os.remove of some of the files that the save made, the backup in hand among them. It may
\* fail: at most an error is shown then.
Remove(files) ==
  \E failed \in SUBSET (files \cap There) :
    LET gone == files \ failed
    IN /\ tmp' = IF "tmp" \in gone THEN NoFile ELSE TmpThere
       /\ staging' = IF "staging" \in gone THEN NoFile ELSE StagingThere
       /\ backup' = IF "backup" \in gone THEN Without(slot) ELSE backup
       /\ keeper' = IF "backup" \in gone THEN KeeperWithout(slot) ELSE keeper
       /\ stuck' = stuck \cup failed

Ended ==
  /\ pc' = "idle"
  /\ save' = NoSave /\ began' = NoSave
  /\ slot' = 0

\* The save worked. The Buffer takes the state of the file as known (update_disk_state).
Clean ==
  /\ pc = "clean"
  /\ Remove({"tmp", "backup"})
  /\ base' = target.stamp
  /\ Ended
  /\ UNCHANGED <<target, request, late, piled, outside>>

\* Mutant: a fallback that cannot copy the file leaves its temporary file.
GiveUpKeepsTemp ==
  /\ \/ pc \in {"temp", "identify"} /\ Remove({"tmp"})
     \/ pc = "rename" /\ (~save.exists \/ target.text = Missing) /\ Remove({"tmp"})
     \/ pc \in {"check", "guard"} /\ ~Allowed /\ Remove({"tmp"})
     \/ pc \in {"copy", "install"} /\ Remove({"staging"})
     \/ pc = "recheck" /\ ~Allowed /\ Remove({"tmp", "backup"})
     \/ pc = "open" /\ Remove({"tmp", "backup"})
  /\ Ended
  /\ UNCHANGED <<target, base, request, late, piled, outside>>

\* A guard does not allow the save, or an operation fails, before the file was opened. Each
\* end removes what the save has made by then.
GiveUp ==
  /\ \/ pc \in {"temp", "identify"} /\ Remove({"tmp"})
     \/ pc = "rename" /\ (~save.exists \/ target.text = Missing) /\ Remove({"tmp"})
     \/ pc \in {"check", "guard"} /\ ~Allowed /\ Remove({"tmp"})
     \/ pc \in {"copy", "install"} /\ Remove({"tmp", "staging"})
     \/ pc = "recheck" /\ ~Allowed /\ Remove({"tmp", "backup"})
     \/ pc = "open" /\ Remove({"tmp", "backup"})
  /\ Ended
  /\ UNCHANGED <<target, base, request, late, piled, outside>>

\* A write or a sync fails: the temporary file of a fallback goes, the backup comes back.
WriteFails ==
  /\ pc \in {"write", "sync"}
  /\ Remove({"tmp"})
  /\ pc' = "restore"
  /\ UNCHANGED <<target, base, request, save, slot, began, late, piled, outside>>

\* restore_backup copies the backup over the file and removes it.
Restore ==
  /\ pc = "restore"
  /\ target' = [target EXCEPT !.text = backup[slot].text, !.synced = TRUE]
  /\ Remove({"backup"})
  /\ Ended
  /\ UNCHANGED <<base, request, late, piled, outside>>

\* The copy fails too. The backup stays.
RestoreFails ==
  /\ pc = "restore"
  /\ target' = [target EXCEPT !.text = Torn]
  /\ stuck' = stuck \cup {"backup"}
  /\ Ended
  /\ UNCHANGED <<tmp, staging, backup, base, request, keeper, late, piled, outside>>

-----------------------------------------------------------------------------
(* The answers to the question about a backup *)

\* "Restore Backup" opens the file for a copy of the backup.
AnswerRestore(i) ==
  /\ pc = "idle"
  /\ backup[i] # NoFile /\ backup[i].asked = "shown"
  /\ Opened
  /\ keeper' = i
  /\ piled' = (piled \/ ~Newest(i))
  /\ slot' = i
  /\ pc' = "answer"
  /\ outside' = ~outside
  /\ UNCHANGED <<tmp, staging, backup, base, request, save, began, late, stuck>>

\* The backup is removed, which may fail, and Buffers of the file load it.
AnswerRestored ==
  /\ pc = "answer"
  /\ target' = [target EXCEPT !.text = backup[slot].text, !.synced = TRUE]
  /\ \/ backup' = AskAbout(Without(slot)) /\ keeper' = KeeperWithout(slot)
     \/ backup' = AskAbout([backup EXCEPT ![slot].asked = "done"]) /\ UNCHANGED keeper
  /\ base' = target'.stamp
  /\ request' = NoSave
  /\ Ended
  /\ UNCHANGED <<tmp, staging, late, stuck, piled, outside>>

AnswerFails ==
  /\ pc = "answer"
  /\ backup' = [backup EXCEPT ![slot].asked = "done"]
  /\ Ended
  /\ UNCHANGED <<target, tmp, staging, base, request, keeper, late, stuck, piled, outside>>

AnswerDelete(i) ==
  /\ pc = "idle"
  /\ backup[i] # NoFile /\ backup[i].asked = "shown"
  /\ backup' = Without(i) /\ keeper' = KeeperWithout(i)
  /\ outside' = ~outside
  /\ UNCHANGED <<target, tmp, staging, program, began, late, stuck, piled>>

AnswerIgnore(i) ==
  /\ pc = "idle"
  /\ backup[i] # NoFile /\ backup[i].asked = "shown"
  /\ backup' = [backup EXCEPT ![i].asked = "done"]
  /\ UNCHANGED <<target, tmp, staging, program, history>>

-----------------------------------------------------------------------------
(* Other programs and crashes *)

\* Two programs that write the same open file at a time are left out.
FileIsOpen == pc \in {"write", "sync", "restore", "answer"}

\* Another program writes into the file.
WriteElsewhere ==
  /\ ~FileIsOpen
  /\ target.text # Missing
  /\ \E t \in Texts, s \in FreshStamps : target' = File(t, TRUE, target.id, s, target.linked)
  /\ late' = (late \/ pc \in {"identify", "rename", "open", "clean"})
  /\ outside' = ~outside
  /\ UNCHANGED <<tmp, staging, backup, program, keeper, began, stuck, piled>>

\* It puts another file there, or removes the file.
ReplaceElsewhere ==
  /\ ~FileIsOpen
  /\ \/ target' = NoTarget
     \/ \E t \in Texts, i \in FreshIds, s \in FreshStamps : target' = File(t, TRUE, i, s, FALSE)
  /\ late' = (late \/ pc \in {"open", "clean"} \/ (pc = "rename" /\ save.exists))
  /\ outside' = ~outside
  /\ UNCHANGED <<tmp, staging, backup, program, keeper, began, stuck, piled>>

\* What is not synced may be torn after a power failure. When only the program ends, the
\* system writes it out.
Settled(file, power) ==
  [file EXCEPT !.text = IF power /\ ~file.synced THEN Torn ELSE @, !.synced = TRUE]

\* The program ends, or the power fails. Temporary files stay, and are never read.
Crash ==
  /\ \E power \in BOOLEAN :
       /\ target' = Settled(target, power)
       /\ backup' = [n \in Slots |-> IF backup[n] = NoFile THEN NoFile
                       ELSE [Settled(backup[n], power) EXCEPT !.asked = "no"]]
  /\ base' = NoBase /\ request' = NoSave
  /\ Ended
  /\ UNCHANGED <<tmp, staging, keeper, late, stuck, piled, outside>>

-----------------------------------------------------------------------------
Next ==
  \/ Load \/ WriteTemporary \/ DropRequest
  \/ \E t \in Texts : Prepare(t) \/ Begin(t)
  \/ BeginPrepared
  \/ Check \/ Guard \/ Recheck
  \/ WriteTemp \/ Identify \/ Rename \/ FallBack
  \/ Copy \/ Install \/ Open \/ Write \/ Sync \/ WriteFails
  \/ Clean \/ GiveUp \/ Restore \/ RestoreFails
  \/ \E i \in Slots : AnswerRestore(i) \/ AnswerDelete(i) \/ AnswerIgnore(i)
  \/ AnswerRestored \/ AnswerFails
  \/ WriteElsewhere \/ ReplaceElsewhere \/ Crash

Spec == Init /\ [][Next]_vars

-----------------------------------------------------------------------------
(* Properties *)

Places == {"idle", "temp", "check", "identify", "rename", "guard", "copy", "install",
           "recheck", "open", "write", "sync", "clean", "restore", "answer"}

\* The types of the files on the disk and of the program's state.
TypeOK ==
  /\ target \in Target
  /\ tmp \in SideFile \cup {NoFile} /\ staging \in SideFile \cup {NoFile}
  /\ backup \in [Slots -> Backup \cup {NoFile}]
  /\ base \in Stamps \cup {None, NoBase}
  /\ request \in Request \cup {NoSave}
  /\ save \in Save \cup {NoSave}
  /\ slot \in 0 .. MaxBackups /\ pc \in Places
  /\ keeper \in 0 .. MaxBackups
  /\ began \in Began \cup {NoSave}
  /\ late \in BOOLEAN /\ stuck \subseteq Removable /\ piled \in BOOLEAN /\ outside \in BOOLEAN

\* The text of the copy that a save in place has made of the file.
Copied ==
  IF pc = "install" THEN staging.text ELSE IF slot # 0 THEN backup[slot].text ELSE Torn

\* At any moment, a crash and a power failure included, the text before the save, the text
\* of the save or other people's text can be had from the disk, as BufferHistory takes for
\* granted when it saves in one step. A save without a guard may bring back a text that
\* others wrote while it ran, the one it copied. It speaks of the order of backup, sync and
\* removal on all three ways through write_file_safely.
Promise == INSTANCE AtomicSave WITH
  NoText <- NoSave,
  content <- Content,
  before <- IF save = NoSave THEN NoSave
            ELSE IF ~Guarded /\ Copied # Torn THEN Copied ELSE began.content,
  saving <- IF save = NoSave THEN NoSave ELSE save.text,
  guarded <- save # NoSave /\ Guarded
KeepsText == Promise!Spec

\* A save with a guard never replaces a text that another program put into the file after the
\* Buffer read it, except one that was written between the save's last look and its write
\* (late). A save without a guard takes such a text, but it puts its temporary file only over
\* the file that was there when it began. It speaks of run_guard, which runs twice, of the
\* identity that the replacement compares, and of the backup that comes back only over a file
\* that the save has opened.
TakesNoOthersText ==
  target' # target /\ save # NoSave /\ outside' = outside
    => \/ target.stamp = save.expected \/ ~target.synced \/ late
       \/ ~Guarded /\ (pc = "rename" => target.id = save.id)
OthersTextKept == [][TakesNoOthersText]_vars

\* A save that ends, other than by a crash, leaves a whole file, no temporary file, no copy
\* and no backup, but for the ones whose own removal failed (stuck): what is made on one of
\* the three ways is removed on each way out of it. The file has the new text if the save
\* worked, and is as it was or as others left it if it failed.
Ends == Clean \/ GiveUp \/ Restore \/ RestoreFails
EndsWell ==
  Ends => /\ tmp' # NoFile => "tmp" \in stuck'
          /\ staging' # NoFile => "staging" \in stuck'
          /\ "backup" \notin stuck' => {n \in Slots : backup'[n] # NoFile} = began.backups
          /\ target'.text = Torn => began.text = Torn \/ "backup" \in stuck'
          /\ pc = "clean" => target'.text = save.text \/ late
EndsWhole == [][EndsWell]_vars

\* The first load after a crash that finds a torn file asks about the backup with the
\* file's text, unless an earlier question was left unanswered and the file written again.
LoadOffers ==
  base = NoBase /\ base' # NoBase /\ target.text = Torn /\ Content # Torn
    => backup'[keeper].asked = "shown" \/ piled
TornIsOffered == [][LoadOffers]_vars
=============================================================================
