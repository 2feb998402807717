--------------------------- MODULE SafeWriteProofs ---------------------------
(***************************************************************************)
(* Proofs about SafeWrite for any texts, identities, stamps and number of  *)
(* backups: an entire text can always be had (AtomicSave), no save takes   *)
(* another program's text, a save ends with a whole file, and the backup   *)
(* of a torn file is offered. They rest on one invariant that says, for    *)
(* each step of write_file_safely, what the file, the backups and the      *)
(* guard's stamp are then.                                                 *)
(***************************************************************************)
EXTENDS SafeWrite, TLAPS

\* The steps before the file is opened, those that write it in place, and those after it
\* was opened; the ones that have a backup in hand, and those that have none yet.
PreOpen == {"temp", "check", "identify", "rename", "guard", "copy", "install", "recheck", "open"}
Opening == {"write", "sync", "restore"}
InPlace == {"guard", "copy", "install", "recheck", "open", "write", "sync", "restore"}
WithSlot == {"recheck", "open", "write", "sync", "restore", "answer"}
NoSlot == {"idle", "temp", "check", "identify", "rename", "guard", "copy", "install"}

\* The text of the backup that counts while the file is not complete.
Kept == IF keeper # 0 THEN backup[keeper].text ELSE Torn

\* A file that is not synced is torn, or has the text of the save whose sync is next.
FileInv ==
  /\ target.stamp = None <=> target.text = Missing
  /\ target.id = None <=> target.text = Missing
  /\ target.linked => target.text # Missing /\ base # None
  /\ ~target.synced => target.text = Torn \/ (pc \in {"sync", "restore"} /\ target.text = save.text)
  /\ pc \in Opening => ~target.synced
  /\ pc = "sync" => target.text = save.text
  /\ pc = "clean" => Complete
  /\ pc = "answer" => target.text = Torn

\* Backups are synced, and the one that counts is there.
BackupInv ==
  /\ \A n \in Slots : backup[n] # NoFile => backup[n].synced
  /\ keeper # 0 => backup[keeper] # NoFile
  /\ pc \in WithSlot => slot # 0 /\ backup[slot] # NoFile
  /\ pc \in NoSlot => slot = 0
  /\ pc \in {"recheck", "open"} => slot # keeper
  /\ pc \in Opening => (backup[slot].text # Torn <=> keeper = slot)
  /\ pc = "answer" => keeper = slot

\* What a save knows, and its temporary and staging files.
SaveInv ==
  /\ pc \in {"idle", "answer"} <=> save = NoSave
  /\ save = NoSave <=> began = NoSave
  /\ save # NoSave => /\ began.text # Torn => began.content = began.text
                      /\ save.exists <=> save.id # None
  /\ pc \in {"check", "identify", "rename"} => tmp = [text |-> save.text, synced |-> TRUE]
  /\ pc = "restore" /\ tmp # NoFile => "tmp" \in stuck
  /\ pc = "install" => staging # NoFile /\ staging.synced
  /\ save # NoSave /\ pc # "install" => staging = NoFile

\* A file that was torn before the save has its text in the same backup, unless others wrote
\* it and the save copied that. A copy is torn only if the file was.
KeptInv ==
  /\ pc \in PreOpen \cup Opening /\ began.text = Torn
       => Kept = began.content \/ (pc \in Opening /\ keeper = slot)
  /\ pc \in PreOpen /\ target.text = Torn => began.text = Torn
  /\ pc = "install" /\ target.text = Torn => staging.text = Torn
  /\ pc = "install" /\ staging.text = Torn => began.text = Torn
  /\ pc \in {"recheck", "open"} \cup Opening /\ backup[slot].text = Torn => began.text = Torn

\* As long as the file has the stamp that the guard expects, it has the text from before the
\* save, and so have the copies of it.
TextInv ==
  /\ pc \in InPlace => save.expected # None
  /\ pc = "identify" /\ save.exists /\ save.expected = None => target.id # save.id
  /\ pc = "rename" /\ save.exists => save.expected # None
  /\ pc \in PreOpen /\ save.expected # None /\ target.stamp = save.expected
       => target.text = began.text
  /\ pc = "install" /\ target.stamp = save.expected => staging.text = began.text
  /\ pc = "recheck" /\ target.stamp = save.expected => backup[slot].text = began.text
  /\ pc \in Opening \cup {"open"} /\ Guarded => backup[slot].text = began.text

\* What Remove does, told apart by file.
RemovesBackup ==
  \/ UNCHANGED <<backup, keeper>>
  \/ backup' = Without(slot) /\ keeper' = KeeperWithout(slot)
Removes(files) ==
  /\ tmp' \in {NoFile, TmpThere} /\ staging' \in {NoFile, StagingThere}
  /\ RemovesBackup
  /\ stuck \subseteq stuck' /\ stuck' \subseteq Removable
  /\ "tmp" \in files => tmp' = NoFile \/ "tmp" \in stuck'
  /\ "staging" \in files => staging' = NoFile \/ "staging" \in stuck'
  /\ "staging" \notin files => staging' = StagingThere
  /\ "backup" \in files => backup' = Without(slot) \/ "backup" \in stuck'
  /\ "backup" \notin files => UNCHANGED <<backup, keeper>>

IInv == TypeOK /\ FileInv /\ BackupInv /\ SaveInv /\ KeptInv /\ TextInv

\* What the last look of a save saw is still there, or the replacement will not happen.
LookInv ==
  /\ pc = "open" /\ Guarded => late \/ target.stamp = save.expected
  /\ pc \in PreOpen /\ Guarded /\ ~save.exists /\ save.expected # None
       => target.stamp # save.expected
  /\ pc \in {"identify", "rename"} /\ Guarded /\ ~save.exists => save.expected = None
  /\ pc = "identify" /\ Guarded => \/ late \/ target.stamp = save.expected
                                   \/ save.exists /\ target.id # save.id
                                   \/ ~save.exists /\ target.text # Missing
  /\ pc = "rename" /\ Guarded => \/ late \/ target.stamp = save.expected
                                 \/ ~save.exists /\ target.text # Missing
  /\ pc = "rename" /\ save.exists => late \/ target.id = save.id

\* A save adds one backup, the one in hand.
EndInv ==
  /\ save # NoSave =>
       /\ {n \in Slots : backup[n] # NoFile} = began.backups \cup ({slot} \ {0})
       /\ slot \notin began.backups
  /\ pc = "clean" => late \/ target.text = save.text

\* The backup of a torn file is the newest one, and until a load nothing was asked.
OfferInv ==
  /\ base = NoBase => pc # "answer" /\ \A n \in Slots : backup[n] # NoFile => backup[n].asked = "no"
  /\ pc \in {"recheck", "open"} => Newest(slot) /\ (backup[slot].text # Torn \/ piled)
  /\ ~piled /\ keeper # 0 /\ (target.text = Torn \/ pc \in Opening) => Newest(keeper)

-----------------------------------------------------------------------------
LEMMA InitInv == Init => IInv
<1> SUFFICES ASSUME Init PROVE IInv
  OBVIOUS
<1>1. TypeOK
  <2>1. target \in Target
    <3>1. CASE target = NoTarget
      BY <3>1 DEF NoTarget, File, Target, Contents
    <3>2. CASE \E t \in Texts, i \in Ids, s \in Stamps, l \in BOOLEAN
               : target = File(t, TRUE, i, s, l)
      BY <3>2 DEF File, Target, Contents
    <3> QED  BY <3>1, <3>2 DEF Init
  <2>2. backup \in [Slots -> Backup \cup {NoFile}] /\ 0 \in 0 .. MaxBackups
    BY SafeWriteAssumption DEF Init
  <2> QED  BY <2>1, <2>2 DEF Init, TypeOK, Places
<1>2. FileInv
  BY SafeWriteAssumption DEF Init, FileInv, NoTarget, File, Opening
<1>3. BackupInv
  BY DEF Init, BackupInv, WithSlot, NoSlot, Opening
<1>4. SaveInv
  BY DEF Init, SaveInv
<1>5. KeptInv /\ TextInv
  BY DEF Init, KeptInv, TextInv, PreOpen, Opening, InPlace, Guarded
<1> QED  BY <1>1, <1>2, <1>3, <1>4, <1>5 DEF IInv

-----------------------------------------------------------------------------
(* Loads, background saves and the beginning of a save *)

LEMMA LoadInv == ASSUME IInv, Load PROVE IInv'
<1> USE DEF IInv
<1>1. TypeOK'
  BY DEF TypeOK, Load, AskAbout, history, Target, SideFile, Backup, Request, Save, Began, Places,
     Contents, Slots
<1>2. BackupInv'
  <2>1. pc' = "idle" /\ slot' = 0 /\ keeper' = keeper
    BY DEF Load, history, BackupInv, NoSlot
  <2>2. ASSUME NEW n \in Slots
        PROVE  /\ backup[n] = NoFile => backup'[n] = NoFile
               /\ backup[n] # NoFile => backup'[n] # NoFile /\ backup'[n].synced = backup[n].synced
    <3>1. backup[n] # NoFile => backup[n] \in Backup
      BY DEF TypeOK
    <3> QED  BY <3>1, SafeWriteAssumption DEF Load, AskAbout, Backup
  <2>3. keeper # 0 => keeper \in Slots
    BY DEF TypeOK, Slots
  <2> QED  BY <2>1, <2>2, <2>3 DEF BackupInv, WithSlot, NoSlot, Opening
<1>3. FileInv' /\ SaveInv' /\ KeptInv' /\ TextInv'
  BY DEF FileInv, SaveInv, KeptInv, TextInv, Load, AskAbout, history, Complete, Opening, Kept,
     PreOpen, InPlace, Guarded
<1> QED  BY <1>1, <1>2, <1>3

LEMMA WriteTemporaryInv == ASSUME IInv, WriteTemporary PROVE IInv'
<1> USE DEF IInv
<1>1. TypeOK'
  <2>1. request' \in Request
    BY DEF TypeOK, WriteTemporary, Request
  <2> QED  BY <2>1 DEF TypeOK, WriteTemporary, disk, history
<1>2. FileInv' /\ BackupInv' /\ SaveInv' /\ KeptInv' /\ TextInv'
  BY DEF FileInv, BackupInv, SaveInv, KeptInv, TextInv, WriteTemporary, disk, history, Complete,
     Opening, WithSlot, NoSlot, Slots, Kept, PreOpen, InPlace, Guarded
<1> QED  BY <1>1, <1>2

LEMMA DropRequestInv == ASSUME IInv, DropRequest PROVE IInv'
<1> USE DEF IInv
<1>1. TypeOK'
  BY DEF TypeOK, DropRequest, disk, history, Target, SideFile, Backup, Request, Save, Began,
     Places, Contents, Slots
<1>2. FileInv' /\ BackupInv' /\ SaveInv' /\ KeptInv' /\ TextInv'
  BY DEF FileInv, BackupInv, SaveInv, KeptInv, TextInv, DropRequest, disk, history, Complete,
     Opening, WithSlot, NoSlot, Slots, Kept, PreOpen, InPlace, Guarded
<1> QED  BY <1>1, <1>2

LEMMA PrepareInv == ASSUME IInv, NEW t \in Texts, Prepare(t) PROVE IInv'
<1> USE DEF IInv
<1>1. TypeOK'
  BY DEF TypeOK, Prepare, CanSaveAsync, disk, history, Target, SideFile, Backup, Request, Save,
     Began, Places, Contents, Slots
<1>2. FileInv' /\ BackupInv' /\ SaveInv' /\ KeptInv' /\ TextInv'
  BY DEF FileInv, BackupInv, SaveInv, KeptInv, TextInv, Prepare, CanSaveAsync, disk, history,
     Complete, Opening, WithSlot, NoSlot, Slots, Kept, PreOpen, InPlace, Guarded
<1> QED  BY <1>1, <1>2

LEMMA StartedType == 
  ASSUME IInv, NEW t \in Texts, NEW expected \in Stamps \cup {None, NoBase},
         NEW prepared \in Ids \cup {None},
         Started(t, expected, prepared)
  PROVE  /\ save' \in Save /\ began' \in Began /\ request' = NoSave
         /\ late' = FALSE /\ stuck' = {} /\ staging' = NoFile
<1> USE DEF IInv
<1>1. target.text \in Contents /\ target.id \in Ids \cup {None} /\ target.synced \in BOOLEAN
  BY DEF TypeOK, Target
<1>2. Content \in Contents
  <2>1. keeper # 0 => keeper \in Slots /\ backup[keeper].text \in Texts \cup {Torn}
    BY SafeWriteAssumption DEF TypeOK, BackupInv, Slots, Backup
  <2> QED  BY <1>1, <2>1 DEF Content, Complete, Contents
<1>3. save' \in Save
  BY <1>1 DEF Started, Save
<1>4. began' \in Began
  BY <1>1, <1>2 DEF Started, Began
<1> QED  BY <1>3, <1>4 DEF Started

LEMMA BeginInv == ASSUME IInv, NEW t \in Texts, Begin(t) PROVE IInv'
<1> USE DEF IInv
<1>0. PICK expected \in {base, target.stamp, NoBase} : Started(t, expected, None)
  BY DEF Begin
<1>1. expected \in Stamps \cup {None, NoBase}
  BY <1>0 DEF TypeOK, Target
<1>2. /\ save' \in Save /\ began' \in Began /\ request' = NoSave
      /\ late' = FALSE /\ stuck' = {} /\ staging' = NoFile
  BY <1>0, <1>1, StartedType
<1>3. /\ save'.expected = expected /\ save'.id = target.id
      /\ save'.exists = (target.text # Missing)
      /\ began'.text = target.text /\ began'.content = Content
  BY <1>0 DEF Started
<1>4. /\ pc' \in {"guard", "temp"} /\ tmp' = NoFile /\ slot' = slot /\ slot = 0
      /\ pc' = "guard" => target.linked
      /\ UNCHANGED <<target, backup, base, keeper, piled, outside>>
  BY DEF Begin, BackupInv, NoSlot
<1>5. TypeOK'
  BY <1>2, <1>4 DEF TypeOK, Begin, Places
<1>6. FileInv' /\ BackupInv'
  BY <1>4, Zenon DEF FileInv, BackupInv, Begin, Complete, Opening, WithSlot, NoSlot, Slots
<1>7. SaveInv'
  <2>1. save' # NoSave /\ began' # NoSave
    BY <1>2, SafeWriteAssumption
  <2>2. began'.text # Torn => began'.content = began'.text
    BY <1>3 DEF FileInv, Complete, Content, Begin, Opening
  <2> QED  BY <1>2, <1>3, <1>4, <2>1, <2>2 DEF SaveInv, FileInv
<1>8. KeptInv'
  <2>1. target.text = Torn => Content = Kept
    BY DEF Content, Complete, Kept, TypeOK, BackupInv, Slots
  <2> QED  BY <1>3, <1>4, <2>1 DEF KeptInv, Kept, PreOpen, Opening
<1>9. TextInv'
  <2>1. target.linked => expected # None
    BY <1>0, SafeWriteAssumption DEF FileInv
  <2> QED  BY <1>3, <1>4, <2>1 DEF TextInv, InPlace, PreOpen, Opening, Guarded
<1> QED  BY <1>5, <1>6, <1>7, <1>8, <1>9

LEMMA BeginPreparedInv == ASSUME IInv, BeginPrepared PROVE IInv'
<1> USE DEF IInv
<1>1. TypeOK'
  <2>1. /\ Started(request.text, base, request.id)
        /\ request.text \in Texts /\ request.id \in Ids \cup {None} /\ base \in Stamps \cup {None}
    BY DEF TypeOK, BeginPrepared, Request
  <2>2. /\ save' \in Save /\ began' \in Began /\ request' = NoSave
        /\ late' = FALSE /\ stuck' = {} /\ staging' = NoFile
    BY <2>1, StartedType
  <2>3. tmp' \in SideFile
    BY <2>1 DEF BeginPrepared, SideFile
  <2> QED  BY <2>2, <2>3 DEF TypeOK, BeginPrepared, Places
<1>2. SaveInv'
  BY SafeWriteAssumption DEF SaveInv, TypeOK, FileInv, BeginPrepared, Started, CanSaveAsync,
     Target, SideFile, Backup, Request, Save, Began, Places, Contents, Slots, Complete, Opening,
     Content
<1>3. KeptInv'
  BY DEF KeptInv, TypeOK, BackupInv, BeginPrepared, Started, CanSaveAsync, Kept, PreOpen,
     Opening, Target, SideFile, Backup, Request, Save, Began, Places, Contents, Slots, WithSlot,
     NoSlot, Content, Complete
<1>4. FileInv' /\ BackupInv' /\ TextInv'
  BY DEF FileInv, BackupInv, TextInv, BeginPrepared, Started, CanSaveAsync, Complete, Opening,
     WithSlot, NoSlot, Slots, InPlace, PreOpen, Guarded
<1> QED  BY <1>1, <1>2, <1>3, <1>4

-----------------------------------------------------------------------------
(* The guard, and the replacement by a temporary file *)

LEMMA CheckInv == ASSUME IInv, Check PROVE IInv'
<1> USE DEF IInv
<1>1. TypeOK'
  BY DEF TypeOK, Check, Pass, Allowed, disk, history, Target, SideFile, Backup, Request, Save,
     Began, Places, Contents, Slots
<1>2. TextInv'
  BY SafeWriteAssumption DEF TextInv, SaveInv, FileInv, Check, Pass, Allowed, disk, history,
     InPlace, PreOpen, Opening, Complete, Guarded
<1>3. FileInv' /\ BackupInv' /\ SaveInv' /\ KeptInv'
  BY DEF FileInv, BackupInv, SaveInv, KeptInv, Check, Pass, Allowed, disk, history, Complete,
     Opening, WithSlot, NoSlot, Slots, Kept, PreOpen
<1> QED  BY <1>1, <1>2, <1>3

LEMMA GuardInv == ASSUME IInv, Guard PROVE IInv'
<1> USE DEF IInv
<1>1. TypeOK'
  BY DEF TypeOK, Guard, Pass, Allowed, disk, history, Target, SideFile, Backup, Request, Save,
     Began, Places, Contents, Slots
<1>2. FileInv' /\ BackupInv' /\ SaveInv' /\ KeptInv' /\ TextInv'
  BY DEF FileInv, BackupInv, SaveInv, KeptInv, TextInv, Guard, Pass, Allowed, disk, history,
     Complete, Opening, WithSlot, NoSlot, Slots, Kept, PreOpen, InPlace, Guarded
<1> QED  BY <1>1, <1>2

LEMMA RecheckInv == ASSUME IInv, Recheck PROVE IInv'
<1> USE DEF IInv
<1>1. TypeOK'
  BY DEF TypeOK, Recheck, Pass, Allowed, disk, history, Target, SideFile, Backup, Request, Save,
     Began, Places, Contents, Slots
<1>2. FileInv' /\ BackupInv' /\ SaveInv' /\ KeptInv' /\ TextInv'
  BY DEF FileInv, BackupInv, SaveInv, KeptInv, TextInv, Recheck, Pass, Allowed, disk, history,
     Complete, Opening, WithSlot, NoSlot, Slots, Kept, PreOpen, InPlace, Guarded
<1> QED  BY <1>1, <1>2

LEMMA WriteTempInv == ASSUME IInv, WriteTemp PROVE IInv'
<1> USE DEF IInv
<1>1. TypeOK'
  BY DEF TypeOK, SaveInv, WriteTemp, history, Target, SideFile, Backup, Request, Save, Began,
     Places, Contents, Slots
<1>2. FileInv' /\ BackupInv' /\ SaveInv' /\ KeptInv' /\ TextInv'
  BY DEF FileInv, BackupInv, SaveInv, KeptInv, TextInv, WriteTemp, history, Complete, Opening,
     WithSlot, NoSlot, Slots, Kept, PreOpen, InPlace, Guarded
<1> QED  BY <1>1, <1>2

LEMMA IdentifyInv == ASSUME IInv, Identify PROVE IInv'
<1> USE DEF IInv
<1>1. TypeOK'
  BY DEF TypeOK, Identify, SameTarget, disk, history, Target, SideFile, Backup, Request, Save,
     Began, Places, Contents, Slots
<1>2. FileInv' /\ BackupInv' /\ SaveInv' /\ KeptInv' /\ TextInv'
  BY DEF FileInv, BackupInv, SaveInv, KeptInv, TextInv, Identify, SameTarget, disk, history,
     Complete, Opening, WithSlot, NoSlot, Slots, Kept, PreOpen, InPlace, Guarded
<1> QED  BY <1>1, <1>2

LEMMA RenameInv == ASSUME IInv, Rename PROVE IInv'
<1> USE DEF IInv
<1>1. TypeOK'
  <2>1. tmp = [text |-> save.text, synced |-> TRUE] /\ save.text \in Texts
    BY DEF Rename, SaveInv, TypeOK, Save
  <2>2. PICK i \in Ids, s \in Stamps : target' = File(tmp.text, tmp.synced, i, s, FALSE)
    BY DEF Rename, FreshIds, FreshStamps
  <2>3. target' \in Target
    BY <2>1, <2>2 DEF File, Target, Contents
  <2> QED  BY <2>3 DEF TypeOK, Rename, history, Places
<1>2. FileInv'
  BY SafeWriteAssumption DEF FileInv, TypeOK, SaveInv, Rename, File, FreshIds, FreshStamps,
     history, Complete, Opening, Target, SideFile, Backup, Request, Save, Began, Places,
     Contents, Slots
<1>3. BackupInv' /\ SaveInv' /\ KeptInv' /\ TextInv'
  BY DEF BackupInv, SaveInv, KeptInv, TextInv, Rename, File, FreshIds, FreshStamps, history,
     WithSlot, NoSlot, Opening, Slots, Kept, PreOpen, InPlace, Guarded
<1> QED  BY <1>1, <1>2, <1>3

LEMMA FallBackInv == ASSUME IInv, FallBack PROVE IInv'
<1> USE DEF IInv
<1>1. TypeOK'
  BY DEF TypeOK, FallBack, SameTarget, disk, history, Target, SideFile, Backup, Request, Save,
     Began, Places, Contents, Slots
<1>2. FileInv' /\ BackupInv' /\ SaveInv' /\ KeptInv' /\ TextInv'
  BY DEF FileInv, BackupInv, SaveInv, KeptInv, TextInv, FallBack, SameTarget, disk, history,
     Complete, Opening, WithSlot, NoSlot, Slots, Kept, PreOpen, InPlace, Guarded
<1> QED  BY <1>1, <1>2

-----------------------------------------------------------------------------
(* Writing in place *)

LEMMA CopyInv == ASSUME IInv, Copy PROVE IInv'
<1> USE DEF IInv
<1>1. TypeOK'
  BY DEF TypeOK, Copy, history, Target, SideFile, Backup, Request, Save, Began, Places, Contents,
     Slots
<1>2. SaveInv'
  <2>1. staging' \in SideFile /\ staging'.synced
    BY DEF Copy, SideFile, TypeOK, Target, Contents
  <2>2. staging' # NoFile
    BY <2>1, SafeWriteAssumption
  <2> QED  BY <2>1, <2>2 DEF SaveInv, Copy, history
<1>3. FileInv' /\ BackupInv' /\ KeptInv' /\ TextInv'
  BY DEF FileInv, BackupInv, KeptInv, TextInv, Copy, history, Complete, Opening, WithSlot,
     NoSlot, Slots, Kept, PreOpen, InPlace, Guarded
<1> QED  BY <1>1, <1>2, <1>3

LEMMA InstallInv == ASSUME IInv, Install PROVE IInv'
<1> USE DEF IInv
<1>1. TypeOK'
  BY DEF TypeOK, SaveInv, Install, Target, SideFile, Backup, Request, Save, Began, Places,
     Contents, Slots
<1>2. BackupInv'
  BY SafeWriteAssumption DEF BackupInv, TypeOK, SaveInv, Install, WithSlot, NoSlot, Opening,
     Slots, Target, SideFile, Backup, Request, Save, Began, Places, Contents
<1>3. KeptInv'
  BY SafeWriteAssumption DEF KeptInv, BackupInv, TypeOK, Install, Kept, PreOpen, Opening,
     WithSlot, NoSlot, Slots
<1>4. TextInv'
  BY DEF TextInv, TypeOK, Install, InPlace, PreOpen, Opening, Target, SideFile, Backup, Request,
     Save, Began, Places, Contents, Slots, Guarded
<1>5. FileInv' /\ SaveInv'
  BY DEF FileInv, SaveInv, Install, Complete, Opening
<1> QED  BY <1>1, <1>2, <1>3, <1>4, <1>5

LEMMA OpenInv == ASSUME IInv, Open PROVE IInv'
<1> USE DEF IInv
<1>1. TypeOK'
  BY DEF TypeOK, Open, Opened, File, FreshIds, FreshStamps, Target, SideFile, Backup, Request,
     Save, Began, Places, Contents, Slots
<1>2. FileInv'
  BY SafeWriteAssumption DEF FileInv, Open, Opened, File, FreshIds, FreshStamps, Complete, Opening
<1>3. BackupInv' /\ SaveInv' /\ KeptInv' /\ TextInv'
  BY DEF BackupInv, SaveInv, KeptInv, TextInv, Open, Opened, File, FreshIds, FreshStamps,
     WithSlot, NoSlot, Opening, Slots, Kept, PreOpen, InPlace, Guarded
<1> QED  BY <1>1, <1>2, <1>3

LEMMA WriteInv == ASSUME IInv, Write PROVE IInv'
<1> USE DEF IInv
<1>1. TypeOK'
  BY DEF TypeOK, SaveInv, Write, history, Target, SideFile, Backup, Request, Save, Began, Places,
     Contents, Slots
<1>2. FileInv'
  BY SafeWriteAssumption DEF FileInv, TypeOK, SaveInv, Write, history, Complete, Opening, Target,
     SideFile, Backup, Request, Save, Began, Places, Contents, Slots
<1>3. BackupInv' /\ SaveInv' /\ KeptInv' /\ TextInv'
  BY DEF BackupInv, SaveInv, KeptInv, TextInv, Write, history, WithSlot, NoSlot, Opening, Slots,
     Kept, PreOpen, InPlace, Guarded
<1> QED  BY <1>1, <1>2, <1>3

LEMMA SyncInv == ASSUME IInv, Sync PROVE IInv'
<1> USE DEF IInv
<1>1. TypeOK'
  <2>1. target' \in Target
    BY DEF TypeOK, Sync, Target
  <2> QED  BY <2>1 DEF TypeOK, Sync, history, Places
<1>2. FileInv'
  BY SafeWriteAssumption DEF FileInv, TypeOK, SaveInv, Sync, history, Complete, Opening, Target,
     SideFile, Backup, Request, Save, Began, Places, Contents, Slots
<1>3. BackupInv' /\ SaveInv' /\ KeptInv' /\ TextInv'
  BY DEF BackupInv, SaveInv, KeptInv, TextInv, Sync, history, WithSlot, NoSlot, Opening, Slots,
     Kept, PreOpen, InPlace, Guarded
<1> QED  BY <1>1, <1>2, <1>3

-----------------------------------------------------------------------------
(* The ends of a save *)

LEMMA RemoveRemoves ==
  ASSUME IInv, NEW files \in SUBSET Removable, Remove(files)
  PROVE  Removes(files)
<1>1. PICK failed \in SUBSET (files \cap There) :
        /\ tmp' = IF "tmp" \in files \ failed THEN NoFile ELSE TmpThere
        /\ staging' = IF "staging" \in files \ failed THEN NoFile ELSE StagingThere
        /\ backup' = IF "backup" \in files \ failed THEN Without(slot) ELSE backup
        /\ keeper' = IF "backup" \in files \ failed THEN KeeperWithout(slot) ELSE keeper
        /\ stuck' = stuck \cup failed
  BY DEF Remove
<1>2. failed \subseteq files /\ stuck \subseteq Removable
  BY DEF IInv, TypeOK
<1> QED  BY <1>1, <1>2 DEF Removes, RemovesBackup

LEMMA RemovesType ==
  ASSUME IInv, NEW files, Removes(files)
  PROVE  /\ tmp' \in SideFile \cup {NoFile} /\ staging' \in SideFile \cup {NoFile}
         /\ backup' \in [Slots -> Backup \cup {NoFile}] /\ keeper' \in 0 .. MaxBackups
         /\ stuck' \subseteq Removable
<1> USE DEF IInv
<1>1. TmpThere \in SideFile \cup {NoFile} /\ StagingThere \in SideFile \cup {NoFile}
  BY DEF TypeOK, TmpThere, StagingThere, Partial, SideFile
<1>2. backup' \in [Slots -> Backup \cup {NoFile}] /\ keeper' \in 0 .. MaxBackups
  BY SafeWriteAssumption DEF Removes, RemovesBackup, TypeOK, Without, KeeperWithout, Slots
<1> QED  BY <1>1, <1>2 DEF Removes

\* What stays true of the backups when the one in hand is removed, or not.
LEMMA RemovesBackupInv ==
  ASSUME IInv, NEW files, Removes(files), Ended
  PROVE  BackupInv'
BY SafeWriteAssumption DEF IInv, BackupInv, TypeOK, Removes, RemovesBackup, Without, KeeperWithout,
   Ended, WithSlot, NoSlot, Opening, Slots

LEMMA WriteFailsInv == ASSUME IInv, WriteFails PROVE IInv'
<1> USE DEF IInv
<1>1. Removes({"tmp"})
  BY RemoveRemoves DEF WriteFails, Removable
<1>2. backup' = backup /\ keeper' = keeper /\ staging' = staging /\ stuck' \subseteq Removable
      /\ (tmp' # NoFile => "tmp" \in stuck')
  BY <1>1 DEF Removes, WriteFails, StagingThere
<1>3. TypeOK'
  BY <1>1, <1>2, RemovesType DEF TypeOK, WriteFails, Places
<1>4. FileInv' /\ BackupInv' /\ KeptInv' /\ TextInv'
  BY <1>2 DEF FileInv, BackupInv, KeptInv, TextInv, WriteFails, Complete, Opening, WithSlot, NoSlot,
     Slots, Kept, PreOpen, InPlace, Guarded
<1>5. SaveInv'
  BY <1>2 DEF SaveInv, WriteFails
<1> QED  BY <1>3, <1>4, <1>5

LEMMA CleanInv == ASSUME IInv, Clean PROVE IInv'
<1> USE DEF IInv
<1>1. Removes({"tmp", "backup"}) /\ Ended
  BY RemoveRemoves DEF Clean, Removable
<1>2. TypeOK'
  BY <1>1, RemovesType, SafeWriteAssumption DEF TypeOK, Clean, Ended, Target, Places
<1>3. BackupInv'
  BY <1>1, RemovesBackupInv
<1>4. FileInv' /\ SaveInv' /\ KeptInv' /\ TextInv'
  BY DEF FileInv, SaveInv, KeptInv, TextInv, Clean, Ended, Complete, Opening, PreOpen, InPlace,
     Guarded
<1> QED  BY <1>2, <1>3, <1>4

LEMMA GiveUpRemoves == ASSUME IInv, GiveUp PROVE \E files \in SUBSET Removable : Removes(files)
<1>1. PICK files \in {{"tmp"}, {"tmp", "staging"}, {"tmp", "backup"}} : Remove(files)
  BY DEF GiveUp
<1>2. files \in SUBSET Removable
  BY <1>1 DEF Removable
<1> QED  BY <1>1, <1>2, RemoveRemoves

LEMMA GiveUpInv == ASSUME IInv, GiveUp PROVE IInv'
<1> USE DEF IInv
<1>1. PICK files \in SUBSET Removable : Removes(files)
  BY GiveUpRemoves
<1>2. Ended
  BY DEF GiveUp
<1>3. TypeOK'
  BY <1>1, RemovesType, SafeWriteAssumption DEF TypeOK, GiveUp, Ended, Places
<1>4. BackupInv'
  BY <1>1, <1>2, RemovesBackupInv
<1>5. FileInv'
  <2>1. pc \in PreOpen
    BY DEF GiveUp, PreOpen
  <2> QED  BY <2>1 DEF FileInv, GiveUp, Ended, Complete, Opening, PreOpen
<1>6. SaveInv' /\ KeptInv' /\ TextInv'
  BY <1>2 DEF SaveInv, KeptInv, TextInv, Ended, Opening, PreOpen, InPlace, Guarded
<1> QED  BY <1>3, <1>4, <1>5, <1>6

LEMMA RestoreInv == ASSUME IInv, Restore PROVE IInv'
<1> USE DEF IInv
<1>1. Removes({"backup"}) /\ Ended
  BY RemoveRemoves DEF Restore, Removable
<1>2. backup[slot].text \in Texts \cup {Torn}
  BY DEF Restore, BackupInv, WithSlot, TypeOK, Slots, Backup
<1>3. target' \in Target
  BY <1>2 DEF Restore, TypeOK, Target, Contents
<1>4. TypeOK'
  BY <1>1, <1>3, RemovesType, SafeWriteAssumption DEF TypeOK, Restore, Ended, Places
<1>5. FileInv'
  BY <1>2, SafeWriteAssumption DEF FileInv, TypeOK, SaveInv, Restore, Ended, Complete, Opening,
     Target, Save, Contents
<1>6. BackupInv'
  BY <1>1, RemovesBackupInv
<1>7. SaveInv' /\ KeptInv' /\ TextInv'
  BY <1>1 DEF SaveInv, KeptInv, TextInv, Ended, PreOpen, Opening, InPlace, Guarded
<1> QED  BY <1>4, <1>5, <1>6, <1>7

LEMMA RestoreFailsInv == ASSUME IInv, RestoreFails PROVE IInv'
<1> USE DEF IInv
<1>1. TypeOK'
  BY SafeWriteAssumption DEF TypeOK, RestoreFails, Ended, Target, SideFile, Backup, Request,
     Save, Began, Places, Contents, Slots, Removable
<1>2. FileInv'
  BY SafeWriteAssumption DEF FileInv, TypeOK, SaveInv, RestoreFails, Ended, Complete, Opening,
     Target, SideFile, Backup, Request, Save, Began, Places, Contents, Slots
<1>3. BackupInv' /\ SaveInv' /\ KeptInv' /\ TextInv'
  BY DEF BackupInv, SaveInv, KeptInv, TextInv, RestoreFails, Ended, WithSlot, NoSlot, Opening,
     Slots, Kept, PreOpen, InPlace, Guarded
<1> QED  BY <1>1, <1>2, <1>3

-----------------------------------------------------------------------------
(* The question about a backup *)

LEMMA AnswerRestoreInv == ASSUME IInv, NEW i \in Slots, AnswerRestore(i) PROVE IInv'
<1> USE DEF IInv
<1>1. TypeOK'
  BY DEF TypeOK, AnswerRestore, Opened, File, FreshIds, FreshStamps, Newest, Target, SideFile,
     Backup, Request, Save, Began, Places, Contents, Slots
<1>2. FileInv'
  BY SafeWriteAssumption DEF FileInv, AnswerRestore, Opened, File, FreshIds, FreshStamps, Newest,
     Complete, Opening
<1>3. SaveInv'
  BY DEF SaveInv, AnswerRestore
<1>4. BackupInv' /\ KeptInv' /\ TextInv'
  BY DEF BackupInv, KeptInv, TextInv, AnswerRestore, Opened, File, FreshIds, FreshStamps, Newest,
     WithSlot, NoSlot, Opening, Slots, Kept, PreOpen, InPlace, Guarded
<1> QED  BY <1>1, <1>2, <1>3, <1>4

LEMMA AnswerDeleteInv == ASSUME IInv, NEW i \in Slots, AnswerDelete(i) PROVE IInv'
<1> USE DEF IInv
<1>1. TypeOK'
  BY SafeWriteAssumption DEF TypeOK, AnswerDelete, Without, KeeperWithout, program, Target,
     SideFile, Backup, Request, Save, Began, Places, Contents, Slots
<1>2. BackupInv'
  BY DEF BackupInv, TypeOK, AnswerDelete, Without, KeeperWithout, program, WithSlot, NoSlot,
     Opening, Slots, Target, SideFile, Backup, Request, Save, Began, Places, Contents
<1>3. FileInv' /\ SaveInv' /\ KeptInv' /\ TextInv'
  BY DEF FileInv, SaveInv, KeptInv, TextInv, AnswerDelete, Without, KeeperWithout, program,
     Complete, Opening, Kept, PreOpen, InPlace, Guarded
<1> QED  BY <1>1, <1>2, <1>3

LEMMA AnswerIgnoreInv == ASSUME IInv, NEW i \in Slots, AnswerIgnore(i) PROVE IInv'
<1> USE DEF IInv
<1>1. TypeOK'
  BY DEF TypeOK, AnswerIgnore, program, history, Target, SideFile, Backup, Request, Save, Began,
     Places, Contents, Slots
<1>2. BackupInv'
  BY SafeWriteAssumption DEF BackupInv, TypeOK, AnswerIgnore, program, history, WithSlot, NoSlot,
     Opening, Slots, Target, SideFile, Backup, Request, Save, Began, Places, Contents
<1>3. FileInv' /\ SaveInv' /\ KeptInv' /\ TextInv'
  BY DEF FileInv, SaveInv, KeptInv, TextInv, AnswerIgnore, program, history, Complete, Opening,
     Kept, PreOpen, InPlace, Guarded
<1> QED  BY <1>1, <1>2, <1>3

LEMMA AnswerRestoredInv == ASSUME IInv, AnswerRestored PROVE IInv'
<1> USE DEF IInv
<1>1. TypeOK'
  <2>1. slot \in Slots /\ backup[slot] \in Backup
    BY DEF AnswerRestored, BackupInv, WithSlot, TypeOK, Slots
  <2>2. target' \in Target
    BY <2>1 DEF AnswerRestored, TypeOK, Target, Backup, Contents
  <2>3. ASSUME NEW files \in [Slots -> Backup \cup {NoFile}]
        PROVE  AskAbout(files) \in [Slots -> Backup \cup {NoFile}]
    BY DEF AskAbout, Backup
  <2>4. Without(slot) \in [Slots -> Backup \cup {NoFile}]
    BY DEF Without, TypeOK
  <2>5. [backup EXCEPT ![slot].asked = "done"] \in [Slots -> Backup \cup {NoFile}]
    BY <2>1 DEF TypeOK, Backup
  <2>6. backup' \in [Slots -> Backup \cup {NoFile}]
    BY <2>3, <2>4, <2>5 DEF AnswerRestored
  <2>7. keeper' \in 0 .. MaxBackups
    BY SafeWriteAssumption DEF AnswerRestored, KeeperWithout, TypeOK
  <2>8. base' \in Stamps \cup {None}
    BY <2>2 DEF AnswerRestored, Target
  <2> QED  BY <2>2, <2>6, <2>7, <2>8, SafeWriteAssumption DEF TypeOK, AnswerRestored, Ended,
              Places
<1>2. FileInv'
  BY SafeWriteAssumption DEF FileInv, TypeOK, BackupInv, AnswerRestored, AskAbout, Without,
     KeeperWithout, Ended, Complete, Opening, Target, SideFile, Backup, Request, Save, Began,
     Places, Contents, Slots, WithSlot, NoSlot
<1>3. BackupInv'
  BY SafeWriteAssumption DEF BackupInv, TypeOK, FileInv, AnswerRestored, AskAbout, Without,
     KeeperWithout, Ended, WithSlot, NoSlot, Opening, Slots, Target, SideFile, Backup, Request,
     Save, Began, Places, Contents, Complete
<1>4. SaveInv' /\ KeptInv' /\ TextInv'
  BY DEF SaveInv, KeptInv, TextInv, AnswerRestored, AskAbout, Without, KeeperWithout, Ended,
     Kept, PreOpen, Opening, InPlace, Guarded
<1> QED  BY <1>1, <1>2, <1>3, <1>4

LEMMA AnswerFailsInv == ASSUME IInv, AnswerFails PROVE IInv'
<1> USE DEF IInv
<1>1. TypeOK'
  BY SafeWriteAssumption DEF TypeOK, BackupInv, AnswerFails, Ended, Target, SideFile, Backup,
     Request, Save, Began, Places, Contents, Slots, WithSlot, NoSlot, Opening
<1>2. BackupInv'
  BY SafeWriteAssumption DEF BackupInv, TypeOK, AnswerFails, Ended, WithSlot, NoSlot, Opening,
     Slots, Target, SideFile, Backup, Request, Save, Began, Places, Contents
<1>3. FileInv' /\ SaveInv' /\ KeptInv' /\ TextInv'
  BY DEF FileInv, SaveInv, KeptInv, TextInv, AnswerFails, Ended, Complete, Opening, Kept,
     PreOpen, InPlace, Guarded
<1> QED  BY <1>1, <1>2, <1>3

-----------------------------------------------------------------------------
(* Other programs and crashes *)

LEMMA WriteElsewhereInv == ASSUME IInv, WriteElsewhere PROVE IInv'
<1> USE DEF IInv
<1>1. TypeOK'
  BY DEF TypeOK, WriteElsewhere, FileIsOpen, File, FreshStamps, program, Target, SideFile,
     Backup, Request, Save, Began, Places, Contents, Slots
<1>2. FileInv'
  BY SafeWriteAssumption DEF FileInv, WriteElsewhere, FileIsOpen, File, FreshStamps, program,
     Complete, Opening
<1>3. TextInv'
  BY DEF TextInv, SaveInv, WriteElsewhere, FileIsOpen, File, FreshStamps, program, InPlace,
     PreOpen, Opening, Guarded
<1>4. BackupInv' /\ SaveInv' /\ KeptInv'
  BY SafeWriteAssumption DEF BackupInv, SaveInv, KeptInv, WriteElsewhere, FileIsOpen, File,
     FreshStamps, program, WithSlot, NoSlot, Opening, Slots, Kept, PreOpen
<1> QED  BY <1>1, <1>2, <1>3, <1>4

LEMMA ReplaceElsewhereInv == ASSUME IInv, ReplaceElsewhere PROVE IInv'
<1> USE DEF IInv
<1>1. TypeOK'
  <2>1. target' \in Target
    <3>1. CASE target' = NoTarget
      BY <3>1 DEF NoTarget, File, Target, Contents
    <3>2. CASE \E t \in Texts, i \in FreshIds, s \in FreshStamps
               : target' = File(t, TRUE, i, s, FALSE)
      BY <3>2 DEF File, Target, Contents, FreshIds, FreshStamps
    <3> QED  BY <3>1, <3>2 DEF ReplaceElsewhere
  <2> QED  BY <2>1 DEF TypeOK, ReplaceElsewhere, program
<1>2. FileInv'
  BY SafeWriteAssumption DEF FileInv, ReplaceElsewhere, FileIsOpen, File, NoTarget, FreshIds,
     FreshStamps, program, Complete, Opening
<1>3. TextInv'
  BY DEF TextInv, SaveInv, ReplaceElsewhere, FileIsOpen, File, NoTarget, FreshIds, FreshStamps,
     program, InPlace, PreOpen, Opening, Guarded
<1>4. BackupInv' /\ SaveInv' /\ KeptInv'
  BY SafeWriteAssumption DEF BackupInv, SaveInv, KeptInv, ReplaceElsewhere, FileIsOpen, File,
     NoTarget, FreshIds, FreshStamps, program, WithSlot, NoSlot, Opening, Slots, Kept, PreOpen
<1> QED  BY <1>1, <1>2, <1>3, <1>4

\* What a crash leaves: the backups have their texts, for they are synced, and the file is as it
\* was, torn, or has the text of the save whose sync was next.
LEMMA CrashFiles ==
  ASSUME IInv, Crash
  PROVE  /\ \A n \in Slots : IF backup[n] = NoFile THEN backup'[n] = NoFile
                             ELSE /\ backup'[n] \in Backup /\ backup'[n].text = backup[n].text
                                  /\ backup'[n].synced /\ backup'[n].asked = "no"
         /\ backup' \in [Slots -> Backup \cup {NoFile}]
         /\ target' \in Target
         /\ target'.synced /\ target'.id = target.id /\ target'.stamp = target.stamp
         /\ target'.linked = target.linked
         /\ IF target.synced THEN target'.text = target.text
            ELSE target'.text \in {Torn, target.text}
<1> USE DEF IInv
<1>1. PICK power \in BOOLEAN :
        /\ target' = Settled(target, power)
        /\ backup' = [n \in Slots |-> IF backup[n] = NoFile THEN NoFile
                        ELSE [Settled(backup[n], power) EXCEPT !.asked = "no"]]
  BY DEF Crash
<1>2. /\ target' \in Target
      /\ target'.synced /\ target'.id = target.id /\ target'.stamp = target.stamp
      /\ target'.linked = target.linked
      /\ IF target.synced THEN target'.text = target.text
         ELSE target'.text \in {Torn, target.text}
  BY <1>1 DEF Settled, TypeOK, Target, Contents
<1>3. ASSUME NEW n \in Slots, backup[n] # NoFile
      PROVE  /\ backup'[n] \in Backup /\ backup'[n].text = backup[n].text
             /\ backup'[n].synced /\ backup'[n].asked = "no"
  <2>1. backup[n] \in Backup /\ backup[n].synced
    BY <1>3 DEF TypeOK, BackupInv
  <2>2. backup'[n] = [Settled(backup[n], power) EXCEPT !.asked = "no"]
    BY <1>1, <1>3
  <2> QED  BY <2>1, <2>2 DEF Settled, Backup
<1>4. backup' \in [Slots -> Backup \cup {NoFile}]
  <2>1. \A n \in Slots : backup'[n] \in Backup \cup {NoFile}
    BY <1>1, <1>3
  <2> QED  BY <1>1, <2>1
<1> QED  BY <1>1, <1>2, <1>3, <1>4

LEMMA CrashInv == ASSUME IInv, Crash PROVE IInv'
<1> USE DEF IInv
<1>1. TypeOK'
  <2>1. target' \in Target /\ backup' \in [Slots -> Backup \cup {NoFile}]
    BY CrashFiles
  <2> QED  BY <2>1, SafeWriteAssumption DEF TypeOK, Crash, Ended, Places
<1>2. FileInv'
  <2>1. target'.text = Missing <=> target.text = Missing
    BY CrashFiles, SafeWriteAssumption DEF TypeOK, Target, FileInv, SaveInv, Save
  <2>2. target'.linked => FALSE \/ target'.text # Missing
    BY <2>1, CrashFiles DEF FileInv
  <2> QED  BY <2>1, <2>2, CrashFiles, SafeWriteAssumption DEF FileInv, Crash, Ended, Opening
<1>3. BackupInv'
  <2>1. ASSUME NEW n \in Slots PROVE backup'[n] # NoFile => backup[n] # NoFile /\ backup'[n].synced
    BY CrashFiles
  <2>2. ASSUME NEW n \in Slots PROVE backup[n] # NoFile => backup'[n] # NoFile
    BY CrashFiles, SafeWriteAssumption
  <2> QED  BY <2>1, <2>2 DEF BackupInv, Crash, Ended, WithSlot, NoSlot, Opening, TypeOK, Slots
<1>4. SaveInv' /\ KeptInv' /\ TextInv'
  BY DEF SaveInv, KeptInv, TextInv, Crash, Settled, Ended, Kept, PreOpen, Opening, InPlace,
     Guarded
<1> QED  BY <1>1, <1>2, <1>3, <1>4

LEMMA StutterInv == ASSUME IInv, UNCHANGED vars PROVE IInv'
<1> USE DEF IInv
<1>1. TypeOK'
  BY DEF TypeOK, vars
<1>2. FileInv'
  BY DEF FileInv, Complete, vars
<1>3. BackupInv' /\ SaveInv'
  BY DEF BackupInv, SaveInv, vars
<1>4. KeptInv' /\ TextInv'
  BY DEF KeptInv, Kept, TextInv, vars, Guarded
<1> QED  BY <1>1, <1>2, <1>3, <1>4

LEMMA NextInv == IInv /\ [Next]_vars => IInv'
BY LoadInv, WriteTemporaryInv, DropRequestInv, PrepareInv, BeginInv, BeginPreparedInv, CheckInv,
   GuardInv, RecheckInv, WriteTempInv, IdentifyInv, RenameInv, FallBackInv, CopyInv, InstallInv,
   OpenInv, WriteInv, SyncInv, WriteFailsInv, CleanInv, GiveUpInv, RestoreInv, RestoreFailsInv,
   AnswerRestoreInv, AnswerDeleteInv, AnswerIgnoreInv, AnswerRestoredInv, AnswerFailsInv,
   WriteElsewhereInv, ReplaceElsewhereInv, CrashInv, StutterInv DEF Next

LEMMA Invariant == Spec => []IInv
<1>1. Init => IInv
  BY InitInv
<1>2. IInv /\ [Next]_vars => IInv'
  BY NextInv
<1> QED  BY <1>1, <1>2, PTL DEF Spec

\* The files on the disk and the program's state have their types, for any texts, identities
\* and stamps and any number of backups (the files of write_file_safely, the fields of a save).
THEOREM TypeCorrect == Spec => []TypeOK
<1>1. IInv => TypeOK
  BY DEF IInv
<1> QED  BY <1>1, Invariant, PTL

-----------------------------------------------------------------------------
(* AtomicSave *)

\* The text that can be had, when backups are synced.
LEMMA ContentIs == IInv => Content = IF Complete THEN target.text ELSE Kept
BY DEF IInv, TypeOK, BackupInv, Content, Kept, Slots

LEMMA ContentThen == IInv' => Content' = IF Complete' THEN target'.text ELSE Kept'
BY DEF IInv, TypeOK, BackupInv, Content, Kept, Slots

LEMMA ContentType == IInv' => Content' \in Contents
<1> SUFFICES ASSUME IInv' PROVE Content' \in Contents
  OBVIOUS
<1>1. target'.text \in Contents
  BY DEF IInv, TypeOK, Target
<1>2. Kept' \in Contents
  BY SafeWriteAssumption DEF IInv, TypeOK, BackupInv, Kept, Backup, Slots, Contents
<1> QED  BY <1>1, <1>2, ContentThen

\* The text that comes back when the save is undone.
Back ==
  IF save = NoSave THEN NoSave
  ELSE IF ~Guarded /\ Copied # Torn THEN Copied ELSE began.content

LEMMA StutterPromise ==
  UNCHANGED <<Content, Back, save, outside>> => [Promise!Next]_(Promise!abstractVars)
<1> SUFFICES ASSUME UNCHANGED <<Content, Back, save, outside>>
             PROVE  UNCHANGED Promise!abstractVars
  OBVIOUS
<1>1. (save # NoSave /\ Guarded)' = (save # NoSave /\ Guarded)
  BY DEF Guarded
<1> QED  BY <1>1 DEF Promise!abstractVars, Back

LEMMA SettlePromise ==
  ASSUME IInv, save # NoSave, Content' \in {Content, Back, save.text}, UNCHANGED outside,
         UNCHANGED <<save, Back>> \/ save' = NoSave
  PROVE  [Promise!Next]_(Promise!abstractVars)
<1>1. save.text # NoSave
  BY SafeWriteAssumption DEF IInv, TypeOK, Save, Contents
<1>2. (save # NoSave /\ Guarded)' = IF save' = NoSave THEN FALSE ELSE save'.expected # NoBase
  BY DEF Guarded
<1>3. CASE UNCHANGED <<save, Back>>
  <2>1. (save # NoSave /\ Guarded)' = (save # NoSave /\ Guarded)
    BY <1>3 DEF Guarded
  <2> QED  BY <1>1, <1>3, <2>1 DEF Promise!Settle, Promise!Next, Back
<1>4. CASE save' = NoSave
  BY <1>1, <1>2, <1>4 DEF Promise!Settle, Promise!Next, Back
<1> QED  BY <1>3, <1>4

LEMMA LookPromise ==
  ASSUME IInv, save # NoSave, ~Guarded, Content' = Content, Back' = Content,
         UNCHANGED <<save, outside>>
  PROVE  [Promise!Next]_(Promise!abstractVars)
<1>1. save.text # NoSave
  BY SafeWriteAssumption DEF IInv, TypeOK, Save, Contents
<1>2. (save # NoSave /\ Guarded)' = (save # NoSave /\ Guarded)
  BY DEF Guarded
<1>3. Promise!Look
  BY <1>1, <1>2 DEF Promise!Look, Back
<1> QED  BY <1>3 DEF Promise!Next

LEMMA OthersPromise ==
  ASSUME IInv', outside' = ~outside, UNCHANGED <<save, Back>>
  PROVE  [Promise!Next]_(Promise!abstractVars)
<1>1. (save # NoSave /\ Guarded)' = (save # NoSave /\ Guarded)
  BY DEF Guarded
<1>2. Promise!Others
  BY <1>1, ContentType DEF Promise!Others, Back
<1> QED  BY <1>2 DEF Promise!Next

LEMMA StartPromise ==
  ASSUME IInv, IInv', NEW t \in Texts, NEW expected, NEW prepared, Started(t, expected, prepared),
         save = NoSave, save' # NoSave, pc' # "install", slot' = 0,
         UNCHANGED <<target, backup, keeper, outside>>
  PROVE  [Promise!Next]_(Promise!abstractVars)
<1>1. Content' = Content
  BY DEF Content, Complete
<1>2. save'.text = t /\ began'.content = Content /\ t \in Contents
  BY DEF Started, Contents
<1>3. Back' = Content
  BY <1>2 DEF Back, Copied
<1>4. (save # NoSave /\ Guarded)' \in BOOLEAN
  OBVIOUS
<1>5. Promise!Start
  BY <1>1, <1>2, <1>3, <1>4 DEF Promise!Start, Back
<1> QED  BY <1>5 DEF Promise!Next

\* Removing a backup takes no text that counts, if it is not the one that counts or the file is
\* complete.
LEMMA RemovesKeeps ==
  ASSUME IInv, NEW files, Removes(files), slot # keeper \/ slot = 0
  PROVE  Kept' = Kept
<1>1. CASE UNCHANGED <<backup, keeper>>
  BY <1>1 DEF Kept
<1>2. CASE backup' = Without(slot) /\ keeper' = KeeperWithout(slot)
  <2>1. keeper' = keeper
    BY <1>2 DEF KeeperWithout
  <2>2. keeper # 0 => backup'[keeper] = backup[keeper]
    BY <1>2, SafeWriteAssumption DEF Without, IInv, TypeOK, Slots
  <2> QED  BY <2>1, <2>2 DEF Kept
<1> QED  BY <1>1, <1>2 DEF Removes, RemovesBackup

LEMMA PromiseInit == Init => Promise!Init
<1> SUFFICES ASSUME Init PROVE Promise!Init
  OBVIOUS
<1>1. Content \in Contents
  BY DEF Init, Content, Complete, NoTarget, File, Contents
<1> QED  BY <1>1 DEF Init, Promise!Init

LEMMA PromiseStep == IInv /\ IInv' /\ [Next]_vars => [Promise!Next]_(Promise!abstractVars)
<1> SUFFICES ASSUME IInv, IInv', [Next]_vars PROVE [Promise!Next]_(Promise!abstractVars)
  OBVIOUS
<1> USE DEF IInv
\* Steps that change no text.
<1>1. CASE /\ UNCHANGED <<target, backup, keeper, save, began, slot, outside>>
           /\ UNCHANGED <<pc, staging>> \/ (pc # "install" /\ pc' # "install")
  <2>1. Content' = Content /\ Back' = Back
    BY <1>1 DEF Content, Complete, Back, Copied, Guarded
  <2> QED  BY <1>1, <2>1, StutterPromise
<1>2. CASE \/ WriteTemporary \/ DropRequest \/ Check \/ Guard \/ Recheck \/ WriteTemp \/ Identify
           \/ FallBack \/ UNCHANGED vars \/ \E t \in Texts : Prepare(t)
  BY <1>1, <1>2 DEF WriteTemporary, DropRequest, Check, Guard, Recheck, Pass, WriteTemp, Identify,
     FallBack, Prepare, vars, disk, history
<1>21. CASE WriteFails
  <2>1. Removes({"tmp"})
    BY <1>21, RemoveRemoves DEF WriteFails, Removable
  <2>2. UNCHANGED <<backup, keeper>>
    BY <2>1 DEF Removes
  <2> QED  BY <1>1, <1>21, <2>2 DEF WriteFails
<1>22. CASE Copy
  <2>1. save # NoSave /\ slot = 0
    BY <1>22 DEF Copy, SaveInv, BackupInv, NoSlot
  <2>2. Content' = Content /\ UNCHANGED <<save, began, outside>>
    BY <1>22 DEF Copy, Content, Complete, history
  <2>3. Copied = Torn /\ Copied' = target.text
    BY <1>22, <2>1 DEF Copy, Copied
  <2>4. CASE ~Guarded /\ target.text # Torn
    <3>1. Content = target.text
      BY <1>22, <2>4 DEF Content, Complete, Copy, FileInv
    <3>2. Back' = target.text
      BY <2>1, <2>2, <2>3, <2>4 DEF Back, Guarded
    <3> QED  BY <2>1, <2>2, <2>4, <3>1, <3>2, LookPromise
  <2>5. CASE Guarded \/ target.text = Torn
    <3>1. Back' = Back
      BY <2>1, <2>2, <2>3, <2>5 DEF Back, Guarded
    <3> QED  BY <2>2, <3>1, StutterPromise
  <2> QED  BY <2>4, <2>5
<1>3. CASE Load
  <2>1. Kept' = Kept
    BY <1>3, SafeWriteAssumption DEF Load, AskAbout, Kept, TypeOK, Slots, history, BackupInv,
       Backup
  <2>2. Content' = Content
    BY <1>3, <2>1, ContentIs, ContentThen DEF Load, Complete
  <2>3. Back' = Back
    BY <1>3 DEF Load, Back, SaveInv
  <2> QED  BY <1>3, <2>2, <2>3, StutterPromise DEF Load, history
<1>4. CASE Install
  <2>1. Kept' = Kept
    BY <1>4 DEF Install, Kept, BackupInv, TypeOK, Slots
  <2>2. Content' = Content
    BY <1>4, <2>1, ContentIs, ContentThen DEF Install, Complete
  <2>3. Copied' = Copied
    BY <1>4, SafeWriteAssumption DEF Install, Copied, TypeOK, Slots
  <2>4. Back' = Back
    BY <1>4, <2>3 DEF Install, Back, Guarded
  <2> QED  BY <1>4, <2>2, <2>4, StutterPromise DEF Install
<1>5. CASE Write
  <2>1. ~Complete /\ ~Complete' /\ Kept' = Kept
    BY <1>5 DEF Write, FileInv, Opening, TypeOK, Target, Complete, Kept, history
  <2>2. Back' = Back
    BY <1>5 DEF Write, Back, Copied, Guarded, history
  <2> QED  BY <1>5, <2>1, <2>2, ContentIs, ContentThen, StutterPromise DEF Write, history
\* Steps of a save.
<1>6. ASSUME NEW t \in Texts, Begin(t) PROVE [Promise!Next]_(Promise!abstractVars)
  <2>1. save = NoSave /\ save' # NoSave
    BY <1>6 DEF Begin, SaveInv
  <2>2. PICK expected \in {base, target.stamp, NoBase} : Started(t, expected, None)
    BY <1>6 DEF Begin
  <2>3. slot' = 0 /\ pc' # "install"
    BY <1>6 DEF Begin, BackupInv, NoSlot
  <2> QED  BY <1>6, <2>1, <2>2, <2>3, StartPromise DEF Begin
<1>7. CASE BeginPrepared
  <2>1. save = NoSave /\ save' # NoSave
    BY <1>7 DEF BeginPrepared, SaveInv
  <2>2. request.text \in Texts /\ Started(request.text, base, request.id)
    BY <1>7 DEF BeginPrepared, TypeOK, Request
  <2>3. slot' = 0 /\ pc' # "install"
    BY <1>7 DEF BeginPrepared, BackupInv, NoSlot
  <2> QED  BY <1>7, <2>1, <2>2, <2>3, StartPromise DEF BeginPrepared
<1>8. CASE Rename
  <2>1. save # NoSave /\ save.text \in Texts
    BY <1>8 DEF Rename, SaveInv, TypeOK, Save
  <2>2. Complete' /\ target'.text = save.text
    BY <1>8, <2>1, SafeWriteAssumption DEF Rename, SaveInv, File, Complete
  <2>3. Back' = Back
    BY <1>8 DEF Rename, Back, Copied, Guarded, BackupInv, NoSlot, history
  <2> QED  BY <1>8, <2>1, <2>2, <2>3, ContentThen, SettlePromise DEF Rename, history
<1>9. CASE Open
  <2>1. save # NoSave
    BY <1>9 DEF Open, SaveInv
  <2>2. ~Complete'
    BY <1>9 DEF Open, Opened, File, Complete
  <2>3. slot # 0 /\ Copied = backup[slot].text
    BY <1>9 DEF Open, BackupInv, WithSlot, Copied
  <2>4. Kept' = Back
    <3>1. CASE backup[slot].text # Torn
      BY <1>9, <2>1, <2>3, <3>1 DEF Open, Kept, TextInv, SaveInv, Back, Guarded
    <3>2. CASE backup[slot].text = Torn
      BY <1>9, <2>1, <2>3, <3>2 DEF Open, Kept, KeptInv, PreOpen, Opening, Back
    <3> QED  BY <3>1, <3>2
  <2>5. Back' = Back
    BY <1>9, <2>3 DEF Open, Back, Copied, Guarded
  <2> QED  BY <1>9, <2>1, <2>2, <2>4, <2>5, ContentThen, SettlePromise DEF Open
<1>10. CASE Sync
  <2>1. save # NoSave /\ save.text \in Texts
    BY <1>10 DEF Sync, SaveInv, TypeOK, Save
  <2>2. Complete' /\ target'.text = save.text
    BY <1>10, <2>1, SafeWriteAssumption DEF Sync, FileInv, TypeOK, Target, Complete
  <2>3. Back' = Back
    BY <1>10 DEF Sync, Back, Copied, Guarded, history
  <2> QED  BY <1>10, <2>1, <2>2, <2>3, ContentThen, SettlePromise DEF Sync, history
<1>11. CASE Clean
  <2>1. save # NoSave /\ Complete /\ Complete'
    BY <1>11 DEF Clean, SaveInv, FileInv, Complete
  <2> QED  BY <1>11, <2>1, ContentIs, ContentThen, SettlePromise DEF Clean, Ended
<1>12. CASE GiveUp
  <2>1. save # NoSave /\ (slot # keeper \/ slot = 0)
    BY <1>12 DEF GiveUp, SaveInv, BackupInv, NoSlot
  <2>2. Kept' = Kept
    BY <1>12, <2>1, GiveUpRemoves, RemovesKeeps
  <2>3. Content' = Content
    BY <1>12, <2>2, ContentIs, ContentThen DEF GiveUp, Complete
  <2> QED  BY <1>12, <2>1, <2>3, SettlePromise DEF GiveUp, Ended
<1>13. CASE Restore
  <2>1. save # NoSave
    BY <1>13 DEF Restore, SaveInv
  <2>2. target'.text = backup[slot].text /\ target'.synced /\ Copied = backup[slot].text
    BY <1>13 DEF Restore, TypeOK, Target, BackupInv, WithSlot, Copied
  <2>3. CASE backup[slot].text # Torn
    <3>1. Complete' /\ target'.text = Back
      BY <1>13, <2>1, <2>2, <2>3 DEF Restore, SaveInv, Complete, TextInv, Opening, Back, Guarded
    <3> QED  BY <1>13, <2>1, <3>1, ContentThen, SettlePromise DEF Restore, Ended
  <2>4. CASE backup[slot].text = Torn
    <3>1. ~Complete' /\ slot # keeper
      BY <1>13, <2>1, <2>2, <2>4 DEF Complete, Restore, BackupInv, Opening
    <3>2. Kept = began.content /\ Back = began.content
      BY <1>13, <2>1, <2>2, <2>4, <3>1 DEF Restore, KeptInv, Opening, Back
    <3>3. Removes({"backup"})
      BY <1>13, RemoveRemoves DEF Restore, Removable
    <3>4. Kept' = Back
      BY <3>1, <3>2, <3>3, RemovesKeeps
    <3> QED  BY <1>13, <2>1, <3>1, <3>4, ContentThen, SettlePromise DEF Restore, Ended
  <2> QED  BY <2>3, <2>4
<1>14. CASE RestoreFails
  <2>1. save # NoSave /\ ~Complete'
    BY <1>14 DEF RestoreFails, SaveInv, TypeOK, Target, Complete
  <2>2. Copied = backup[slot].text
    BY <1>14 DEF RestoreFails, BackupInv, WithSlot, Copied
  <2>3. Kept' = Back
    <3>1. CASE backup[slot].text # Torn
      BY <1>14, <2>1, <2>2, <3>1 DEF RestoreFails, Kept, BackupInv, WithSlot, Opening, TextInv,
         SaveInv, Back, Guarded
    <3>2. CASE backup[slot].text = Torn
      BY <1>14, <2>1, <2>2, <3>2 DEF RestoreFails, Kept, BackupInv, KeptInv, Opening, Back
    <3> QED  BY <3>1, <3>2
  <2> QED  BY <1>14, <2>1, <2>3, ContentThen, SettlePromise DEF RestoreFails, Ended
<1>15. CASE Crash
  <2>1. Kept' = Kept
    <3>1. keeper' = keeper
      BY <1>15 DEF Crash
    <3>2. keeper # 0 => keeper \in Slots /\ backup[keeper] # NoFile
      BY DEF TypeOK, BackupInv, Slots
    <3>3. keeper # 0 => backup'[keeper].text = backup[keeper].text
      BY <1>15, <3>2, CrashFiles
    <3> QED  BY <3>1, <3>3 DEF Kept
  <2>2. CASE target.synced \/ target'.text = Torn
    <3>1. Complete' <=> Complete
      BY <1>15, <2>2, CrashFiles DEF Complete
    <3>2. Content' = Content
      BY <1>15, <2>1, <2>2, <3>1, CrashFiles, ContentIs, ContentThen DEF Complete
    <3>3. CASE save = NoSave
      BY <1>15, <3>2, <3>3, StutterPromise DEF Crash, Ended, Back
    <3>4. CASE save # NoSave
      BY <1>15, <3>2, <3>4, SettlePromise DEF Crash, Ended
    <3> QED  BY <3>3, <3>4
  <2>3. CASE ~target.synced /\ target'.text # Torn
    <3>1. target'.text = save.text /\ save # NoSave
      BY <1>15, <2>3, CrashFiles DEF FileInv, SaveInv
    <3>2. Content' = save.text
      BY <1>15, <2>3, <3>1, CrashFiles, ContentThen DEF Complete
    <3> QED  BY <1>15, <3>1, <3>2, SettlePromise DEF Crash, Ended
  <2> QED  BY <2>2, <2>3
\* The question, and other programs.
<1>16. CASE AnswerRestored
  <2>1. save = NoSave /\ began = NoSave /\ ~Complete /\ Kept = backup[slot].text
    BY <1>16 DEF AnswerRestored, SaveInv, FileInv, Complete, BackupInv, WithSlot, Kept
  <2>2. target'.text = backup[slot].text /\ target'.synced
    BY <1>16 DEF AnswerRestored, TypeOK, Target
  <2>3. backup[slot].text = Torn => Kept' = Torn
    <3>1. slot \in Slots /\ slot = keeper
      BY <1>16 DEF AnswerRestored, BackupInv, WithSlot, TypeOK, Slots
    <3>2. CASE keeper' = KeeperWithout(slot)
      BY <3>1, <3>2 DEF KeeperWithout, Kept
    <3>3. CASE keeper' = keeper /\ backup' = AskAbout([backup EXCEPT ![slot].asked = "done"])
      <4>1. backup'[slot].text = backup[slot].text
        BY <1>16, <3>1, <3>3, SafeWriteAssumption DEF AskAbout, TypeOK, Backup, BackupInv,
           AnswerRestored, WithSlot
      <4> QED  BY <3>1, <3>3, <4>1 DEF Kept
    <3> QED  BY <1>16, <3>2, <3>3 DEF AnswerRestored
  <2>4. Content' = Content
    BY <2>1, <2>2, <2>3, ContentIs, ContentThen DEF Complete
  <2> QED  BY <1>16, <2>1, <2>4, StutterPromise DEF AnswerRestored, Ended, Back
<1>17. CASE AnswerFails
  <2>1. Kept' = Kept
    BY <1>17 DEF AnswerFails, Kept, TypeOK, Backup, BackupInv, WithSlot, Slots
  <2>2. Content' = Content
    BY <1>17, <2>1, ContentIs, ContentThen DEF AnswerFails, Complete
  <2>3. save' = save /\ Back' = Back
    BY <1>17 DEF AnswerFails, Ended, SaveInv, Back
  <2> QED  BY <1>17, <2>2, <2>3, StutterPromise DEF AnswerFails
<1>18. ASSUME NEW i \in Slots, AnswerIgnore(i) PROVE [Promise!Next]_(Promise!abstractVars)
  <2>1. Kept' = Kept
    BY <1>18 DEF AnswerIgnore, Kept, TypeOK, Backup, BackupInv, Slots, history
  <2>2. Content' = Content
    BY <1>18, <2>1, ContentIs, ContentThen DEF AnswerIgnore, Complete
  <2>3. Back' = Back
    BY <1>18 DEF AnswerIgnore, Back, SaveInv, program
  <2> QED  BY <1>18, <2>2, <2>3, StutterPromise DEF AnswerIgnore, program, history
<1>19. ASSUME NEW i \in Slots, AnswerRestore(i) \/ AnswerDelete(i)
       PROVE  [Promise!Next]_(Promise!abstractVars)
  <2>1. Back' = Back
    BY <1>19 DEF AnswerRestore, AnswerDelete, Back, SaveInv, program
  <2> QED  BY <1>19, <2>1, OthersPromise DEF AnswerRestore, AnswerDelete, program
<1>20. CASE WriteElsewhere \/ ReplaceElsewhere
  <2>1. Back' = Back
    BY <1>20 DEF WriteElsewhere, ReplaceElsewhere, Back, Copied, Guarded, program
  <2> QED  BY <1>20, <2>1, OthersPromise DEF WriteElsewhere, ReplaceElsewhere, program
<1> QED
  BY <1>2, <1>21, <1>22, <1>3, <1>4, <1>5, <1>6, <1>7, <1>8, <1>9, <1>10, <1>11, <1>12, <1>13, <1>14, <1>15,
     <1>16, <1>17, <1>18, <1>19, <1>20 DEF Next

\* SafeWrite implements AtomicSave: whatever operation fails, whatever other programs do, and
\* wherever the program or the power ends, write_file_safely leaves the text before the save,
\* the text of the save, or other people's text to be had from the file or its backup.
THEOREM TextIsKept == Spec => KeepsText
<1>1. Init => Promise!Init
  BY PromiseInit
<1>2. IInv /\ IInv' /\ [Next]_vars => [Promise!Next]_(Promise!abstractVars)
  BY PromiseStep
<1> QED  BY <1>1, <1>2, Invariant, PTL DEF Spec, KeepsText, Promise!Spec

-----------------------------------------------------------------------------
(* Other programs' texts *)

LEMMA LookStep == IInv /\ LookInv /\ [Next]_vars => LookInv'
<1> SUFFICES ASSUME IInv, LookInv, [Next]_vars PROVE LookInv'
  OBVIOUS
<1> USE DEF IInv
<1>1. CASE Load \/ WriteTemporary \/ DropRequest \/ (\E t \in Texts : Prepare(t))
  BY <1>1 DEF LookInv, Load, AskAbout, disk, history, PreOpen, WriteTemporary, DropRequest,
     Prepare, CanSaveAsync, Guarded
<1>2. ASSUME NEW t \in Texts, Begin(t) PROVE LookInv'
  <2>1. PICK expected \in {base, target.stamp, NoBase} : Started(t, expected, None)
    BY <1>2 DEF Begin
  <2>2. /\ save'.expected = expected /\ save'.exists = (target.text # Missing)
        /\ target' = target /\ pc' \in {"guard", "temp"}
    BY <1>2, <2>1 DEF Started, Begin
  <2>3. ~save'.exists /\ save'.expected # None => target'.stamp # save'.expected
    BY <2>2 DEF FileInv
  <2> QED  BY <2>2, <2>3 DEF LookInv, Guarded
<1>3. CASE BeginPrepared
  BY <1>3 DEF LookInv, BeginPrepared, Started, CanSaveAsync, PreOpen, Guarded
<1>4. CASE Check \/ Guard \/ Recheck \/ WriteTemp \/ Identify \/ Rename \/ FallBack
  BY <1>4 DEF LookInv, Check, Pass, Allowed, disk, history, PreOpen, Guard, Recheck, WriteTemp,
     Identify, SameTarget, Rename, File, FreshIds, FreshStamps, FallBack, Guarded
<1>5. CASE Copy \/ Install \/ Open \/ Write \/ Sync \/ WriteFails
  BY <1>5 DEF Guarded, LookInv, Copy, history, PreOpen, Install, Open, Opened, File, FreshIds,
     FreshStamps, Write, Sync, WriteFails
<1>6. CASE Clean \/ GiveUp \/ Restore \/ RestoreFails
  BY <1>6 DEF LookInv, Clean, Ended, PreOpen, GiveUp, Restore, RestoreFails, Guarded
<1>7. CASE (\E i \in Slots : AnswerRestore(i)) \/ (\E i \in Slots : AnswerDelete(i))
           \/ (\E i \in Slots : AnswerIgnore(i)) \/ AnswerRestored \/ AnswerFails
  BY <1>7 DEF LookInv, AnswerRestore, Opened, File, FreshIds, FreshStamps, Newest, PreOpen,
     AnswerDelete, Without, KeeperWithout, program, AnswerIgnore, history, AnswerRestored,
     AskAbout, Ended, AnswerFails, Guarded
<1>8. CASE WriteElsewhere
  BY <1>8, SafeWriteAssumption DEF LookInv, SaveInv, TypeOK, BackupInv, WriteElsewhere,
     FileIsOpen, File, FreshStamps, program, PreOpen, Target, SideFile, Backup, Request, Save,
     Began, Places, Contents, Slots, WithSlot, NoSlot, Opening, Guarded
<1>9. CASE ReplaceElsewhere
  BY <1>9, SafeWriteAssumption DEF LookInv, SaveInv, TypeOK, BackupInv, ReplaceElsewhere,
     FileIsOpen, File, NoTarget, FreshIds, FreshStamps, program, PreOpen, Target, SideFile,
     Backup, Request, Save, Began, Places, Contents, Slots, WithSlot, NoSlot, Opening, Guarded
<1>10. CASE Crash
  BY <1>10 DEF LookInv, Crash, Settled, Ended, PreOpen, Guarded
<1>11. CASE UNCHANGED vars
  BY <1>11 DEF LookInv, vars, Guarded
<1> QED  BY <1>1, <1>2, <1>3, <1>4, <1>5, <1>6, <1>7, <1>8, <1>9, <1>10, <1>11 DEF Next

LEMMA LookInvariant == Spec => [](LookInv)
<1>1. Init => LookInv
  BY InitInv DEF Init, LookInv, PreOpen, Guarded
<1>2. IInv /\ LookInv /\ [Next]_vars => (LookInv)'
  BY LookStep
<1> QED  BY <1>1, <1>2, Invariant, PTL DEF Spec

LEMMA OthersStep == IInv /\ LookInv /\ [Next]_vars => TakesNoOthersText
<1> SUFFICES ASSUME IInv, LookInv, [Next]_vars PROVE TakesNoOthersText
  OBVIOUS
<1> USE DEF IInv
<1>1. CASE Load \/ WriteTemporary \/ DropRequest \/ (\E t \in Texts : Prepare(t))
           \/ (\E t \in Texts : Begin(t)) \/ BeginPrepared
  BY <1>1 DEF TakesNoOthersText, Load, AskAbout, disk, history, WriteTemporary, DropRequest,
     Prepare, CanSaveAsync, Begin, Started, BeginPrepared
<1>2. CASE Check \/ Guard \/ Recheck \/ WriteTemp \/ Identify \/ FallBack
  BY <1>2 DEF TakesNoOthersText, Check, Pass, Allowed, disk, history, Guard, Recheck, WriteTemp,
     Identify, SameTarget, FallBack
<1>3. CASE Rename
  <2>1. save # NoSave
    BY <1>3 DEF Rename, SaveInv
  <2>2. late \/ target.id = save.id
    BY <1>3, <2>1 DEF Rename, LookInv, SaveInv, FileInv, Guarded
  <2>3. Guarded => late \/ target.stamp = save.expected
    BY <1>3 DEF Rename, LookInv, Guarded
  <2> QED  BY <2>2, <2>3 DEF TakesNoOthersText
<1>4. CASE Copy \/ Install \/ WriteFails
  BY <1>4 DEF TakesNoOthersText, Copy, history, Install, WriteFails
<1>5. CASE Open
  BY <1>5 DEF TakesNoOthersText, LookInv, Open, Opened, File, FreshIds, FreshStamps, PreOpen,
     Guarded
<1>6. CASE Write
  BY <1>6 DEF TakesNoOthersText, FileInv, Write, history, Complete, Opening
<1>7. CASE Sync
  BY <1>7 DEF TakesNoOthersText, TypeOK, Sync, history, Target, SideFile, Backup, Request, Save,
     Began, Places, Contents, Slots
<1>8. CASE Clean \/ GiveUp
  BY <1>8 DEF TakesNoOthersText, Clean, GiveUp
<1>9. CASE Restore
  BY <1>9 DEF TakesNoOthersText, FileInv, Restore, Opening
<1>10. CASE RestoreFails
  BY <1>10 DEF TakesNoOthersText, FileInv, RestoreFails, Ended, Complete, Opening
<1>11. ASSUME NEW i \in Slots, AnswerRestore(i) PROVE TakesNoOthersText
  BY <1>11 DEF TakesNoOthersText, AnswerRestore, Opened, File, FreshIds, FreshStamps, Newest
<1>12. ASSUME NEW i \in Slots, AnswerDelete(i) PROVE TakesNoOthersText
  BY <1>12 DEF TakesNoOthersText, AnswerDelete, Without, KeeperWithout, program
<1>13. ASSUME NEW i \in Slots, AnswerIgnore(i) PROVE TakesNoOthersText
  BY <1>13 DEF TakesNoOthersText, AnswerIgnore, program, history
<1>14. CASE AnswerRestored
  BY <1>14 DEF TakesNoOthersText, SaveInv, AnswerRestored, AskAbout, Without, KeeperWithout, Ended
<1>15. CASE AnswerFails
  BY <1>15 DEF TakesNoOthersText, AnswerFails, Ended
<1>16. CASE WriteElsewhere
  BY <1>16 DEF TakesNoOthersText, WriteElsewhere, FileIsOpen, File, FreshStamps, program
<1>17. CASE ReplaceElsewhere
  BY <1>17 DEF TakesNoOthersText, ReplaceElsewhere, FileIsOpen, File, NoTarget, FreshIds,
     FreshStamps, program
<1>18. CASE Crash
  <2>1. CASE target.synced
    <3>1. target \in Target /\ target' \in Target
      BY <1>18, CrashFiles DEF TypeOK
    <3>2. /\ target'.text = target.text /\ target'.synced = target.synced /\ target'.id = target.id
          /\ target'.stamp = target.stamp /\ target'.linked = target.linked
      BY <1>18, <2>1, <3>1, CrashFiles DEF Target
    <3>3. target' = target
      BY <3>1, <3>2 DEF Target
    <3> QED  BY <3>3 DEF TakesNoOthersText
  <2>2. CASE ~target.synced
    BY <2>2 DEF TakesNoOthersText
  <2> QED  BY <2>1, <2>2
<1>19. CASE UNCHANGED vars
  BY <1>19 DEF TakesNoOthersText, vars
<1> QED  BY <1>1, <1>2, <1>3, <1>4, <1>5, <1>6, <1>7, <1>8, <1>9, <1>10, <1>11, <1>12, <1>13,
            <1>14, <1>15, <1>16, <1>17, <1>18, <1>19 DEF Next

\* No save that has a guard takes a text that another program put into the file, except one
\* that was written after the guard's last look, and a save without a guard renames its file
\* only over the one it found (run_guard, and the identity that the replacement compares).
THEOREM OthersTextIsKept == Spec => OthersTextKept
<1>1. IInv /\ LookInv /\ [Next]_vars => TakesNoOthersText
  BY OthersStep
<1> QED  BY <1>1, Invariant, LookInvariant, PTL DEF Spec, OthersTextKept

-----------------------------------------------------------------------------
(* The ends of a save *)

LEMMA EndStep == IInv /\ EndInv /\ [Next]_vars => EndInv'
<1> SUFFICES ASSUME IInv, EndInv, [Next]_vars PROVE EndInv'
  OBVIOUS
<1> USE DEF IInv
<1>1. CASE WriteTemporary \/ DropRequest \/ (\E t \in Texts : Prepare(t))
  BY <1>1 DEF EndInv, WriteTemporary, disk, history, PreOpen, Slots, DropRequest, Prepare,
     CanSaveAsync
<1>2. CASE Load
  BY <1>2 DEF EndInv, SaveInv, Load, AskAbout, history, PreOpen, Slots
<1>3. ASSUME NEW t \in Texts, Begin(t) PROVE EndInv'
  BY <1>3 DEF EndInv, BackupInv, Begin, Started, disk, PreOpen, Slots, WithSlot, NoSlot, Opening
<1>4. CASE BeginPrepared
  BY <1>4 DEF EndInv, BackupInv, BeginPrepared, Started, CanSaveAsync, PreOpen, Slots, WithSlot,
     NoSlot, Opening
<1>5. CASE Check \/ Guard \/ Recheck \/ WriteTemp \/ Identify \/ FallBack
  BY <1>5 DEF EndInv, Check, Pass, Allowed, disk, history, PreOpen, Slots, Guard, Recheck,
     WriteTemp, Identify, SameTarget, FallBack
<1>6. CASE Rename
  BY <1>6 DEF EndInv, SaveInv, Rename, File, FreshIds, FreshStamps, history, PreOpen, Slots
<1>7. CASE Copy \/ Open \/ Write \/ WriteFails
  <2>1. CASE Copy \/ Open \/ Write
    BY <2>1 DEF EndInv, Copy, history, Slots, Open, Opened, File, FreshIds, FreshStamps, Write
  <2>2. CASE WriteFails
    <3>1. Removes({"tmp"})
      BY <2>2, RemoveRemoves DEF WriteFails, Removable
    <3>2. backup' = backup
      BY <3>1 DEF Removes
    <3> QED  BY <2>2, <3>2 DEF EndInv, WriteFails
  <2> QED  BY <1>7, <2>1, <2>2
<1>8. CASE Install
  BY <1>8, SafeWriteAssumption DEF EndInv, SaveInv, TypeOK, BackupInv, Install, PreOpen, Slots,
     Target, SideFile, Backup, Request, Save, Began, Places, Contents, WithSlot, NoSlot, Opening
<1>9. CASE Sync
  BY <1>9 DEF EndInv, FileInv, Sync, history, PreOpen, Slots, Complete, Opening
<1>10. CASE Clean \/ GiveUp \/ Restore \/ RestoreFails
  BY <1>10 DEF EndInv, Clean, Ended, GiveUp, Restore, RestoreFails
<1>11. CASE AnswerRestored \/ AnswerFails
  BY <1>11 DEF EndInv, AnswerRestored, AskAbout, Without, KeeperWithout, Ended, PreOpen, Slots,
     AnswerFails
<1>12. ASSUME NEW i \in Slots, AnswerRestore(i) PROVE EndInv'
  BY <1>12 DEF EndInv, SaveInv, AnswerRestore, Opened, File, FreshIds, FreshStamps, Newest,
     PreOpen, Slots
<1>13. ASSUME NEW i \in Slots, AnswerDelete(i) PROVE EndInv'
  BY <1>13 DEF EndInv, SaveInv, AnswerDelete, Without, KeeperWithout, program, PreOpen, Slots
<1>14. ASSUME NEW i \in Slots, AnswerIgnore(i) PROVE EndInv'
  BY <1>14 DEF EndInv, SaveInv, AnswerIgnore, program, history, PreOpen, Slots
<1>15. CASE WriteElsewhere
  BY <1>15, SafeWriteAssumption DEF EndInv, TypeOK, FileInv, WriteElsewhere, FileIsOpen, File,
     FreshStamps, program, PreOpen, Slots, Target, SideFile, Backup, Request, Save, Began,
     Places, Contents, Complete, Opening
<1>16. CASE ReplaceElsewhere
  BY <1>16, SafeWriteAssumption DEF EndInv, TypeOK, FileInv, ReplaceElsewhere, FileIsOpen, File,
     NoTarget, FreshIds, FreshStamps, program, PreOpen, Slots, Target, SideFile, Backup, Request,
     Save, Began, Places, Contents, Complete, Opening
<1>17. CASE Crash
  BY <1>17 DEF EndInv, Crash, Settled, Ended, PreOpen, Slots
<1>18. CASE UNCHANGED vars
  BY <1>18 DEF EndInv, vars
<1> QED  BY <1>1, <1>2, <1>3, <1>4, <1>5, <1>6, <1>7, <1>8, <1>9, <1>10, <1>11, <1>12, <1>13,
            <1>14, <1>15, <1>16, <1>17, <1>18 DEF Next

LEMMA EndInvariant == Spec => [](EndInv)
<1>1. Init => EndInv
  BY InitInv DEF Init, EndInv, PreOpen
<1>2. IInv /\ EndInv /\ [Next]_vars => (EndInv)'
  BY EndStep
<1> QED  BY <1>1, <1>2, Invariant, PTL DEF Spec

\* Without the backup in hand the backups are those from before the save.
LEMMA WithoutSlot ==
  ASSUME IInv, EndInv, save # NoSave, backup' = Without(slot)
  PROVE  {n \in Slots : backup'[n] # NoFile} = began.backups
<1>1. ASSUME NEW n \in Slots PROVE backup'[n] # NoFile <=> backup[n] # NoFile /\ n # slot
  BY <1>1 DEF Without
<1>2. \A n \in Slots : backup[n] # NoFile <=> n \in began.backups \cup ({slot} \ {0})
  BY DEF EndInv
<1>3. slot \notin began.backups /\ began.backups \subseteq Slots
  BY SafeWriteAssumption DEF EndInv, IInv, SaveInv, TypeOK, Began
<1> QED  BY <1>1, <1>2, <1>3

LEMMA EndsStep == IInv /\ EndInv => EndsWell
<1> SUFFICES ASSUME IInv, EndInv, Ends PROVE EndsWell
  BY DEF EndsWell
<1> USE DEF IInv
<1>1. save # NoSave
  BY DEF Ends, Clean, GiveUp, Restore, RestoreFails, SaveInv
<1>2. CASE Clean
  <2>1. Removes({"tmp", "backup"})
    BY <1>2, RemoveRemoves DEF Clean, Removable
  <2>2. staging' = NoFile
    BY <1>1, <1>2, <2>1 DEF Removes, Clean, SaveInv, StagingThere
  <2>3. "backup" \in stuck' \/ backup' = Without(slot)
    BY <2>1 DEF Removes
  <2>4. target'.text # Torn /\ (late \/ target'.text = save.text)
    BY <1>2 DEF Clean, FileInv, Complete, EndInv
  <2> QED  BY <1>1, <1>2, <2>1, <2>2, <2>3, <2>4, WithoutSlot DEF EndsWell, Removes
<1>3. CASE GiveUp
  <2>1. target'.text = Torn => began.text = Torn
    BY <1>3 DEF GiveUp, KeptInv, PreOpen
  <2>2. CASE pc \in {"recheck", "open"}
    <3>1. Removes({"tmp", "backup"})
      BY <1>3, <2>2, RemoveRemoves DEF GiveUp, Removable
    <3>2. staging' = NoFile
      BY <1>1, <2>2, <3>1 DEF Removes, SaveInv, StagingThere
    <3>3. "backup" \in stuck' \/ backup' = Without(slot)
      BY <3>1 DEF Removes
    <3> QED  BY <1>1, <2>1, <2>2, <3>1, <3>2, <3>3, WithoutSlot DEF EndsWell, Removes
  <2>3. CASE pc \notin {"recheck", "open"}
    <3>1. \/ Removes({"tmp", "staging"})
          \/ pc \notin {"copy", "install"} /\ Removes({"tmp"})
      BY <1>3, <2>3, RemoveRemoves DEF GiveUp, Removable
    <3>2. tmp' = NoFile \/ "tmp" \in stuck'
      BY <3>1 DEF Removes
    <3>3. staging' = NoFile \/ "staging" \in stuck'
      BY <1>1, <3>1 DEF Removes, SaveInv, StagingThere
    <3>4. backup' = backup /\ slot = 0 /\ pc # "clean"
      BY <1>3, <2>3, <3>1 DEF Removes, GiveUp, BackupInv, NoSlot
    <3>5. {n \in Slots : backup'[n] # NoFile} = began.backups
      BY <1>1, <3>4 DEF EndInv
    <3> QED  BY <2>1, <3>2, <3>3, <3>4, <3>5 DEF EndsWell
  <2> QED  BY <2>2, <2>3
<1>4. CASE Restore
  <2>1. Removes({"backup"})
    BY <1>4, RemoveRemoves DEF Restore, Removable
  <2>2. tmp' # NoFile => "tmp" \in stuck'
    BY <1>4, <2>1 DEF Removes, Restore, SaveInv, TmpThere
  <2>3. staging' = NoFile
    BY <1>1, <1>4, <2>1 DEF Removes, Restore, SaveInv, StagingThere
  <2>4. "backup" \in stuck' \/ backup' = Without(slot)
    BY <2>1 DEF Removes
  <2>5. target'.text = Torn => began.text = Torn
    BY <1>4 DEF Restore, TypeOK, Target, KeptInv, Opening
  <2> QED  BY <1>1, <1>4, <2>2, <2>3, <2>4, <2>5, WithoutSlot DEF EndsWell, Restore
<1>5. CASE RestoreFails
  BY <1>1, <1>5 DEF EndsWell, RestoreFails, SaveInv
<1> QED  BY <1>2, <1>3, <1>4, <1>5 DEF Ends

\* On each way through write_file_safely and each way out of it but a crash, a save leaves a
\* whole file and has removed its temporary file, its copy and its backup, but for those whose
\* own removal failed.
THEOREM SavesEndWhole == Spec => EndsWhole
<1>1. IInv /\ EndInv => EndsWell
  BY EndsStep
<1> QED  BY <1>1, Invariant, EndInvariant, PTL DEF Spec, EndsWhole

-----------------------------------------------------------------------------
(* The offer of a backup *)

\* A save that ends leaves the backup of a torn file the newest one.
LEMMA RemovesOffer ==
  ASSUME IInv, OfferInv, NEW files, Removes(files), pc' = "idle", UNCHANGED <<base, piled>>,
         target'.text = Torn => target.text = Torn \/ pc \in Opening
  PROVE  OfferInv'
<1>1. CASE UNCHANGED <<backup, keeper>>
  BY <1>1 DEF OfferInv, Newest, Opening
<1>2. CASE backup' = Without(slot) /\ keeper' = KeeperWithout(slot)
  <2>1. \A n \in Slots : backup'[n] = IF n = slot THEN NoFile ELSE backup[n]
    BY <1>2 DEF Without
  <2>2. keeper' # 0 => keeper' = keeper /\ keeper # slot
    BY <1>2 DEF KeeperWithout
  <2>3. keeper' # 0 => keeper' \in Slots
    BY <2>2 DEF IInv, TypeOK, Slots
  <2>4. keeper' # 0 /\ Newest(keeper) => Newest(keeper)'
    BY <2>1, <2>2, <2>3 DEF Newest
  <2>5. base' = NoBase => \A n \in Slots : backup'[n] # NoFile => backup'[n].asked = "no"
    BY <2>1 DEF OfferInv
  <2> QED  BY <2>2, <2>4, <2>5 DEF OfferInv, Opening
<1> QED  BY <1>1, <1>2 DEF Removes, RemovesBackup

LEMMA OfferStep == IInv /\ EndInv /\ OfferInv /\ [Next]_vars => OfferInv'
<1> SUFFICES ASSUME IInv, EndInv, OfferInv, [Next]_vars PROVE OfferInv'
  OBVIOUS
<1> USE DEF IInv
<1>1. CASE WriteTemporary \/ DropRequest \/ (\E t \in Texts : Prepare(t))
           \/ (\E t \in Texts : Begin(t)) \/ BeginPrepared
  BY <1>1 DEF OfferInv, WriteTemporary, disk, history, Newest, Opening, DropRequest, Prepare,
     CanSaveAsync, Begin, Started, BeginPrepared
<1>2. CASE Load
  BY <1>2, SafeWriteAssumption DEF OfferInv, TypeOK, Load, AskAbout, history, Newest, Opening,
     Target, SideFile, Backup, Request, Save, Began, Places, Contents, Slots
<1>3. CASE Check \/ Guard \/ Recheck \/ WriteTemp \/ Identify \/ FallBack
  BY <1>3 DEF OfferInv, Check, Pass, Allowed, disk, history, Newest, Opening, Guard, Recheck,
     WriteTemp, Identify, SameTarget, FallBack
<1>4. CASE Rename
  BY <1>4, SafeWriteAssumption DEF OfferInv, SaveInv, TypeOK, Rename, File, FreshIds,
     FreshStamps, history, Newest, Opening, Target, SideFile, Backup, Request, Save, Began,
     Places, Contents, Slots
<1>5. CASE Copy \/ Open \/ Write \/ Sync \/ WriteFails
  <2>1. CASE Copy \/ Open \/ Write \/ Sync
    BY <2>1 DEF OfferInv, Copy, history, Newest, Opening, Open, Opened, File, FreshIds,
       FreshStamps, Write, Sync
  <2>2. CASE WriteFails
    <3>1. Removes({"tmp"})
      BY <2>2, RemoveRemoves DEF WriteFails, Removable
    <3>2. backup' = backup /\ keeper' = keeper
      BY <3>1 DEF Removes
    <3> QED  BY <2>2, <3>2 DEF OfferInv, WriteFails, Newest, Opening
  <2> QED  BY <1>5, <2>1, <2>2
<1>6. CASE Install
  <2>1. PICK n \in Slots :
          /\ \A k \in Slots : k >= n => backup[k] = NoFile
          /\ backup' = [backup EXCEPT ![n] =
                          [text |-> staging.text, synced |-> staging.synced, asked |-> "no"]]
          /\ slot' = n
    BY <1>6 DEF Install
  <2>2. staging \in SideFile
    BY <1>6 DEF Install, SaveInv, TypeOK
  <2>3. backup'[n] \in Backup
    BY <2>1, <2>2 DEF TypeOK, Backup, SideFile
  <2>4. Newest(slot)'
    BY <2>1, <2>3, SafeWriteAssumption DEF Newest, TypeOK, Slots
  <2>5. target.text = Torn \/ staging.text = Torn => piled'
    BY <1>6 DEF Install, KeptInv
  <2>6. backup'[n].text = staging.text
    BY <2>1 DEF TypeOK
  <2>7. base' = NoBase => \A k \in Slots : backup'[k] # NoFile => backup'[k].asked = "no"
    BY <1>6, <2>1 DEF OfferInv, Install, TypeOK
  <2> QED  BY <1>6, <2>1, <2>4, <2>5, <2>6, <2>7 DEF OfferInv, Install, Opening
<1>7. CASE Clean
  <2>1. base' # NoBase /\ target'.text # Torn /\ pc' = "idle"
    BY <1>7, SafeWriteAssumption DEF Clean, Ended, TypeOK, Target, FileInv, Complete
  <2> QED  BY <2>1 DEF OfferInv, Opening
<1>8. CASE GiveUp
  <2>1. PICK files \in SUBSET Removable : Removes(files)
    BY <1>8, GiveUpRemoves
  <2> QED  BY <1>8, <2>1, RemovesOffer DEF GiveUp, Ended
<1>9. CASE Restore
  <2>1. Removes({"backup"})
    BY <1>9, RemoveRemoves DEF Restore, Removable
  <2> QED  BY <1>9, <2>1, RemovesOffer DEF Restore, Ended, Opening
<1>10. CASE RestoreFails
  BY <1>10 DEF OfferInv, RestoreFails, Ended, Newest, Opening
<1>11. ASSUME NEW i \in Slots, AnswerRestore(i) PROVE OfferInv'
  BY <1>11 DEF OfferInv, AnswerRestore, Opened, File, FreshIds, FreshStamps, Newest, Opening
<1>12. ASSUME NEW i \in Slots, AnswerDelete(i) PROVE OfferInv'
  BY <1>12 DEF OfferInv, TypeOK, AnswerDelete, Without, KeeperWithout, program, Newest, Opening,
     Target, SideFile, Backup, Request, Save, Began, Places, Contents, Slots
<1>13. ASSUME NEW i \in Slots, AnswerIgnore(i) PROVE OfferInv'
  BY <1>13, SafeWriteAssumption DEF OfferInv, TypeOK, BackupInv, AnswerIgnore, program, history,
     Newest, Opening, Target, SideFile, Backup, Request, Save, Began, Places, Contents, Slots,
     WithSlot, NoSlot
<1>14. CASE AnswerRestored
  BY <1>14, SafeWriteAssumption DEF OfferInv, TypeOK, BackupInv, FileInv, AnswerRestored,
     AskAbout, Without, KeeperWithout, Ended, Newest, Opening, Target, SideFile, Backup, Request,
     Save, Began, Places, Contents, Slots, WithSlot, NoSlot, Complete
<1>15. CASE AnswerFails
  BY <1>15, SafeWriteAssumption DEF OfferInv, TypeOK, BackupInv, AnswerFails, Ended, Newest,
     Opening, Target, SideFile, Backup, Request, Save, Began, Places, Contents, Slots, WithSlot,
     NoSlot
<1>16. CASE WriteElsewhere
  BY <1>16, SafeWriteAssumption DEF OfferInv, WriteElsewhere, FileIsOpen, File, FreshStamps,
     program, Newest, Opening
<1>17. CASE ReplaceElsewhere
  BY <1>17, SafeWriteAssumption DEF OfferInv, ReplaceElsewhere, FileIsOpen, File, NoTarget,
     FreshIds, FreshStamps, program, Newest, Opening
<1>18. CASE Crash
  <2>1. \A n \in Slots : /\ backup'[n] # NoFile => backup'[n].asked = "no"
                         /\ backup'[n] = NoFile <=> backup[n] = NoFile
    BY <1>18, CrashFiles, SafeWriteAssumption
  <2>2. target'.text = Torn => target.text = Torn \/ pc \in Opening
    BY <1>18, CrashFiles DEF FileInv, Opening
  <2>3. ASSUME ~piled, keeper # 0, target'.text = Torn PROVE Newest(keeper)'
    <3>1. Newest(keeper) /\ keeper \in Slots
      BY <2>2, <2>3 DEF OfferInv, TypeOK, Slots
    <3>2. keeper' = keeper
      BY <1>18 DEF Crash
    <3> QED  BY <2>1, <3>1, <3>2 DEF Newest
  <2> QED  BY <1>18, <2>1, <2>3 DEF OfferInv, Crash, Ended, Opening
<1>19. CASE UNCHANGED vars
  BY <1>19 DEF OfferInv, vars, Newest
<1> QED  BY <1>1, <1>2, <1>3, <1>4, <1>5, <1>6, <1>7, <1>8, <1>9, <1>10, <1>11, <1>12, <1>13,
            <1>14, <1>15, <1>16, <1>17, <1>18, <1>19 DEF Next

LEMMA OfferInvariant == Spec => []OfferInv
<1>1. Init => OfferInv
  BY DEF Init, OfferInv, Opening
<1>2. IInv /\ EndInv /\ OfferInv /\ [Next]_vars => OfferInv'
  BY OfferStep
<1> QED  BY <1>1, <1>2, Invariant, EndInvariant, PTL DEF Spec

LEMMA OfferedStep == IInv /\ OfferInv /\ [Next]_vars => LoadOffers
<1> SUFFICES ASSUME IInv, OfferInv, [Next]_vars PROVE LoadOffers
  OBVIOUS
<1> USE DEF IInv
<1>1. CASE WriteTemporary \/ DropRequest \/ (\E t \in Texts : Prepare(t))
           \/ (\E t \in Texts : Begin(t)) \/ BeginPrepared
  BY <1>1 DEF LoadOffers, WriteTemporary, disk, history, DropRequest, Prepare, CanSaveAsync,
     Begin, Started, BeginPrepared
<1>2. CASE Load
  <2>1. SUFFICES ASSUME base = NoBase, target.text = Torn, Content # Torn, ~piled
                 PROVE  backup'[keeper].asked = "shown"
    BY DEF LoadOffers
  <2>2. keeper \in Slots
    BY <2>1, ContentIs DEF Complete, Kept, TypeOK, Slots
  <2>3. backup[keeper] \in Backup /\ backup[keeper].asked = "no"
    BY <2>1, <2>2 DEF TypeOK, BackupInv, OfferInv, Slots
  <2>4. \A k \in Slots : k > keeper => backup[k] = NoFile
    BY <2>1, <2>2 DEF OfferInv, Newest, Slots
  <2>5. backup'[keeper] = [backup[keeper] EXCEPT !.asked = "shown"]
    BY <1>2, <2>1, <2>2, <2>3, <2>4, SafeWriteAssumption DEF Load, AskAbout
  <2> QED  BY <2>3, <2>5 DEF Backup
<1>3. CASE Check \/ Guard \/ Recheck \/ WriteTemp \/ Identify \/ Rename \/ FallBack
  BY <1>3 DEF LoadOffers, Check, Pass, Allowed, disk, history, Guard, Recheck, WriteTemp,
     Identify, SameTarget, Rename, File, FreshIds, FreshStamps, FallBack
<1>4. CASE Copy \/ Install \/ Open \/ Write \/ Sync \/ WriteFails
  BY <1>4 DEF LoadOffers, Copy, history, Install, Open, Opened, File, FreshIds, FreshStamps,
     Write, Sync, WriteFails
<1>5. CASE GiveUp \/ Restore \/ RestoreFails
  BY <1>5 DEF LoadOffers, GiveUp, Restore, RestoreFails
<1>6. CASE Clean
  BY <1>6 DEF LoadOffers, FileInv, Complete, Clean
<1>7. CASE (\E i \in Slots : AnswerRestore(i)) \/ (\E i \in Slots : AnswerDelete(i))
           \/ (\E i \in Slots : AnswerIgnore(i)) \/ AnswerFails
  BY <1>7 DEF LoadOffers, AnswerRestore, Opened, File, FreshIds, FreshStamps, Newest,
     AnswerDelete, Without, KeeperWithout, program, AnswerIgnore, history, AnswerFails, Ended
<1>8. CASE AnswerRestored
  BY <1>8 DEF LoadOffers, OfferInv, AnswerRestored, AskAbout, Without, KeeperWithout, Ended,
     Newest, Opening
<1>9. CASE WriteElsewhere \/ ReplaceElsewhere \/ Crash
  BY <1>9 DEF LoadOffers, WriteElsewhere, FileIsOpen, File, FreshStamps, program,
     ReplaceElsewhere, NoTarget, FreshIds, Crash, Settled, Ended
<1>10. CASE UNCHANGED vars
  BY <1>10 DEF LoadOffers, vars
<1> QED  BY <1>1, <1>2, <1>3, <1>4, <1>5, <1>6, <1>7, <1>8, <1>9, <1>10 DEF Next

\* The first load that finds a torn file asks about the backup with the file's text, unless a
\* question was left open and the file written again (find_stale_backup takes the newest one).
THEOREM TornIsOfferedFirst == Spec => TornIsOffered
<1>1. IInv /\ OfferInv /\ [Next]_vars => LoadOffers
  BY OfferedStep
<1> QED  BY <1>1, Invariant, OfferInvariant, PTL DEF Spec, TornIsOffered

=============================================================================
