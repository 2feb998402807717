----------------------------- MODULE MachineSave -----------------------------
(***************************************************************************)
(* A Buffer of a file on a Machine: conditional saves over a connection     *)
(* that moves, saves with an unknown result, offline saves, conflicts with  *)
(* other programs, and the recovery record that keeps unsaved text through  *)
(* a crash (src/data/core/buffer/init.lua, core/machine_client.lua,         *)
(* core/serve.lua).                                                         *)
(*                                                                          *)
(* The version of a file is a hash of its bytes, so here it is the bytes:   *)
(* a text and a format (line endings, encoding). The undo history is        *)
(* reduced to what the saves see of it: whether the Buffer stands at its    *)
(* clean change id, and the text there. The autosave plugin wraps           *)
(* Buffer:save, so its refusal to save over a known conflict is part of     *)
(* every save here.                                                         *)
(***************************************************************************)
EXTENDS Naturals, Sequences, FiniteSets

CONSTANTS
  Paths, Texts, Formats,
  Empty,       \* the text of a new file
  Missing,     \* the version of a file that does not exist (nil)
  NoSave, NoConflict, NoRecord, NoPath, NoWrite,   \* nil in their fields
  SaveIds,     \* the random save tokens. One that nothing names any more is fresh again
  LateWrites,  \* whether a request of a dropped connection can still reach the server
  ReadErrors,  \* whether the server can fail to read a file that exists
  MaxMoves     \* bound: steps of the user, of other programs, and failures together

Bytes == Texts \X Formats
Versions == Bytes \cup {Missing}

SaveType ==
  [id : SaveIds, path : Paths, same : BOOLEAN, overwrite : Versions, base : Versions, sent : Bytes,
   edited : BOOLEAN, unknown : BOOLEAN, again : Paths \cup {"none", "plain"}]
RecordType == [text : Texts, format : Formats, base : Versions, sent : Versions]
BufferType ==
  [path : Paths, text : Texts, format : Formats, new_file : BOOLEAN, at_clean : BOOLEAN,
   clean_text : Texts, clean_known : BOOLEAN, version : Versions,
   conflict : Versions \cup {NoConflict}, save : SaveType \cup {NoSave}, offline : Paths \cup {NoPath},
   due : BOOLEAN, closed : BOOLEAN, loaded : BOOLEAN, reload : {"none", "current", "stale"},
   accepted : BOOLEAN, records : [Paths -> RecordType \cup {NoRecord}]]
WriteType == [kind : {"write"}, id : SaveIds, path : Paths, base : Versions, bytes : Bytes]
RequestType ==
  WriteType \cup [kind : {"check", "reload"}, id : {"none"}, path : Paths]
  \cup [kind : {"result", "resolve"}, id : SaveIds, path : Paths]
ReplyType == [request : RequestType, version : Versions,
              code : {"ok", "conflict", "failed", "unknown_save"}]
WritingType == [request : WriteType, lost : BOOLEAN, race : BOOLEAN]
PromiseType == [path : Paths, text : Texts]

ASSUME ValuesAssumption ==
  /\ Empty \in Texts /\ Formats # {}
  /\ Missing \notin Bytes /\ NoConflict \notin Versions
  /\ NoPath \notin Paths /\ {"none", "plain"} \cap Paths = {}
  /\ NoSave \notin SaveType /\ NoWrite \notin WritingType
  /\ NoRecord \notin RecordType \cup PromiseType
ASSUME SwitchesAssumption == LateWrites \in BOOLEAN /\ ReadErrors \in BOOLEAN
ASSUME BoundsAssumption == MaxMoves \in Nat /\ IsFiniteSet(SaveIds)

VARIABLES
  client,      \* the Buffer, and its records on disk
  conn,        \* MachineClient.state: "waiting", "connecting" or "ready"
  requests,    \* sent to the server, or held while the connection opens
  replies,     \* on their way to the Client
  late,        \* writes of dropped connections that the server can still get
  saves,       \* server.saves
  writing,     \* the write between the server's check and its replacement
  files,       \* the files on the Machine
  moves,       \* bound: counts those steps
  promised,    \* history: the unsaved text that a crash must not lose
  seen         \* history: the versions that this Client read, wrote or was told to replace

vars == <<client, conn, requests, replies, late, saves, writing, files, moves, promised, seen>>

-----------------------------------------------------------------------------
\* The Buffer b, without communication.

Contents(b) == <<b.text, b.format>>
Dirty(b) == b.new_file \/ ~b.at_clean
Saving(b) == b.save # NoSave

\* The text changes: an open save and an open reload no longer have the Buffer's
\* revision, and a record is due.
Changed(b, t, clean) ==
  [b EXCEPT !.text = t, !.at_clean = clean, !.due = TRUE,
            !.save = IF @ = NoSave THEN NoSave ELSE [@ EXCEPT !.edited = TRUE],
            !.reload = IF @ = "none" THEN "none" ELSE "stale"]

\* apply_lines: the same lines are no edit.
ApplyLines(b, t) == IF t = b.text THEN b ELSE Changed(b, t, FALSE)

\* clean(), and clean_change_id = -1.
Clean(b) == [b EXCEPT !.at_clean = TRUE, !.clean_text = b.text, !.clean_known = TRUE]
NeverClean(b) == [b EXCEPT !.at_clean = FALSE, !.clean_known = FALSE]

\* Mutant: the record of a Buffer that has closed is written.
RecordWhenClosed(b) ==
  [b EXCEPT !.records[b.path] =
     IF Dirty(b) \/ Saving(b)
     THEN [text |-> b.text, format |-> b.format, base |-> b.version,
           sent |-> IF Saving(b) /\ b.save.same THEN b.save.sent ELSE Missing]
     ELSE NoRecord]

\* write_machine_record.
WriteRecord(b) ==
  IF b.closed THEN b
  ELSE [b EXCEPT !.records[b.path] =
          IF Dirty(b) \/ Saving(b)
          THEN [text |-> b.text, format |-> b.format, base |-> b.version,
                sent |-> IF Saving(b) /\ b.save.same THEN b.save.sent ELSE Missing]
          ELSE NoRecord]

\* set_filename with move_machine_record.
SetFilename(b, p) ==
  IF p = b.path THEN b
  ELSE WriteRecord([b EXCEPT !.records[b.path] = NoRecord, !.path = p,
                             !.reload = IF @ = "none" THEN "none" ELSE "stale"])

InFlight == {r.id : r \in {requests[i] : i \in DOMAIN requests}}
            \cup {r.id : r \in {replies[i].request : i \in DOMAIN replies}}
            \cup {r.id : r \in late}
            \cup (IF writing = NoWrite THEN {} ELSE {writing.request.id})
            \cup (IF client.save = NoSave THEN {} ELSE {client.save.id})
FreshIds == SaveIds \ InFlight
NewId == CHOOSE id \in FreshIds : TRUE

\* save_on_machine of a Buffer without an open save. The connection is down when
\* online is FALSE: fs.write then answers "offline" before it returns.
StartSave(b, p, overwrite, online) ==
  LET same == p = b.path
      base == IF overwrite # Missing THEN overwrite
              ELSE IF same /\ ~b.new_file THEN b.version ELSE Missing
      request == [id |-> NewId, path |-> p, same |-> same, overwrite |-> overwrite,
                  base |-> base, sent |-> Contents(b), edited |-> FALSE,
                  unknown |-> FALSE, again |-> "none"]
      started == WriteRecord([b EXCEPT !.save = request, !.offline = NoPath])
  IN IF b.closed THEN b
     ELSE IF online THEN started
     ELSE [started EXCEPT !.save = NoSave, !.due = TRUE, !.offline = p]

\* Buffer:save with the autosave plugin: a known conflict refuses a save of the
\* Buffer's own file. During another save this one waits; plain has no file.
RequestSave(b, p, plain, online) ==
  IF b.closed \/ (p = b.path /\ b.conflict # NoConflict) THEN b
  ELSE IF Saving(b)
       THEN [b EXCEPT !.save.again = IF ~plain THEN p ELSE IF @ = "none" THEN "plain" ELSE @]
       ELSE StartSave(b, p, Missing, online)

\* save_again.
SaveAgain(b, request, failed, online) ==
  IF b.closed \/ request.again = "none" THEN b
  ELSE IF request.again \in Paths \ {b.path} THEN RequestSave(b, request.again, FALSE, online)
  ELSE IF failed THEN b
  ELSE RequestSave(b, b.path, TRUE, online)

\* Mutant: the save that waits is forgotten with the save it waited for.
ForgetAgain(b, request) == b

\* The save that replaces an open one keeps the save that waits.
KeepAgain(b, request) ==
  IF Saving(b) THEN [b EXCEPT !.save.again = request.again] ELSE b

Ended(b) == [b EXCEPT !.save = NoSave, !.due = TRUE]

\* finish_machine_save with a conflict. The user chose a Save As file, so its save
\* replaces the version there, once.
FinishConflict(b, request, version, online) ==
  IF ~request.same /\ version # Missing /\ request.overwrite = Missing /\ ~b.closed
  THEN KeepAgain(StartSave(Ended(b), request.path, version, online), request)
  ELSE SaveAgain([Ended(b) EXCEPT !.conflict = IF request.same THEN version ELSE @],
                 request, TRUE, online)

FinishOffline(b, request) ==
  SaveAgain([Ended(b) EXCEPT !.offline = request.path], request, TRUE, FALSE)

\* Mutant: the text there now counts as saved.
CleanWhateverText(b, request) == Clean(b)

\* Only the sent text is saved.
CleanIfSent(b, request) ==
  IF ~request.edited \/ Contents(b) = request.sent THEN Clean(b) ELSE NeverClean(b)

FinishSaved(b, request, version, online) ==
  LET named == IF request.same THEN Ended(b)
               ELSE [SetFilename(Ended(b), request.path) EXCEPT !.conflict = NoConflict]
      saved == CleanIfSent([named EXCEPT !.version = version, !.new_file = FALSE,
                                         !.accepted = FALSE], request)
  IN SaveAgain(saved, request, FALSE, online)

\* apply_machine_file.
ApplyFile(b, bytes) ==
  Clean([ApplyLines(b, bytes[1]) EXCEPT
           !.format = bytes[2], !.version = bytes, !.conflict = NoConflict,
           !.new_file = FALSE, !.accepted = FALSE])

\* check_machine_file after its read.
CheckFile(b, version) ==
  IF Saving(b) THEN b
  ELSE IF version = b.version
       THEN IF b.offline # NoPath /\ Dirty(b)
            THEN RequestSave([b EXCEPT !.offline = NoPath], b.path, TRUE, TRUE)
            ELSE b
  ELSE IF version # Missing /\ ~Dirty(b) THEN ApplyFile(b, version)
  ELSE [b EXCEPT !.conflict = version]

\* resolve_machine_save after its read of the file.
ResolveByVersion(b, current) ==
  LET request == b.save
      unsent == [b EXCEPT !.save = NoSave, !.due = TRUE]
      restarted == IF ~request.same
                   THEN StartSave(unsent, request.path, request.overwrite, TRUE)
                   ELSE IF Dirty(b) THEN RequestSave(unsent, b.path, TRUE, TRUE)
                   ELSE unsent
  IN IF current = request.sent THEN FinishSaved(b, request, current, TRUE)
     ELSE IF current # request.base THEN FinishConflict(b, request, current, TRUE)
     ELSE IF Saving(restarted) THEN KeepAgain(restarted, request)
     ELSE SaveAgain(restarted, request, TRUE, TRUE)

\* Mutant: the record's text is restored over whatever the Machine has.
RestoreAsUnsaved(b, record, current) ==
  ApplyLines([b EXCEPT !.format = record.format], record.text)

\* Mutant: after a conflict, the Machine's text stays and only the base is restored.
RestoreBaseOnly(b, record, current) ==
  LET restored == ApplyLines([b EXCEPT !.format = record.format], record.text)
  IN IF Contents(restored) = current THEN Clean(restored)
     ELSE IF current = record.base \/ (current # Missing /\ current = record.sent)
          THEN [restored EXCEPT !.new_file = current = Missing]
     ELSE [b EXCEPT !.version = record.base, !.new_file = record.base = Missing, !.conflict = current]

\* restore_machine_record, where b has just loaded the file's version current.
RestoreRecord(b, record, current) ==
  LET restored == ApplyLines([b EXCEPT !.format = record.format], record.text)
  IN IF Contents(restored) = current THEN Clean(restored)
     ELSE IF current = record.base \/ (current # Missing /\ current = record.sent)
          THEN [restored EXCEPT !.new_file = current = Missing]
     ELSE [restored EXCEPT !.version = record.base, !.new_file = record.base = Missing,
                           !.conflict = current]

\* load_async of a Machine file that has the version current, and the restore after it.
Opened(p, current, records) ==
  LET loaded == [path |-> p, text |-> IF current = Missing THEN Empty ELSE current[1],
                 format |-> IF current = Missing THEN CHOOSE f \in Formats : TRUE ELSE current[2],
                 new_file |-> current = Missing, at_clean |-> TRUE,
                 clean_text |-> IF current = Missing THEN Empty ELSE current[1],
                 clean_known |-> TRUE, version |-> current, conflict |-> NoConflict,
                 save |-> NoSave, offline |-> NoPath, due |-> FALSE, closed |-> FALSE,
                 loaded |-> TRUE, reload |-> "none", accepted |-> FALSE, records |-> records]
  IN IF records[p] = NoRecord THEN loaded
     ELSE WriteRecord(RestoreRecord(loaded, records[p], current))

-----------------------------------------------------------------------------
\* The version that the Buffer shows its user, byte for byte.
Shown(b) == IF b.loaded /\ Contents(b) = b.version THEN {b.version} ELSE {}

\* A step of the Client's program: the Buffer becomes b, the save it starts and the
\* requests more go out. A new save's token has no result yet. known is what the user
\* chose to replace. The choice of a Save As file counts for one version there.
ClientStep(b, more, known) ==
  LET starts == Saving(b) /\ (Saving(client) => b.save.id # client.save.id)
  IN /\ client' = b
     /\ requests' = requests \o (IF starts THEN <<[kind |-> "write", id |-> b.save.id,
                       path |-> b.save.path, base |-> b.save.base, bytes |-> b.save.sent]>>
                     ELSE <<>>) \o more
     /\ saves' = IF starts THEN [saves EXCEPT ![b.save.id] = Missing] ELSE saves
     /\ seen' = seen \cup known \cup Shown(b) \cup 
                (IF ~starts THEN {}
                 ELSE IF Saving(client) /\ client.save.overwrite # Missing THEN {b.save.sent}
                 ELSE {b.save.sent, b.save.overwrite})

Move == moves < MaxMoves /\ moves' = moves + 1

Alive == client.loaded /\ ~client.closed
Online == conn # "waiting"
Read(kind, id, p) == [kind |-> kind, id |-> id, path |-> p]

Machine == <<late, writing, files>>

Init ==
  /\ files \in [Paths -> Versions]
  /\ \E p \in Paths :
       /\ client = Opened(p, files[p], [q \in Paths |-> NoRecord])
       /\ seen = {files[p], Missing}
  /\ conn = "ready" /\ requests = <<>> /\ replies = <<>>
  /\ late = {} /\ saves = [id \in SaveIds |-> Missing] /\ writing = NoWrite
  /\ moves = 0 /\ promised = NoRecord

-----------------------------------------------------------------------------
\* The user and the record's thread.

\* An edit, or an undo or redo to text away from the clean change id.
Edit(t) ==
  /\ Alive
  /\ ClientStep(Changed(client, t, FALSE), <<>>, {})
  /\ Move /\ UNCHANGED <<conn, replies, Machine, promised>>

\* An undo or a redo to the clean change id.
UndoToClean ==
  /\ Alive /\ client.clean_known /\ ~client.at_clean
  /\ ClientStep(Changed(client, client.clean_text, TRUE), <<>>, {})
  /\ Move /\ UNCHANGED <<conn, replies, Machine, promised>>

\* Other line endings or another encoding: no change of the text, no record.
SetFormat(f) ==
  /\ Alive /\ f # client.format
  /\ ClientStep([client EXCEPT !.format = f], <<>>, {})
  /\ Move /\ UNCHANGED <<conn, replies, Machine, promised>>

\* Buffer:save: p is the Buffer's file, or the file of a Save As.
Save(p) ==
  /\ Alive /\ FreshIds # {}
  /\ ClientStep(RequestSave(client, p, p = client.path, Online), <<>>, {})
  /\ Move /\ UNCHANGED <<conn, replies, Machine, promised>>

\* The conflict prompt: "Overwrite Disk", or "Save as New File" of a missing file.
AcceptAndSave ==
  /\ Alive /\ client.conflict # NoConflict /\ FreshIds # {}
  /\ ClientStep(RequestSave([client EXCEPT !.version = client.conflict,
                               !.conflict = NoConflict, !.accepted = TRUE],
                            client.path, TRUE, Online), <<>>, {client.conflict})
  /\ Move /\ UNCHANGED <<conn, replies, Machine, promised>>

\* Buffer:reload, also from the conflict prompt. Offline it fails at once.
Reload ==
  /\ Alive /\ Online /\ client.reload = "none"
  /\ ClientStep([client EXCEPT !.reload = "current"], <<Read("reload", "none", client.path)>>, {})
  /\ Move /\ UNCHANGED <<conn, replies, Machine, promised>>

\* The last View closes and the user discards the text: on_close.
Close ==
  /\ Alive
  /\ ClientStep([client EXCEPT !.closed = TRUE, !.due = FALSE,
                               !.records[client.path] = NoRecord], <<>>, {})
  /\ Move /\ UNCHANGED <<conn, replies, Machine, promised>>

\* The thread of machine_record_due.
RecordDue ==
  /\ client.loaded /\ client.due
  /\ ClientStep([WriteRecord(client) EXCEPT !.due = FALSE], <<>>, {})
  /\ UNCHANGED <<conn, replies, Machine, moves, promised>>

-----------------------------------------------------------------------------
\* The Client gets the reply of a request of the given kind: the Buffer becomes b.
Reply == Head(replies)
Gets(kind) == replies # <<>> /\ Reply.request.kind = kind
Answered(b, more) ==
  /\ FreshIds # {}
  /\ replies' = Tail(replies)
  /\ ClientStep(b, more, {})
  /\ UNCHANGED <<conn, Machine, moves, promised>>

\* The callback of fs.write.
WriteReply ==
  /\ Gets("write")
  /\ Answered(
    LET request == client.save
    IN IF ~Saving(client) \/ request.id # Reply.request.id THEN client
       ELSE CASE Reply.code = "ok" -> FinishSaved(client, request, Reply.version, TRUE)
              [] Reply.code = "conflict" -> FinishConflict(client, request, Reply.version, TRUE)
              [] OTHER -> SaveAgain(Ended(client), request, TRUE, TRUE),
    <<>>)

\* The callback of fs.save_result: a known save is finished, and then the file is checked.
\* A server that does not know the save answers a read of its file instead.
ResultReply ==
  /\ Gets("result")
  /\ LET request == client.save
         finished == FinishSaved(client, request, Reply.version, TRUE)
     IN IF ~Saving(client) \/ request.id # Reply.request.id THEN Answered(client, <<>>)
        ELSE IF Reply.code = "unknown_save"
        THEN Answered(client, <<Read("resolve", request.id, request.path)>>)
        ELSE Answered(finished, IF Saving(finished) THEN <<>> ELSE <<Read("check", "none", finished.path)>>)

\* After an error other than a missing file the save stays open.
ResolveReply ==
  /\ Gets("resolve")
  /\ Answered(
    IF ~Saving(client) \/ client.save.id # Reply.request.id \/ Reply.code = "failed" THEN client
    ELSE ResolveByVersion(client, Reply.version),
    <<>>)

CheckReply ==
  /\ Gets("check")
  /\ Answered(IF Reply.code = "failed" THEN client ELSE CheckFile(client, Reply.version), <<>>)

\* Text that the user typed during the read wins.
ReloadReply ==
  /\ Gets("reload")
  /\ Answered(
    [IF client.reload = "current" /\ Reply.code = "ok" /\ Reply.version # Missing
     THEN ApplyFile(client, Reply.version) ELSE client EXCEPT !.reload = "none"],
    <<>>)

-----------------------------------------------------------------------------
\* The server, a single thread: the connection's next request, or a write that a dropped
\* connection had sent. Another program can change the file between the check of a write
\* and its replacement.

Answer(r, code, version) ==
  replies' = Append(replies, [request |-> r, code |-> code, version |-> version])

BeginWrite(r, lost) ==
  IF files[r.path] = r.base
  THEN /\ writing' = [request |-> r, lost |-> lost, race |-> FALSE]
       /\ UNCHANGED replies
  ELSE /\ UNCHANGED writing
       /\ IF lost THEN UNCHANGED replies ELSE Answer(r, "conflict", files[r.path])

ServeWrite ==
  /\ conn = "ready" /\ requests # <<>> /\ Head(requests).kind = "write" /\ writing = NoWrite
  /\ requests' = Tail(requests)
  /\ BeginWrite(Head(requests), FALSE)
  /\ UNCHANGED <<client, conn, late, saves, files, moves, promised, seen>>

ServeLateWrite ==
  /\ writing = NoWrite
  /\ \E r \in late : late' = late \ {r} /\ BeginWrite(r, TRUE)
  /\ UNCHANGED <<client, conn, requests, saves, files, moves, promised, seen>>

FinishWrite ==
  /\ writing # NoWrite
  /\ LET r == writing.request
     IN \/ /\ files' = [files EXCEPT ![r.path] = r.bytes]
           /\ saves' = [saves EXCEPT ![r.id] = r.bytes]
           /\ IF writing.lost THEN UNCHANGED replies ELSE Answer(r, "ok", r.bytes)
        \/ /\ UNCHANGED <<files, saves>>
           /\ IF writing.lost THEN UNCHANGED replies ELSE Answer(r, "failed", Missing)
  /\ writing' = NoWrite
  /\ UNCHANGED <<client, conn, requests, late, moves, promised, seen>>

ServeRead ==
  /\ conn = "ready" /\ requests # <<>> /\ Head(requests).kind # "write" /\ writing = NoWrite
  /\ LET r == Head(requests)
     IN IF r.kind = "result"
        THEN Answer(r, IF saves[r.id] = Missing THEN "unknown_save" ELSE "ok", saves[r.id])
        ELSE \/ Answer(r, "ok", files[r.path])
             \/ ReadErrors /\ files[r.path] # Missing /\ Answer(r, "failed", Missing)
  /\ requests' = Tail(requests)
  /\ UNCHANGED <<client, conn, Machine, saves, moves, promised, seen>>

\* More than MAX_SAVES later saves of other Clients.
ForgetSave(id) ==
  /\ saves[id] # Missing
  /\ saves' = [saves EXCEPT ![id] = Missing]
  /\ Move
  /\ UNCHANGED <<client, conn, requests, replies, Machine, promised, seen>>

\* Another program writes, makes or removes the file.
ExternalWrite(p, v) ==
  /\ v # files[p]
  /\ files' = [files EXCEPT ![p] = v]
  /\ writing' = IF writing # NoWrite /\ writing.request.path = p
                THEN [writing EXCEPT !.race = TRUE] ELSE writing
  /\ Move
  /\ UNCHANGED <<client, conn, requests, replies, late, saves, promised, seen>>

-----------------------------------------------------------------------------
\* The connection.

\* Mutant: the save of a lost connection is not marked as unknown.
NotUnknown(b) == [b EXCEPT !.reload = "none"]

\* What a lost connection means for the Buffer: an open save has an unknown result, and
\* an open reload failed.
Disconnected(b) ==
  [b EXCEPT !.save = IF @ = NoSave THEN NoSave ELSE [@ EXCEPT !.unknown = TRUE], !.reload = "none"]

\* Mutant: every request can arrive late, as a write.
AllArriveLate == SUBSET {requests[i] : i \in DOMAIN requests}

\* Of the requests that the server has not handled, it can still get these writes.
CanArriveLate == IF LateWrites
                 THEN SUBSET {r \in {requests[i] : i \in DOMAIN requests} : r.kind = "write"}
                 ELSE {{}}

\* The connection is gone. The server ends the write that it is in, without a reply.
Lose ==
  /\ conn = "ready" /\ Move
  /\ requests' = <<>> /\ replies' = <<>>

Drop ==
  /\ Lose /\ conn' = "waiting"
  /\ client' = Disconnected(client)
  /\ \E sent \in CanArriveLate : late' = late \cup sent
  /\ writing' = IF writing = NoWrite THEN NoWrite ELSE [writing EXCEPT !.lost = TRUE]
  /\ UNCHANGED <<saves, files, promised, seen>>

\* A server that restarts knows no saves, and loses the write that it was in.
Restart ==
  /\ Lose /\ conn' = "waiting"
  /\ client' = Disconnected(client)
  /\ late' = {} /\ writing' = NoWrite /\ saves' = [id \in SaveIds |-> Missing]
  /\ UNCHANGED <<files, promised, seen>>

Connect ==
  /\ client.loaded /\ conn = "waiting" /\ conn' = "connecting"
  /\ UNCHANGED <<client, requests, replies, Machine, saves, moves, promised, seen>>

\* The connection attempt ends: the held requests did not leave this PC.
ConnectFails ==
  /\ conn = "connecting" /\ Move
  /\ conn' = "waiting" /\ requests' = <<>>
  /\ client' = [IF Saving(client) /\ ~client.save.unknown
                THEN FinishOffline(client, client.save) ELSE client EXCEPT !.reload = "none"]
  /\ UNCHANGED <<replies, Machine, saves, promised, seen>>

\* The hello reply: the held requests leave, and then the reconnect listener runs.
Ready ==
  /\ conn = "connecting" /\ conn' = "ready" /\ FreshIds # {}
  /\ IF client.closed THEN ClientStep(client, <<>>, {})
     ELSE IF client.offline \notin {NoPath, client.path} /\ ~Saving(client)
     THEN ClientStep(RequestSave([client EXCEPT !.offline = NoPath], client.offline, FALSE, TRUE), <<>>, {})
     ELSE IF ~Saving(client) THEN ClientStep(client, <<Read("check", "none", client.path)>>, {})
     ELSE IF client.save.unknown
     THEN ClientStep(client, <<Read("result", client.save.id, client.save.path)>>, {})
     ELSE ClientStep(client, <<>>, {})
  /\ UNCHANGED <<replies, Machine, moves, promised>>

\* The Client's process ends. Only the records stay. What the Buffer's record has to keep
\* is text that was not on the Machine, or text with a save that nobody has confirmed.
Crash ==
  /\ client.loaded /\ Move
  /\ conn' = "waiting" /\ requests' = <<>> /\ replies' = <<>>
  /\ client' = [client EXCEPT !.loaded = FALSE]
  /\ promised' = IF client.closed \/ client.due \/ (client.at_clean /\ ~Saving(client)) THEN NoRecord
                 ELSE [path |-> client.path, text |-> client.text]
  /\ \E sent \in CanArriveLate : late' = late \cup sent
  /\ writing' = IF writing = NoWrite THEN NoWrite ELSE [writing EXCEPT !.lost = TRUE]
  /\ UNCHANGED <<saves, files, seen>>

\* The Client starts again and opens a file.
Open(p) ==
  /\ ~client.loaded /\ writing = NoWrite
  /\ client' = Opened(p, files[p], client.records)
  /\ conn' = "ready"
  /\ seen' = seen \cup Shown(client')
  /\ promised' = NoRecord
  /\ UNCHANGED <<requests, replies, Machine, saves, moves>>

-----------------------------------------------------------------------------
User == \/ \E t \in Texts : Edit(t)
        \/ UndoToClean
        \/ \E f \in Formats : SetFormat(f)
        \/ \E p \in Paths : Save(p)
        \/ AcceptAndSave \/ Reload \/ Close
Replies == WriteReply \/ ResultReply \/ ResolveReply \/ CheckReply \/ ReloadReply
Serve == ServeWrite \/ ServeLateWrite \/ FinishWrite \/ ServeRead
Environment == \/ \E id \in SaveIds : ForgetSave(id)
               \/ \E p \in Paths, v \in Versions : ExternalWrite(p, v)
               \/ Drop \/ Restart \/ ConnectFails \/ Crash
               \/ \E p \in Paths : Open(p)

Next == User \/ RecordDue \/ Replies \/ Serve \/ Connect \/ Ready \/ Environment

Spec == Init /\ [][Next]_vars

\* The Client's and the server's threads run again and again, and the Client connects again.
FairSpec == Spec /\ WF_vars(Replies) /\ WF_vars(Serve) /\ WF_vars(Connect) /\ WF_vars(Ready)

-----------------------------------------------------------------------------
TypeOK ==
  /\ client \in BufferType
  /\ conn \in {"waiting", "connecting", "ready"}
  /\ requests \in Seq(RequestType)
  /\ replies \in Seq(ReplyType)
  /\ late \subseteq WriteType
  /\ saves \in [SaveIds -> Bytes \cup {Missing}]
  /\ writing \in WritingType \cup {NoWrite}
  /\ files \in [Paths -> Versions]
  /\ moves \in 0..MaxMoves
  /\ promised \in PromiseType \cup {NoRecord}
  /\ seen \subseteq Versions

\* The server replaces a version of the file only when this Client's user has seen it, has
\* written it or chose to replace it, whatever was lost, late or restarted. The only
\* exception is a change in the server's own window between its check and its replacement.
NothingUnseenOverwritten ==
  [][writing # NoWrite /\ writing' = NoWrite /\ ~writing.race =>
       \A p \in Paths : files'[p] = files[p] \/ files[p] \in seen]_vars

\* A Buffer that looks saved has the text of the version that it believes the Machine to
\* have, except after the user accepted another version whose replacement then failed.
CleanIsOnMachine ==
  client.loaded /\ ~client.closed /\ ~Dirty(client) /\ client.conflict = NoConflict /\ ~client.accepted
    => client.version # Missing /\ client.text = client.version[1]

\* A closed Buffer leaves no record: its own goes with the close, and no record appears
\* or changes later, also when its save ends after the close under another name.
ClosedLeavesNoRecord ==
  [][client.loaded /\ client'.loaded /\ client'.closed
       => /\ \A p \in Paths : client'.records[p] \in {client.records[p], NoRecord}
          /\ ~client.closed => client'.records[client.path] = NoRecord]_vars

\* After a crash, the file opens with the text that its record had to keep, whatever the
\* Machine did with the open save.
CrashKeepsWork ==
  [][~client.loaded /\ client'.loaded /\ promised # NoRecord /\ client'.path = promised.path
       => client'.text = promised.text]_vars

\* A Save As to another file that waits for an open save is not lost, however that save
\* ends: its save starts, waits on, or is kept for the reconnect.
WaitingSaveAsGoesOut ==
  [][LET q == client.save.again
     IN Alive /\ Alive' /\ Saving(client) /\ q \in Paths \ {client'.path} /\ (Saving(client') => client'.save.id # client.save.id)
        => \/ Saving(client') /\ q \in {client'.save.path, client'.save.again}
           \/ client'.offline = q]_vars

\* The open saves of an open Buffer come to an end: none stays open, and no chain of
\* repeated, replacing and waiting saves goes on for ever.
SaveResolves == []<>(client.save = NoSave \/ client.closed \/ ~client.loaded)

=============================================================================
