--------------------------- MODULE MachineSaveProofs ---------------------------
(***************************************************************************)
(* Proofs about MachineSave, for any sets of files, texts and formats.      *)
(*                                                                          *)
(* Most of the state that counts is one record, the Buffer, which the       *)
(* program changes by chains of functions. So the proof goes along those    *)
(* functions: Good(o, b, V) says what a Buffer b has to be, in any moment   *)
(* of a step that began with o, where V is what the Client has seen after   *)
(* the step. A lemma per function shows that it keeps Good, ClientStepKeeps *)
(* carries a good Buffer into the invariant of the whole state, and the     *)
(* lemma of an action puts the two together.                                *)
(***************************************************************************)
EXTENDS MachineSave, TLAPS

\* A Buffer with a clean change id knows the text there: the text of its version, unless
\* the Buffer is new, has a conflict, or has a version that its user accepted. The text of
\* a save is the Buffer's until an edit.
CleanGood(b) ==
  /\ b.at_clean => b.clean_known /\ b.clean_text = b.text
  /\ b.clean_known /\ ~b.new_file /\ b.conflict = NoConflict /\ ~b.accepted
       => b.version # Missing /\ b.clean_text = b.version[1]
  /\ Saving(b) /\ ~b.save.edited => b.text = b.save.sent[1]

\* Work that is not on the Machine for sure is in the Buffer's record, or a record is due.
RecordGood(b) ==
  ~b.closed /\ ~b.due /\ (~b.at_clean \/ Saving(b))
    => b.records[b.path] # NoRecord /\ b.records[b.path].text = b.text

\* The versions that the Buffer and its records name are in V. The bytes of a save that
\* did not leave this PC are still the bytes of its record.
NamesGood(b, V) ==
  /\ b.version \in V
  /\ \A p \in Paths : b.records[p] # NoRecord =>
       /\ b.records[p].base \in V
       /\ b.records[p].sent \in V \cup {<<b.records[p].text, b.records[p].format>>}

BufferGood(b, V) == b \in BufferType /\ CleanGood(b) /\ RecordGood(b) /\ NamesGood(b, V)

\* The bytes, the base and the replaced version of a save are in V.
SaveGood(b, V) ==
  Saving(b) => b.save.sent \in V /\ b.save.base \in V /\ b.save.overwrite \in V

\* A write has a base that this Client has seen, and the bytes of the open save when it
\* has its token.
WriteGood(r) ==
  r.kind = "write" =>
    /\ r.base \in seen
    /\ Saving(client) /\ r.id = client.save.id => r.bytes = client.save.sent

WritesGood ==
  /\ \A i \in DOMAIN requests : WriteGood(requests[i])
  /\ \A i \in DOMAIN replies : WriteGood(replies[i].request)
  /\ \A r \in late : WriteGood(r)
  /\ writing # NoWrite => WriteGood(writing.request)

\* A reply that says that the open save was made has its bytes, and so does the server's
\* memory of it.
ReplyGood(r) ==
  /\ r.request.kind = "write" /\ r.code = "ok" => r.version = r.request.bytes
  /\ r.request.kind = "result" =>
       /\ r.code \in {"ok", "unknown_save"}
       /\ r.code = "ok" /\ Saving(client) /\ r.request.id = client.save.id
            => r.version = client.save.sent

ResultsGood ==
  /\ \A i \in DOMAIN replies : ReplyGood(replies[i])
  /\ Saving(client) => saves[client.save.id] \in {Missing, client.save.sent}

\* Only a Client that runs has a connection, and only a ready one brings replies.
ConnGood ==
  /\ ~client.loaded => conn = "waiting"
  /\ conn # "ready" => replies = <<>> /\ (writing # NoWrite => writing.lost)

\* Between its check and its replacement a file has the base, unless another program wrote.
WindowGood == writing # NoWrite /\ ~writing.race
                                     => files[writing.request.path] = writing.request.base

\* After a crash the promised text is in the record.
PromiseGood ==
  ~client.loaded /\ promised # NoRecord =>
    /\ client.records[promised.path] # NoRecord
    /\ client.records[promised.path].text = promised.text

IInv ==
  /\ TypeOK
  /\ BufferGood(client, seen) /\ SaveGood(client, seen) /\ Missing \in seen
  /\ WritesGood /\ ResultsGood /\ ConnGood /\ WindowGood /\ PromiseGood

-----------------------------------------------------------------------------
\* The open save of b is the one that the Buffer had when it was o, or a new one.
SameSave(o, b) ==
  /\ Saving(o) /\ b.save.id = o.save.id /\ b.save.sent = o.save.sent
  /\ b.save.base = o.save.base /\ b.save.overwrite = o.save.overwrite
NewSave(o, b, V) ==
  /\ b.save.id \in FreshIds /\ b.save.base \in V \cup {b.save.overwrite}
  /\ b.save.overwrite \in V \/ (Saving(o) => o.save.overwrite = Missing)

\* How the Buffer b comes from o, the Buffer before the step.
Follows(o, b, V) ==
  /\ b.loaded = o.loaded /\ b.closed = o.closed
  /\ o.closed => \A p \in Paths : b.records[p] \in {o.records[p], NoRecord}
  /\ Saving(b) => SameSave(o, b) \/ NewSave(o, b, V)

Good(o, b, V) == BufferGood(b, V) /\ Follows(o, b, V)

\* What ClosedLeavesNoRecord says of a step.
RecordsStay ==
  client.loaded /\ client'.loaded /\ client'.closed
    => /\ \A p \in Paths : client'.records[p] \in {client.records[p], NoRecord}
       /\ ~client.closed => client'.records[client.path] = NoRecord

-----------------------------------------------------------------------------
\* The functions that change the Buffer.

LEMMA ChangedGood ==
  ASSUME NEW V, NEW o, NEW b, NEW t \in Texts, NEW clean \in BOOLEAN, Good(o, b, V),
         clean => b.clean_known /\ t = b.clean_text
  PROVE  Good(o, Changed(b, t, clean), V)
<1> PICK c : c = Changed(b, t, clean) OBVIOUS
<1> DEFINE save == IF b.save = NoSave THEN NoSave ELSE [b.save EXCEPT !.edited = TRUE]
           reload == IF b.reload = "none" THEN "none" ELSE "stale"
<1> b \in BufferType
  BY DEF Good, BufferGood
<1>1. save \in SaveType \cup {NoSave}
  BY DEF BufferType, SaveType
<1>2. reload \in {"none", "current", "stale"}
  OBVIOUS
<1>3. c = [b EXCEPT !.text = t, !.at_clean = clean, !.due = TRUE, !.save = save, !.reload = reload]
  BY DEF Changed
<1>4. c \in BufferType
  <2> HIDE DEF save, reload
  <2> QED BY <1>1, <1>2, <1>3 DEF BufferType
<1>5. CleanGood(c) /\ RecordGood(c) /\ NamesGood(c, V)
  BY ValuesAssumption DEF Good, BufferGood, Changed, BufferType, SaveType, CleanGood, RecordGood,
     NamesGood, Saving
<1>6. Follows(o, c, V)
  BY ValuesAssumption DEF Good, BufferGood, Changed, BufferType, SaveType, Follows, SameSave,
     NewSave, Saving
<1> QED BY <1>4, <1>5, <1>6 DEF Good, BufferGood

LEMMA ApplyLinesGood ==
  ASSUME NEW V, NEW o, NEW b, NEW t \in Texts, Good(o, b, V)
  PROVE  Good(o, ApplyLines(b, t), V)
  BY ChangedGood DEF ApplyLines

LEMMA CleanKeeps ==
  ASSUME NEW V, NEW o, NEW b, Good(o, b, V),
         ~b.new_file /\ b.conflict = NoConflict /\ ~b.accepted
           => b.version # Missing /\ b.text = b.version[1]
  PROVE  Good(o, Clean(b), V)
<1> PICK c : c = Clean(b) OBVIOUS
<1>1. c \in BufferType
  BY DEF Good, BufferGood, Clean, BufferType
<1>2. CleanGood(c) /\ RecordGood(c) /\ NamesGood(c, V)
  BY DEF Good, BufferGood, Clean, BufferType, CleanGood, RecordGood, NamesGood, Saving
<1>3. Follows(o, c, V)
  BY DEF Good, BufferGood, Clean, BufferType, Follows, SameSave, NewSave, Saving
<1> QED BY <1>1, <1>2, <1>3 DEF Good, BufferGood

LEMMA NeverCleanGood ==
  ASSUME NEW V, NEW o, NEW b, Good(o, b, V), b.due
  PROVE  Good(o, NeverClean(b), V)
<1> PICK c : c = NeverClean(b) OBVIOUS
<1>1. c \in BufferType
  BY DEF Good, BufferGood, NeverClean, BufferType
<1>2. CleanGood(c) /\ RecordGood(c) /\ NamesGood(c, V)
  BY DEF Good, BufferGood, NeverClean, BufferType, CleanGood, RecordGood, NamesGood, Saving
<1>3. Follows(o, c, V)
  BY DEF Good, BufferGood, NeverClean, BufferType, Follows, SameSave, NewSave, Saving
<1> QED BY <1>1, <1>2, <1>3 DEF Good, BufferGood

LEMMA EndedGood ==
  ASSUME NEW V, NEW o, NEW b, Good(o, b, V)
  PROVE  Good(o, Ended(b), V)
<1> PICK c : c = Ended(b) OBVIOUS
<1>1. c \in BufferType
  BY DEF Good, BufferGood, Ended, BufferType
<1>2. CleanGood(c) /\ RecordGood(c) /\ NamesGood(c, V)
  BY DEF Good, BufferGood, Ended, BufferType, CleanGood, RecordGood, NamesGood, Saving
<1>3. Follows(o, c, V)
  BY DEF Good, BufferGood, Ended, BufferType, Follows, SameSave, NewSave, Saving
<1> QED BY <1>1, <1>2, <1>3 DEF Good, BufferGood

\* The record of a good Buffer has its text, and the bytes of its save.
LEMMA WriteRecordGood ==
  ASSUME NEW V, NEW o, NEW b, b \in BufferType, CleanGood(b), NamesGood(b, V), Follows(o, b, V),
         Saving(b) => b.save.sent \in V \cup {Contents(b)}, Missing \in V
  PROVE  Good(o, WriteRecord(b), V)
<1> PICK c : c = WriteRecord(b) OBVIOUS
<1> CASE b.closed
  BY DEF WriteRecord, Good, BufferGood, RecordGood
<1> CASE ~b.closed
  <2> DEFINE r == IF Dirty(b) \/ Saving(b)
                  THEN [text |-> b.text, format |-> b.format, base |-> b.version,
                        sent |-> IF Saving(b) /\ b.save.same THEN b.save.sent ELSE Missing]
                  ELSE NoRecord
  <2>1. c = [b EXCEPT !.records[b.path] = r]
    BY DEF WriteRecord
  <2>2. r \in RecordType \cup {NoRecord}
    BY DEF Good, BufferGood, BufferType, RecordType, Saving, SaveType, Versions
  <2>3. r # NoRecord => r.base \in V /\ r.sent \in V \cup {<<r.text, r.format>>}
    BY DEF Good, BufferGood, NamesGood, Contents
  <2>4. Dirty(b) \/ Saving(b) => r # NoRecord /\ r.text = b.text
    BY <2>2, ValuesAssumption DEF Good, BufferGood, BufferType, RecordType, Saving, SaveType,
       Versions
  <2> HIDE DEF r
  <2>5. c \in BufferType
    BY <2>1, <2>2 DEF Good, BufferGood, BufferType
  <2>6. CleanGood(c) /\ RecordGood(c) /\ NamesGood(c, V)
    BY <2>1, <2>2, <2>3, <2>4 DEF Good, BufferGood, BufferType, CleanGood, RecordGood, NamesGood,
       Saving, Dirty
  <2>7. Follows(o, c, V)
    BY <2>1 DEF Good, BufferGood, BufferType, Follows, SameSave, NewSave, Saving
  <2> QED BY <2>5, <2>6, <2>7 DEF Good, BufferGood
<1> QED OBVIOUS

\* A Buffer without an open save that takes another file.
LEMMA SetFilenameGood ==
  ASSUME NEW V, NEW o, NEW b, NEW p \in Paths, Good(o, b, V), ~Saving(b), Missing \in V
  PROVE  /\ Good(o, SetFilename(b, p), V) /\ SetFilename(b, p).save = NoSave
         /\ SetFilename(b, p).due = b.due /\ SetFilename(b, p).text = b.text
<1> CASE p = b.path
  BY DEF SetFilename, Saving
<1> CASE p # b.path
  <2> DEFINE reload == IF b.reload = "none" THEN "none" ELSE "stale"
  <2> PICK c : c = [b EXCEPT !.records[b.path] = NoRecord, !.path = p, !.reload = reload]
    OBVIOUS
  <2>1. SetFilename(b, p) = WriteRecord(c)
    BY DEF SetFilename
  <2>2. reload \in {"none", "current", "stale"}
    OBVIOUS
  <2> HIDE DEF reload
  <2>3. c \in BufferType /\ c.save = NoSave /\ c.due = b.due /\ c.text = b.text
    BY <2>2 DEF Good, BufferGood, BufferType, Saving
  <2>4. CleanGood(c) /\ NamesGood(c, V) /\ ~Saving(c)
    BY <2>3 DEF Good, BufferGood, BufferType, CleanGood, NamesGood, Saving
  <2>5. Follows(o, c, V)
    BY <2>3 DEF Good, BufferGood, BufferType, Follows, Saving
  <2>6. PICK d : d = WriteRecord(c)
    OBVIOUS
  <2>7. d.save = c.save /\ d.due = c.due /\ d.text = c.text
    BY <2>3, <2>6 DEF WriteRecord, BufferType
  <2> QED BY <2>1, <2>3, <2>4, <2>5, <2>6, <2>7, WriteRecordGood
<1> QED OBVIOUS

\* What a save that goes out, and one that waits for the connection, changes.
LEMMA StartSaveFacts ==
  ASSUME NEW b \in BufferType, NEW p \in Paths, NEW overwrite \in Versions,
         NEW online \in BOOLEAN, online => FreshIds # {}, ~Saving(b), ~b.closed
  PROVE  /\ online =>
              /\ StartSave(b, p, overwrite, online).save \in SaveType
              /\ StartSave(b, p, overwrite, online).save.path = p
              /\ StartSave(b, p, overwrite, online).closed = b.closed
         /\ ~online => /\ StartSave(b, p, overwrite, online).save = NoSave
                       /\ StartSave(b, p, overwrite, online).offline = p
                       /\ StartSave(b, p, overwrite, online).due
<1> DEFINE same == p = b.path
           base == IF overwrite # Missing THEN overwrite
                   ELSE IF same /\ ~b.new_file THEN b.version ELSE Missing
           request == [id |-> NewId, path |-> p, same |-> same, overwrite |-> overwrite,
                       base |-> base, sent |-> Contents(b), edited |-> FALSE,
                       unknown |-> FALSE, again |-> "none"]
           c == WriteRecord([b EXCEPT !.save = request, !.offline = NoPath])
<1>1. StartSave(b, p, overwrite, online) =
        IF online THEN c ELSE [c EXCEPT !.save = NoSave, !.due = TRUE, !.offline = p]
  BY DEF StartSave
<1>2. base \in Versions /\ base \in {overwrite, b.version, Missing} /\ same \in BOOLEAN
  BY DEF Versions, BufferType
<1>3. Contents(b) \in Bytes
  BY DEF Contents, Bytes, BufferType
<1>4. online => request \in SaveType
  <2> HIDE DEF base, same
  <2> QED BY <1>2, <1>3 DEF SaveType, NewId, FreshIds
<1> HIDE DEF base
<1> HIDE DEF same
<1>5. /\ request.id = NewId /\ request.path = p /\ request.overwrite = overwrite
      /\ request.sent = Contents(b) /\ ~request.edited /\ request.base = base
  OBVIOUS
<1>6. online => NewId \in FreshIds
  BY DEF NewId
<1> HIDE DEF request
<1>7. c.save = request /\ c.closed = b.closed /\ DOMAIN c = DOMAIN b
  BY DEF WriteRecord, BufferType
<1> HIDE DEF c
<1>8. \A d : d = [c EXCEPT !.save = NoSave, !.due = TRUE, !.offline = p]
               => d.save = NoSave /\ d.offline = p /\ d.due
  BY <1>7 DEF BufferType
<1> QED BY <1>1, <1>2, <1>4, <1>5, <1>6, <1>7, <1>8

\* A save that goes out, or at once waits for the connection.
LEMMA StartSaveGood ==
  ASSUME NEW V, NEW o, NEW b, NEW p \in Paths, NEW overwrite \in Versions, NEW online \in BOOLEAN,
         Good(o, b, V), Missing \in V, ~Saving(b), online => FreshIds # {},
         overwrite \in V \/ (Saving(o) => o.save.overwrite = Missing)
  PROVE  Good(o, StartSave(b, p, overwrite, online), V)
<1> CASE b.closed
  BY DEF StartSave
<1> CASE ~b.closed
  <2> DEFINE same == p = b.path
             base == IF overwrite # Missing THEN overwrite
                     ELSE IF same /\ ~b.new_file THEN b.version ELSE Missing
             request == [id |-> NewId, path |-> p, same |-> same, overwrite |-> overwrite,
                         base |-> base, sent |-> Contents(b), edited |-> FALSE,
                         unknown |-> FALSE, again |-> "none"]
  <2>1. b \in BufferType /\ b.save = NoSave
    BY DEF Good, BufferGood, Saving
  <2>2. base \in Versions /\ base \in V \cup {overwrite} /\ same \in BOOLEAN
    BY <2>1 DEF Versions, BufferType, Good, BufferGood, NamesGood
  <2>3. Contents(b) \in Bytes /\ Contents(b)[1] = b.text
    BY <2>1 DEF Contents, Bytes, BufferType
  <2> HIDE DEF base
  <2> HIDE DEF same
  <2>4. /\ request.id = NewId /\ request.path = p /\ request.overwrite = overwrite
        /\ request.sent = Contents(b) /\ ~request.edited /\ request.base = base
        /\ request.same = same
    OBVIOUS
  <2> CASE online
    <3>1. NewId \in FreshIds
      BY DEF NewId
    <3>2. request \in SaveType
      BY <2>2, <2>3, <3>1 DEF SaveType, FreshIds
    <3> HIDE DEF request
    <3> PICK c : c = [b EXCEPT !.save = request, !.offline = NoPath]
      OBVIOUS
    <3>3. StartSave(b, p, overwrite, online) = WriteRecord(c)
      BY DEF StartSave, request, base, same
    <3>4. c \in BufferType /\ c.save = request
      BY <2>1, <3>2 DEF BufferType
    <3>5. CleanGood(c) /\ NamesGood(c, V) /\ Contents(c) = Contents(b)
      BY <2>1, <2>3, <2>4, <3>4, ValuesAssumption
      DEF Good, BufferGood, BufferType, CleanGood, NamesGood, Saving, Contents
    <3>6. Follows(o, c, V)
      BY <2>1, <2>2, <2>4, <3>1, <3>4 DEF Good, BufferType, Follows, NewSave, Saving
    <3> QED BY <2>4, <3>3, <3>4, <3>5, <3>6, WriteRecordGood
  <2> CASE ~online
    <3> HIDE DEF request
    <3> PICK c : c = [b EXCEPT !.save = request, !.offline = NoPath]
      OBVIOUS
    <3> DEFINE r == IF Dirty(c) \/ Saving(c)
                    THEN [text |-> c.text, format |-> c.format, base |-> c.version,
                          sent |-> IF Saving(c) /\ c.save.same THEN c.save.sent ELSE Missing]
                    ELSE NoRecord
    <3>1. /\ c.text = b.text /\ c.format = b.format /\ c.version = b.version /\ c.path = b.path
          /\ c.save = request /\ c.closed = b.closed
      BY <2>1 DEF BufferType
    <3>2. r \in RecordType \cup {NoRecord}
      BY <2>1, <2>3, <2>4, <3>1 DEF RecordType, BufferType, Versions
    <3>3. r # NoRecord => r.base \in V /\ r.sent \in V \cup {<<r.text, r.format>>}
      BY <2>4, <3>1 DEF Good, BufferGood, NamesGood, Contents
    <3>4. WriteRecord(c) = [c EXCEPT !.records[c.path] = r]
      BY <3>1 DEF WriteRecord
    <3> HIDE DEF r
    <3>5. StartSave(b, p, overwrite, online)
            = [WriteRecord(c) EXCEPT !.save = NoSave, !.due = TRUE, !.offline = p]
      BY DEF StartSave, request, base, same
    <3> PICK d : d = StartSave(b, p, overwrite, online)
      OBVIOUS
    <3> PICK rs : rs = [b.records EXCEPT ![b.path] = r]
      OBVIOUS
    <3> PICK e : e = WriteRecord(c)
      OBVIOUS
    <3>6. e = [c EXCEPT !.records = rs]
      BY <2>1, <3>1, <3>4 DEF BufferType
    <3>7. e = [b EXCEPT !.save = request, !.offline = NoPath, !.records = rs]
      BY <2>1, <3>6 DEF BufferType
    <3>8. d = [e EXCEPT !.save = NoSave, !.due = TRUE, !.offline = p]
      BY <3>5
    <3>9. d = [b EXCEPT !.save = NoSave, !.due = TRUE, !.offline = p, !.records = rs]
      BY <2>1, <3>7, <3>8 DEF BufferType
    <3>10. rs \in [Paths -> RecordType \cup {NoRecord}]
      BY <2>1, <3>2 DEF BufferType
    <3>11. d \in BufferType
      BY <2>1, <3>10, <3>9 DEF BufferType
    <3>12. CleanGood(d) /\ RecordGood(d) /\ NamesGood(d, V)
      BY <2>1, <3>2, <3>3, <3>9
      DEF Good, BufferGood, BufferType, CleanGood, RecordGood, NamesGood, Saving
    <3>13. Follows(o, d, V)
      BY <2>1, <3>9 DEF Good, BufferType, Follows, Saving
    <3> QED BY <3>11, <3>12, <3>13 DEF Good, BufferGood
  <2> QED OBVIOUS
<1> QED OBVIOUS

-----------------------------------------------------------------------------
\* A save that starts, is refused or waits for the open one.
LEMMA RequestSaveGood ==
  ASSUME NEW V, NEW o, NEW b, NEW p \in Paths, NEW plain \in BOOLEAN, NEW online \in BOOLEAN,
         Good(o, b, V), Missing \in V, online => FreshIds # {}
  PROVE  /\ Good(o, RequestSave(b, p, plain, online), V)
         /\ ~Saving(b) /\ ~online => ~Saving(RequestSave(b, p, plain, online))
<1>1. b \in BufferType /\ Missing \in Versions
  BY DEF Good, BufferGood, Versions
<1> CASE b.closed \/ (p = b.path /\ b.conflict # NoConflict)
  BY DEF RequestSave
<1> CASE ~(b.closed \/ (p = b.path /\ b.conflict # NoConflict)) /\ Saving(b)
  <2> DEFINE again == IF ~plain THEN p ELSE IF b.save.again = "none" THEN "plain" ELSE b.save.again
  <2> PICK c : c = RequestSave(b, p, plain, online)
    OBVIOUS
  <2>1. c = [b EXCEPT !.save.again = again]
    BY DEF RequestSave
  <2>2. again \in Paths \cup {"none", "plain"} /\ b.save \in SaveType
    BY <1>1 DEF BufferType, SaveType, Saving
  <2> HIDE DEF again
  <2>3. c.save = [b.save EXCEPT !.again = again] /\ c.save \in SaveType
    BY <1>1, <2>1, <2>2 DEF BufferType, SaveType
  <2>4. /\ c.save.id = b.save.id /\ c.save.sent = b.save.sent /\ c.save.base = b.save.base
        /\ c.save.overwrite = b.save.overwrite /\ c.save.edited = b.save.edited
    BY <2>2, <2>3 DEF SaveType
  <2>5. c \in BufferType
    BY <1>1, <2>1, <2>3 DEF BufferType
  <2>6. CleanGood(c) /\ RecordGood(c) /\ NamesGood(c, V)
    BY <1>1, <2>1, <2>4
    DEF Good, BufferGood, BufferType, CleanGood, RecordGood, NamesGood, Saving
  <2>7. Follows(o, c, V)
    BY <1>1, <2>1, <2>4 DEF Good, BufferType, Follows, SameSave, NewSave, Saving
  <2> QED BY <2>5, <2>6, <2>7 DEF Good, BufferGood
<1> CASE ~(b.closed \/ (p = b.path /\ b.conflict # NoConflict)) /\ ~Saving(b)
  <2>1. RequestSave(b, p, plain, online) = StartSave(b, p, Missing, online)
    BY DEF RequestSave
  <2>2. Good(o, StartSave(b, p, Missing, online), V)
    BY <1>1, StartSaveGood
  <2>3. ~online => ~Saving(StartSave(b, p, Missing, online))
    BY <1>1, StartSaveFacts DEF Saving
  <2> QED BY <2>1, <2>2, <2>3
<1> QED OBVIOUS

LEMMA SaveAgainGood ==
  ASSUME NEW V, NEW o, NEW b, NEW request \in SaveType, NEW failed \in BOOLEAN,
         NEW online \in BOOLEAN,
         Good(o, b, V), Missing \in V, online => FreshIds # {}
  PROVE  /\ Good(o, SaveAgain(b, request, failed, online), V)
         /\ ~Saving(b) /\ ~online => ~Saving(SaveAgain(b, request, failed, online))
<1> b.path \in Paths
  BY DEF Good, BufferGood, BufferType
<1> CASE b.closed \/ request.again = "none"
  BY DEF SaveAgain
<1> CASE ~b.closed /\ request.again # "none"
  BY RequestSaveGood DEF SaveAgain
<1> QED OBVIOUS

LEMMA KeepAgainGood ==
  ASSUME NEW V, NEW o, NEW b, NEW request \in SaveType, Good(o, b, V)
  PROVE  Good(o, KeepAgain(b, request), V)
<1>1. b \in BufferType
  BY DEF Good, BufferGood
<1> CASE ~Saving(b)
  BY DEF KeepAgain
<1> CASE Saving(b)
  <2> PICK again : again = request.again
    OBVIOUS
  <2> PICK c : c = KeepAgain(b, request)
    OBVIOUS
  <2>1. c = [b EXCEPT !.save.again = again]
    BY DEF KeepAgain
  <2>2. again \in Paths \cup {"none", "plain"} /\ b.save \in SaveType
    BY <1>1 DEF BufferType, SaveType, Saving
  <2>3. c.save = [b.save EXCEPT !.again = again] /\ c.save \in SaveType
    BY <1>1, <2>1, <2>2 DEF BufferType, SaveType
  <2>4. /\ c.save.id = b.save.id /\ c.save.sent = b.save.sent /\ c.save.base = b.save.base
        /\ c.save.overwrite = b.save.overwrite /\ c.save.edited = b.save.edited
    BY <2>2, <2>3 DEF SaveType
  <2>5. c \in BufferType
    BY <1>1, <2>1, <2>3 DEF BufferType
  <2>6. CleanGood(c) /\ RecordGood(c) /\ NamesGood(c, V)
    BY <1>1, <2>1, <2>4
    DEF Good, BufferGood, BufferType, CleanGood, RecordGood, NamesGood, Saving
  <2>7. Follows(o, c, V)
    BY <1>1, <2>1, <2>4 DEF Good, BufferType, Follows, SameSave, NewSave, Saving
  <2> QED BY <2>5, <2>6, <2>7 DEF Good, BufferGood
<1> QED OBVIOUS

-----------------------------------------------------------------------------
\* A Save As that waits.

LEMMA StartSavePath ==
  ASSUME NEW b \in BufferType, NEW p, NEW overwrite, NEW online
  PROVE  StartSave(b, p, overwrite, online).path = b.path
<1> PICK request : request = [id |-> NewId, path |-> p, same |-> (p = b.path), overwrite |-> overwrite,
                  base |-> IF overwrite # Missing THEN overwrite
                           ELSE IF (p = b.path) /\ ~b.new_file THEN b.version ELSE Missing,
                  sent |-> Contents(b), edited |-> FALSE, unknown |-> FALSE, again |-> "none"]
  OBVIOUS
<1> PICK c : c = [b EXCEPT !.save = request, !.offline = NoPath]
  OBVIOUS
<1> PICK w : w = WriteRecord(c)
  OBVIOUS
<1>1. c.path = b.path
  BY DEF BufferType
<1>2. w.path = c.path
  BY DEF WriteRecord
<1>3. \A d : d = [w EXCEPT !.save = NoSave, !.due = TRUE, !.offline = p] => d.path = w.path
  OBVIOUS
<1>4. StartSave(b, p, overwrite, online) =
        IF b.closed THEN b ELSE IF online THEN w
        ELSE [w EXCEPT !.save = NoSave, !.due = TRUE, !.offline = p]
  BY DEF StartSave
<1> QED BY <1>1, <1>2, <1>3, <1>4

LEMMA SaveAgainPath ==
  ASSUME NEW b \in BufferType, NEW request, NEW failed, NEW online
  PROVE  SaveAgain(b, request, failed, online).path = b.path
<1>1. ASSUME NEW p, NEW plain
      PROVE  RequestSave(b, p, plain, online).path = b.path
  <2> PICK again : again = IF ~plain THEN p ELSE IF b.save.again = "none" THEN "plain" ELSE b.save.again
    OBVIOUS
  <2> PICK c : c = [b EXCEPT !.save.again = again]
    OBVIOUS
  <2>1. c.path = b.path
    BY DEF BufferType
  <2>2. CASE b.closed \/ (p = b.path /\ b.conflict # NoConflict)
    BY <2>2 DEF RequestSave
  <2>3. CASE ~(b.closed \/ (p = b.path /\ b.conflict # NoConflict)) /\ Saving(b)
    BY <2>1, <2>3 DEF RequestSave
  <2>4. CASE ~(b.closed \/ (p = b.path /\ b.conflict # NoConflict)) /\ ~Saving(b)
    BY <2>4, StartSavePath DEF RequestSave
  <2> QED BY <2>2, <2>3, <2>4
<1> QED BY <1>1 DEF SaveAgain

\* The Save As to q is out, waits on, or is kept for the reconnect.
GoesOut(b, q) == (Saving(b) /\ q \in {b.save.path, b.save.again}) \/ b.offline = q

LEMMA SaveAgainGoesOut ==
  ASSUME NEW b \in BufferType, NEW request \in SaveType, NEW failed \in BOOLEAN,
         NEW online \in BOOLEAN, online => FreshIds # {}, b.save = NoSave, ~b.closed,
         request.again \in Paths, SaveAgain(b, request, failed, online).path # request.again
  PROVE  GoesOut(SaveAgain(b, request, failed, online), request.again)
<1> PICK q : q = request.again
  OBVIOUS
<1> PICK s : s = StartSave(b, q, Missing, online)
  OBVIOUS
<1>1. q \in Paths \ {b.path} /\ q # "none" /\ ~Saving(b) /\ Missing \in Versions
  BY SaveAgainPath, ValuesAssumption DEF Saving, Versions
<1>2. SaveAgain(b, request, failed, online) = s
  BY <1>1 DEF SaveAgain, RequestSave
<1>3. CASE online
  <2>1. s.save \in SaveType /\ s.save.path = q
    BY <1>1, <1>3, StartSaveFacts
  <2> QED BY <1>2, <2>1, ValuesAssumption DEF GoesOut, Saving
<1>4. CASE ~online
  BY <1>1, <1>2, <1>4, StartSaveFacts DEF GoesOut
<1> QED BY <1>3, <1>4
-----------------------------------------------------------------------------
LEMMA EndedFacts ==
  ASSUME NEW b \in BufferType
  PROVE  /\ Ended(b).save = NoSave /\ Ended(b).due /\ Ended(b).text = b.text
         /\ Ended(b).path = b.path /\ Ended(b).closed = b.closed
  BY DEF Ended, BufferType

LEMMA ConflictGood ==
  ASSUME NEW V, NEW o, NEW b, NEW version \in Versions \cup {NoConflict}, Good(o, b, V),
         version = NoConflict => b.conflict = NoConflict
  PROVE  Good(o, [b EXCEPT !.conflict = version], V)
<1> PICK c : c = [b EXCEPT !.conflict = version] OBVIOUS
<1>1. c \in BufferType
  BY DEF Good, BufferGood, BufferType
<1>2. CleanGood(c) /\ RecordGood(c) /\ NamesGood(c, V)
  BY ValuesAssumption
  DEF Good, BufferGood, BufferType, CleanGood, RecordGood, NamesGood, Saving
<1>3. Follows(o, c, V)
  BY DEF Good, BufferGood, BufferType, Follows, SameSave, NewSave, Saving
<1> QED BY <1>1, <1>2, <1>3 DEF Good, BufferGood

\* A save that found another version on the Machine.
LEMMA FinishConflictGood ==
  ASSUME NEW V, NEW o, NEW b, NEW request \in SaveType, NEW version \in Versions,
         NEW online \in BOOLEAN,
         Good(o, b, V), Missing \in V, online => FreshIds # {},
         Saving(o) => request.overwrite = o.save.overwrite
  PROVE  Good(o, FinishConflict(b, request, version, online), V)
<1> PICK e : e = Ended(b)
  OBVIOUS
<1>1. b \in BufferType /\ request.path \in Paths /\ Missing \in Versions
  BY DEF Good, BufferGood, SaveType, Versions
<1>2. Good(o, e, V) /\ ~Saving(e)
  BY <1>1, EndedGood, EndedFacts DEF Saving
<1> DEFINE replaces ==
      ~request.same /\ version # Missing /\ request.overwrite = Missing /\ ~b.closed
<1>3. CASE replaces
  <2> PICK s : s = StartSave(e, request.path, version, online)
    OBVIOUS
  <2>1. Good(o, s, V)
    BY <1>1, <1>2, <1>3, StartSaveGood
  <2>2. FinishConflict(b, request, version, online) = KeepAgain(s, request)
    BY <1>3 DEF FinishConflict
  <2> QED BY <2>1, <2>2, KeepAgainGood
<1>4. CASE ~replaces
  <2> PICK v : v = IF request.same THEN version ELSE e.conflict
    OBVIOUS
  <2> PICK c : c = [e EXCEPT !.conflict = v]
    OBVIOUS
  <2>1. v \in Versions \cup {NoConflict} /\ (v = NoConflict => e.conflict = NoConflict)
    BY <1>2, ValuesAssumption DEF Good, BufferGood, BufferType
  <2>2. Good(o, c, V)
    BY <1>2, <2>1, ConflictGood
  <2>3. FinishConflict(b, request, version, online) = SaveAgain(c, request, TRUE, online)
    BY <1>4 DEF FinishConflict
  <2>4. Good(o, SaveAgain(c, request, TRUE, online), V)
    BY <2>2, SaveAgainGood
  <2> QED BY <2>3, <2>4
<1> HIDE DEF replaces
<1> QED BY <1>3, <1>4

LEMMA OfflineGood ==
  ASSUME NEW V, NEW o, NEW b, NEW p \in Paths \cup {NoPath}, Good(o, b, V)
  PROVE  Good(o, [b EXCEPT !.offline = p], V)
<1> PICK c : c = [b EXCEPT !.offline = p] OBVIOUS
<1>1. c \in BufferType
  BY DEF Good, BufferGood, BufferType
<1>2. CleanGood(c) /\ RecordGood(c) /\ NamesGood(c, V)
  BY DEF Good, BufferGood, BufferType, CleanGood, RecordGood, NamesGood, Saving
<1>3. Follows(o, c, V)
  BY DEF Good, BufferGood, BufferType, Follows, SameSave, NewSave, Saving
<1> QED BY <1>1, <1>2, <1>3 DEF Good, BufferGood

LEMMA FinishOfflineGood ==
  ASSUME NEW V, NEW o, NEW b, NEW request \in SaveType, Good(o, b, V), Missing \in V
  PROVE  Good(o, FinishOffline(b, request), V) /\ ~Saving(FinishOffline(b, request))
<1> PICK e : e = Ended(b)
  OBVIOUS
<1> PICK c : c = [e EXCEPT !.offline = request.path]
  OBVIOUS
<1>1. b \in BufferType /\ request.path \in Paths
  BY DEF Good, BufferGood, SaveType
<1>2. Good(o, e, V) /\ ~Saving(e)
  BY <1>1, EndedGood, EndedFacts DEF Saving
<1>3. Good(o, c, V)
  BY <1>1, <1>2, OfflineGood
<1>4. ~Saving(c)
  BY <1>2 DEF Good, BufferGood, BufferType, Saving
<1>5. FinishOffline(b, request) = SaveAgain(c, request, TRUE, FALSE)
  BY DEF FinishOffline
<1>6. Good(o, SaveAgain(c, request, TRUE, FALSE), V) /\ ~Saving(SaveAgain(c, request, TRUE, FALSE))
  BY <1>3, <1>4, SaveAgainGood
<1> QED BY <1>5, <1>6

LEMMA CleanType ==
  ASSUME NEW b \in BufferType
  PROVE  /\ Clean(b) \in BufferType /\ NeverClean(b) \in BufferType
         /\ Clean(b).clean_text = b.text /\ Clean(b).clean_known /\ Clean(b).at_clean
         /\ ~NeverClean(b).at_clean /\ ~NeverClean(b).clean_known
  BY DEF Clean, NeverClean, BufferType

LEMMA CleanFrame ==
  ASSUME NEW b \in BufferType, NEW c, c = Clean(b) \/ c = NeverClean(b)
  PROVE  /\ c.due = b.due /\ c.text = b.text /\ c.save = b.save /\ c.version = b.version
         /\ c.records = b.records /\ c.loaded = b.loaded /\ c.closed = b.closed
         /\ c.path = b.path
<1>1. CASE c = Clean(b)
  BY <1>1 DEF Clean, BufferType
<1>2. CASE c = NeverClean(b)
  BY <1>2 DEF NeverClean, BufferType
<1> QED BY <1>1, <1>2

\* The Buffer with the version of a save that was made: clean, or never clean.
LEMMA SavedGood ==
  ASSUME NEW V, NEW o, NEW f, NEW conflict \in Versions \cup {NoConflict}, NEW version \in Bytes,
         Good(o, f, V), version \in V, f.due, ~Saving(f),
         NEW c, c = [f EXCEPT !.conflict = conflict, !.version = version,
                              !.new_file = FALSE, !.accepted = FALSE],
         NEW s, s = NeverClean(c) \/ (s = Clean(c) /\ f.text = version[1])
  PROVE  Good(o, s, V)
<1>1. f \in BufferType /\ version \in Versions /\ version # Missing
  BY ValuesAssumption DEF Good, BufferGood, Versions
<1>2. c \in BufferType
  BY <1>1 DEF BufferType
<1>3. /\ c.due /\ c.text = f.text /\ c.save = NoSave /\ c.version = version
      /\ c.records = f.records /\ c.loaded = f.loaded /\ c.closed = f.closed
  BY <1>1 DEF BufferType, Saving
<1>4. /\ s \in BufferType /\ s.due /\ s.text = f.text /\ s.save = NoSave /\ s.version = version
      /\ s.records = f.records /\ s.loaded = f.loaded /\ s.closed = f.closed
  BY <1>2, <1>3, CleanType, CleanFrame
<1>5. CleanGood(s)
  <2>1. CASE s = NeverClean(c)
    BY <1>2, <1>4, <2>1, CleanType DEF CleanGood, Saving
  <2>2. CASE s = Clean(c) /\ f.text = version[1]
    BY <1>1, <1>2, <1>3, <1>4, <2>2, CleanType DEF CleanGood, Saving
  <2> QED BY <2>1, <2>2
<1>6. RecordGood(s) /\ NamesGood(s, V)
  BY <1>4 DEF RecordGood, NamesGood, Good, BufferGood
<1>7. Follows(o, s, V)
  BY <1>4 DEF Good, Follows, Saving
<1> QED BY <1>4, <1>5, <1>6, <1>7 DEF Good, BufferGood

\* A save that was made: the text that it sent is the Machine's, and a Save As that
\* waited for it goes out.
LEMMA FinishSavedGood ==
  ASSUME NEW V, NEW o, NEW b, NEW request \in SaveType, NEW online \in BOOLEAN,
         Good(o, b, V), Missing \in V, online => FreshIds # {}, request.sent \in V,
         ~request.edited => b.text = request.sent[1]
  PROVE  /\ Good(o, FinishSaved(b, request, request.sent, online), V)
         /\ ~b.closed /\ request.again \in Paths
              /\ FinishSaved(b, request, request.sent, online).path # request.again
              => GoesOut(FinishSaved(b, request, request.sent, online), request.again)
<1> PICK e : e = Ended(b)
  OBVIOUS
<1>1. b \in BufferType /\ request.path \in Paths /\ request.sent \in Bytes
  BY DEF Good, BufferGood, SaveType
<1>2. Good(o, e, V) /\ ~Saving(e) /\ e.due /\ e.text = b.text
  BY <1>1, EndedGood, EndedFacts DEF Saving
<1>3. PICK f : f = IF request.same THEN e ELSE SetFilename(e, request.path)
  OBVIOUS
<1>4. PICK conflict : conflict = IF request.same THEN e.conflict ELSE NoConflict
  OBVIOUS
<1>5. PICK version : version = request.sent
  OBVIOUS
<1>6. PICK c : c = [f EXCEPT !.conflict = conflict, !.version = version,
                           !.new_file = FALSE, !.accepted = FALSE]
  OBVIOUS
<1>7. PICK saved : saved = CleanIfSent(c, request)
  OBVIOUS
<1>8. Good(o, f, V) /\ ~Saving(f) /\ f.due /\ f.text = b.text
  BY <1>1, <1>2, <1>3, SetFilenameGood DEF Saving
<1>9. f \in BufferType /\ conflict \in Versions \cup {NoConflict}
  BY <1>2, <1>8, <1>4 DEF Good, BufferGood, BufferType
<1>10. c = [(IF request.same THEN e ELSE [SetFilename(e, request.path) EXCEPT !.conflict = NoConflict])
             EXCEPT !.version = request.sent, !.new_file = FALSE, !.accepted = FALSE]
  <2> CASE request.same
    BY <1>9, <1>6, <1>3, <1>4, <1>5 DEF BufferType
  <2> CASE ~request.same
    BY <1>9, <1>6, <1>3, <1>4, <1>5 DEF BufferType
  <2> QED OBVIOUS
<1>11. FinishSaved(b, request, request.sent, online) = SaveAgain(saved, request, FALSE, online)
  BY <1>10, <1>7 DEF FinishSaved
<1>12. c.text = f.text /\ c.save = f.save
  BY <1>9, <1>6 DEF BufferType
<1>13. saved = NeverClean(c) \/ (saved = Clean(c) /\ f.text = version[1])
  BY <1>8, <1>12, <1>7, <1>5 DEF CleanIfSent, Contents
<1>14. version \in Bytes /\ version \in V
  BY <1>1, <1>5
<1>15. Good(o, saved, V)
  BY <1>8, <1>9, <1>13, <1>14, <1>6, SavedGood
<1>16. Good(o, SaveAgain(saved, request, FALSE, online), V)
  BY <1>15, SaveAgainGood
<1>17. version \in Versions
  BY <1>14 DEF Versions
<1>18. c \in BufferType
  BY <1>9, <1>17, <1>6 DEF BufferType
<1>19. saved.save = NoSave
  BY <1>8, <1>12, <1>13, <1>18, CleanFrame DEF Saving
<1>20. saved \in BufferType /\ saved.closed = b.closed
  BY <1>15 DEF Good, BufferGood, Follows
<1>21. ~saved.closed /\ request.again \in Paths
         /\ SaveAgain(saved, request, FALSE, online).path # request.again
         => GoesOut(SaveAgain(saved, request, FALSE, online), request.again)
  BY <1>19, <1>20, SaveAgainGoesOut
<1> QED BY <1>11, <1>16, <1>20, <1>21

-----------------------------------------------------------------------------
LEMMA ApplyLinesText ==
  ASSUME NEW b \in BufferType, NEW t \in Texts
  PROVE  ApplyLines(b, t).text = t
  BY DEF ApplyLines, Changed, BufferType

LEMMA ApplyFileGood ==
  ASSUME NEW V, NEW o, NEW b, NEW bytes \in Bytes, Good(o, b, V), bytes \in V
  PROVE  Good(o, ApplyFile(b, bytes), V)
<1> PICK a : a = ApplyLines(b, bytes[1])
  OBVIOUS
<1> PICK c : c = [a EXCEPT !.format = bytes[2], !.version = bytes, !.conflict = NoConflict,
                           !.new_file = FALSE, !.accepted = FALSE]
  OBVIOUS
<1> PICK d : d = ApplyFile(b, bytes)
  OBVIOUS
<1>1. bytes[1] \in Texts /\ bytes[2] \in Formats /\ bytes \in Versions /\ bytes # Missing
  BY ValuesAssumption DEF Bytes, Versions
<1>2. Good(o, a, V) /\ a.text = bytes[1]
  BY <1>1, ApplyLinesGood, ApplyLinesText DEF Good, BufferGood
<1>3. a \in BufferType
  BY <1>2 DEF Good, BufferGood
<1>4. c \in BufferType
  BY <1>1, <1>3 DEF BufferType
<1>5. /\ c.due = a.due /\ c.text = a.text /\ c.save = a.save /\ c.version = bytes
      /\ c.records = a.records /\ c.loaded = a.loaded /\ c.closed = a.closed /\ c.path = a.path
  BY <1>3 DEF BufferType
<1>6. d = Clean(c)
  BY DEF ApplyFile
<1>7. /\ d.due = a.due /\ d.text = a.text /\ d.save = a.save /\ d.version = bytes
      /\ d.records = a.records /\ d.loaded = a.loaded /\ d.closed = a.closed /\ d.path = a.path
  BY <1>4, <1>5, <1>6, CleanFrame
<1>8. d \in BufferType /\ d.clean_text = a.text /\ d.clean_known /\ d.at_clean
  BY <1>4, <1>5, <1>6, CleanType
<1>9. CleanGood(d)
  BY <1>1, <1>2, <1>7, <1>8 DEF Good, BufferGood, CleanGood, Saving
<1>10. RecordGood(d) /\ NamesGood(d, V)
  BY <1>2, <1>7, <1>8 DEF Good, BufferGood, RecordGood, NamesGood, Saving
<1>11. Follows(o, d, V)
  BY <1>2, <1>7 DEF Good, Follows, Saving, SameSave, NewSave
<1> QED BY <1>8, <1>9, <1>10, <1>11 DEF Good, BufferGood

\* What a reload shows is the Machine's version, byte for byte.
LEMMA ApplyFileShows ==
  ASSUME NEW b \in BufferType, NEW bytes \in Bytes
  PROVE  /\ Contents(ApplyFile(b, bytes)) = bytes /\ ApplyFile(b, bytes).version = bytes
         /\ ApplyFile(b, bytes).loaded = b.loaded /\ ApplyFile(b, bytes).save = ApplyLines(b, bytes[1]).save
<1> PICK a : a = ApplyLines(b, bytes[1])
  OBVIOUS
<1> PICK c : c = [a EXCEPT !.format = bytes[2], !.version = bytes, !.conflict = NoConflict,
                           !.new_file = FALSE, !.accepted = FALSE]
  OBVIOUS
<1>1. bytes[1] \in Texts /\ bytes[2] \in Formats /\ bytes = <<bytes[1], bytes[2]>>
  BY DEF Bytes
<1>2. /\ a.text = bytes[1] /\ a.loaded = b.loaded /\ "text" \in DOMAIN a /\ "format" \in DOMAIN a
      /\ "version" \in DOMAIN a
  BY <1>1, ApplyLinesText DEF ApplyLines, Changed, BufferType
<1>3. c.text = bytes[1] /\ c.format = bytes[2] /\ c.version = bytes /\ c.save = a.save
      /\ c.loaded = b.loaded
  BY <1>2
<1>4. ApplyFile(b, bytes) = [c EXCEPT !.at_clean = TRUE, !.clean_text = c.text, !.clean_known = TRUE]
  BY DEF ApplyFile, Clean
<1>5. \A d : d = [c EXCEPT !.at_clean = TRUE, !.clean_text = c.text, !.clean_known = TRUE]
         => d.text = c.text /\ d.format = c.format /\ d.version = c.version /\ d.save = c.save
            /\ d.loaded = c.loaded
  OBVIOUS
<1> QED BY <1>1, <1>3, <1>4, <1>5 DEF Contents

\* A version that the Buffer takes over without a question is seen: the Buffer shows it.
LEMMA CheckFileGood ==
  ASSUME NEW V, NEW o, NEW b, NEW version \in Versions, Good(o, b, V), Missing \in V,
         FreshIds # {},
         ~Saving(b) /\ version # b.version /\ version # Missing /\ ~Dirty(b) => version \in V
  PROVE  Good(o, CheckFile(b, version), V)
<1>1. b \in BufferType /\ b.path \in Paths
  BY DEF Good, BufferGood, BufferType
<1>2. CASE Saving(b)
  BY <1>2 DEF CheckFile
<1>3. CASE ~Saving(b) /\ version = b.version
  <2> PICK c : c = [b EXCEPT !.offline = NoPath]
    OBVIOUS
  <2>1. Good(o, c, V)
    BY OfflineGood
  <2>2. Good(o, RequestSave(c, b.path, TRUE, TRUE), V)
    BY <1>1, <2>1, RequestSaveGood
  <2> QED BY <1>3, <2>2 DEF CheckFile
<1>4. CASE ~Saving(b) /\ version # b.version /\ version # Missing /\ ~Dirty(b)
  <2>1. version \in Bytes
    BY <1>4 DEF Versions
  <2>2. Good(o, ApplyFile(b, version), V)
    BY <1>4, <2>1, ApplyFileGood
  <2> QED BY <1>4, <2>2 DEF CheckFile
<1>5. CASE ~Saving(b) /\ version # b.version /\ ~(version # Missing /\ ~Dirty(b))
  <2>1. Good(o, [b EXCEPT !.conflict = version], V)
    BY ValuesAssumption, ConflictGood
  <2> QED BY <1>5, <2>1 DEF CheckFile
<1> QED BY <1>2, <1>3, <1>4, <1>5

\* A save with an unknown result, when the file's version tells what became of it.
LEMMA ResolveByVersionGood ==
  ASSUME NEW V, NEW o, NEW b, NEW current \in Versions, Good(o, b, V), Missing \in V,
         FreshIds # {},
         Saving(b), b.save.sent \in V, b.save.overwrite \in V,
         Saving(o) => b.save.overwrite = o.save.overwrite
  PROVE  Good(o, ResolveByVersion(b, current), V)
<1> PICK request : request = b.save
  OBVIOUS
<1> PICK e : e = Ended(b)
  OBVIOUS
<1> PICK restarted : restarted = IF ~request.same
                   THEN StartSave(e, request.path, request.overwrite, TRUE)
                   ELSE IF Dirty(b) THEN RequestSave(e, b.path, TRUE, TRUE)
                   ELSE e
  OBVIOUS
<1>1. /\ b \in BufferType /\ request \in SaveType /\ b.path \in Paths /\ Missing \in Versions
      /\ request.path \in Paths /\ request.overwrite \in Versions
  BY DEF Good, BufferGood, BufferType, Saving, SaveType, Versions
<1>2. Good(o, e, V) /\ ~Saving(e)
  BY <1>1, EndedGood, EndedFacts DEF Saving
<1>3. Good(o, restarted, V)
  <2>1. CASE ~request.same
    BY <1>1, <1>2, <2>1, StartSaveGood
  <2>2. CASE request.same /\ Dirty(b)
    BY <1>1, <1>2, <2>2, RequestSaveGood
  <2>3. CASE request.same /\ ~Dirty(b)
    BY <1>2, <2>3
  <2> QED BY <2>1, <2>2, <2>3
<1>4. Good(o, FinishSaved(b, request, request.sent, TRUE), V)
  <2>1. ~request.edited => b.text = request.sent[1]
    BY DEF Good, BufferGood, CleanGood
  <2> QED BY <1>1, <2>1, FinishSavedGood
<1>5. Good(o, FinishConflict(b, request, current, TRUE), V)
  BY <1>1, FinishConflictGood
<1>6. Good(o, KeepAgain(restarted, request), V)
  BY <1>1, <1>3, KeepAgainGood
<1>7. Good(o, SaveAgain(restarted, request, TRUE, TRUE), V)
  BY <1>1, <1>3, SaveAgainGood
<1>8. ResolveByVersion(b, current) =
        IF current = request.sent THEN FinishSaved(b, request, request.sent, TRUE)
        ELSE IF current # request.base THEN FinishConflict(b, request, current, TRUE)
        ELSE IF Saving(restarted) THEN KeepAgain(restarted, request)
        ELSE SaveAgain(restarted, request, TRUE, TRUE)
  BY DEF ResolveByVersion, Ended
<1> QED BY <1>4, <1>5, <1>6, <1>7, <1>8

-----------------------------------------------------------------------------
LEMMA FormatGood ==
  ASSUME NEW V, NEW o, NEW b, NEW f \in Formats, Good(o, b, V)
  PROVE  Good(o, [b EXCEPT !.format = f], V)
<1> PICK c : c = [b EXCEPT !.format = f] OBVIOUS
<1>1. c \in BufferType
  BY DEF Good, BufferGood, BufferType
<1>2. CleanGood(c) /\ RecordGood(c) /\ NamesGood(c, V)
  BY DEF Good, BufferGood, BufferType, CleanGood, RecordGood, NamesGood, Saving
<1>3. Follows(o, c, V)
  BY DEF Good, BufferGood, BufferType, Follows, SameSave, NewSave, Saving
<1> QED BY <1>1, <1>2, <1>3 DEF Good, BufferGood

\* What a start finds of the Buffer before: the file's version, and the record of it.
LEMMA OpenedGood ==
  ASSUME NEW V, NEW p \in Paths, NEW current \in Versions,
         NEW records \in [Paths -> RecordType \cup {NoRecord}], Missing \in V,
         \A q \in Paths : records[q] # NoRecord =>
           /\ records[q].base \in V
           /\ records[q].sent \in V \cup {<<records[q].text, records[q].format>>},
         Shown(Opened(p, current, records)) \subseteq V
  PROVE  /\ BufferGood(Opened(p, current, records), V)
         /\ Opened(p, current, records).save = NoSave /\ Opened(p, current, records).loaded
         /\ Opened(p, current, records).path = p
         /\ records[p] # NoRecord => Opened(p, current, records).text = records[p].text
<1> DEFINE text == IF current = Missing THEN Empty ELSE current[1]
           format == IF current = Missing THEN CHOOSE f \in Formats : TRUE ELSE current[2]
           l == [path |-> p, text |-> text, format |-> format,
                 new_file |-> current = Missing, at_clean |-> TRUE,
                 clean_text |-> text,
                 clean_known |-> TRUE, version |-> current, conflict |-> NoConflict,
                 save |-> NoSave, offline |-> NoPath, due |-> FALSE, closed |-> FALSE,
                 loaded |-> TRUE, reload |-> "none", accepted |-> FALSE, records |-> records]
<1>1. Opened(p, current, records) =
        IF records[p] = NoRecord THEN l ELSE WriteRecord(RestoreRecord(l, records[p], current))
  BY DEF Opened
<1>2. text \in Texts /\ format \in Formats
  BY ValuesAssumption DEF Versions, Bytes
<1>3. current # Missing => current = <<text, format>>
  BY DEF Versions, Bytes
<1> HIDE DEF text
<1> HIDE DEF format
<1>4. l \in BufferType
  BY <1>2 DEF BufferType
<1>5. /\ l.text = text /\ l.format = format /\ (l.new_file <=> current = Missing) /\ l.at_clean
      /\ l.clean_text = text /\ l.clean_known /\ l.version = current /\ l.conflict = NoConflict
      /\ l.save = NoSave /\ ~l.due /\ ~l.closed /\ l.loaded /\ l.records = records /\ l.path = p
  OBVIOUS
<1> HIDE DEF l
<1>6. BufferGood(l, V \cup {current})
  <2>1. CleanGood(l) /\ RecordGood(l)
    BY <1>3, <1>5 DEF CleanGood, RecordGood, Saving
  <2>2. NamesGood(l, V \cup {current})
    BY <1>5 DEF NamesGood
  <2> QED BY <1>4, <2>1, <2>2 DEF BufferGood
<1>7. \A c : c.records = records /\ c.version \in V => NamesGood(c, V)
  BY DEF NamesGood
<1>8. CASE records[p] = NoRecord
  <2>1. current \in V
    BY <1>1, <1>3, <1>5, <1>8 DEF Shown, Contents
  <2> QED BY <1>1, <1>5, <1>6, <1>7, <1>8, <2>1 DEF BufferGood
<1>9. CASE records[p] # NoRecord
  <2> PICK r : r = records[p]
    OBVIOUS
  <2> PICK f : f = [l EXCEPT !.format = r.format]
    OBVIOUS
  <2> PICK restored : restored = ApplyLines(f, r.text)
    OBVIOUS
  <2> PICK c : c = RestoreRecord(l, r, current)
    OBVIOUS
  <2> PICK d : d = WriteRecord(c)
    OBVIOUS
  <2>1. r \in RecordType /\ r.text \in Texts /\ r.format \in Formats /\ r.base \in Versions
    BY <1>9 DEF RecordType
  <2>2. Good(l, l, V \cup {current})
    BY <1>5, <1>6 DEF Good, Follows, Saving
  <2>3. Good(l, f, V \cup {current})
    BY <2>1, <2>2, FormatGood
  <2>4. Good(l, restored, V \cup {current})
    BY <2>1, <2>3, ApplyLinesGood
  <2>5. /\ f \in BufferType /\ f.text = l.text /\ f.format = r.format /\ f.new_file = l.new_file
        /\ f.clean_text = text /\ f.version = current /\ f.conflict = NoConflict
        /\ f.save = NoSave /\ ~f.closed /\ f.loaded /\ f.records = records /\ f.path = p
    BY <1>4, <1>5, <2>1 DEF BufferType
  <2>6. /\ restored.text = r.text /\ restored.format = r.format /\ restored.new_file = l.new_file
        /\ restored.version = current /\ restored.save = NoSave /\ ~restored.closed
        /\ restored.loaded /\ restored.records = records /\ restored.path = p
        /\ restored \in BufferType
    BY <2>1, <2>4, <2>5, ApplyLinesText DEF ApplyLines, Changed, BufferType, Good, BufferGood
  <2>7. /\ c \in BufferType /\ CleanGood(c) /\ c.records = records /\ c.text = r.text
        /\ c.format = r.format /\ c.save = NoSave /\ ~c.closed /\ c.loaded /\ c.path = p
        /\ c.version = current \/ c.version \in V
        /\ c.version = current => current \in V \/ Contents(c) = current
    <3> DEFINE agrees == current = r.base \/ (current # Missing /\ current = r.sent)
    <3>1. CleanGood(restored) /\ restored \in BufferType
      BY <2>4 DEF Good, BufferGood
    <3>2. CASE Contents(restored) = current
      <4>1. c = Clean(restored)
        BY <3>2 DEF RestoreRecord
      <4>2. c.format = restored.format /\ c.new_file = restored.new_file
        BY <2>6, <4>1 DEF Clean, BufferType
      <4>3. /\ c \in BufferType /\ c.clean_text = r.text /\ c.clean_known /\ c.save = NoSave
            /\ c.version = current /\ c.text = r.text /\ c.records = records /\ c.loaded
            /\ ~c.closed /\ c.path = p
        <5>1. c \in BufferType /\ c.clean_text = restored.text /\ c.clean_known
          BY <3>1, <4>1, CleanType
        <5>2. /\ c.text = restored.text /\ c.save = restored.save /\ c.version = restored.version
              /\ c.records = restored.records /\ c.loaded = restored.loaded
              /\ c.closed = restored.closed /\ c.path = restored.path
          BY <2>6, <4>1, CleanFrame
        <5> QED BY <2>6, <5>1, <5>2
      <4>4. Contents(c) = current /\ current # Missing
        BY <1>2, <2>1, <2>6, <3>2, <4>2, <4>3, ValuesAssumption
        DEF Contents, Bytes
      <4>5. CleanGood(c)
        BY <4>3, <4>4 DEF CleanGood, Saving, Contents
      <4> QED BY <2>6, <4>2, <4>3, <4>4, <4>5
    <3>3. CASE Contents(restored) # current /\ agrees
      <4>1. c = [restored EXCEPT !.new_file = current = Missing]
        BY <3>3 DEF RestoreRecord
      <4>2. current \in V
        BY <1>9, <2>6, <3>3 DEF Contents
      <4>3. c = restored
        BY <1>5, <2>6, <4>1 DEF BufferType
      <4> QED BY <2>6, <3>1, <4>2, <4>3
    <3>4. CASE Contents(restored) # current /\ ~agrees
      <4> PICK new_file : new_file = (r.base = Missing)
        OBVIOUS
      <4>1. c = [restored EXCEPT !.version = r.base, !.new_file = new_file, !.conflict = current]
        BY <3>4 DEF RestoreRecord
      <4>2. r.base \in V
        BY <1>9
      <4>3. /\ c \in BufferType /\ c.records = records /\ c.text = r.text
            /\ c.format = r.format /\ c.save = NoSave /\ ~c.closed /\ c.loaded /\ c.path = p
            /\ c.version = r.base /\ c.conflict = current
            /\ c.at_clean = restored.at_clean /\ c.clean_known = restored.clean_known
            /\ c.clean_text = restored.clean_text
        <5>1. c \in BufferType
          <6>1. new_file \in BOOLEAN /\ r.base \in Versions
            BY <2>1
          <6> QED BY <3>1, <4>1, <6>1 DEF BufferType
        <5>2. /\ c.text = restored.text /\ c.save = restored.save /\ c.version = r.base
              /\ c.records = restored.records /\ c.loaded = restored.loaded
              /\ c.closed = restored.closed /\ c.path = restored.path
              /\ c.format = restored.format /\ c.conflict = current
              /\ c.at_clean = restored.at_clean /\ c.clean_known = restored.clean_known
              /\ c.clean_text = restored.clean_text
          BY <2>6, <4>1 DEF BufferType
        <5> QED BY <2>6, <5>1, <5>2
      <4>4. CleanGood(c)
        BY <2>6, <3>1, <4>3, ValuesAssumption DEF CleanGood, Saving
      <4> QED BY <4>2, <4>3, <4>4
    <3> HIDE DEF agrees
    <3> QED BY <3>2, <3>3, <3>4
  <2>8. d.version = c.version /\ d.loaded /\ Contents(d) = Contents(c) /\ d.text = c.text
        /\ d.save = NoSave /\ d.path = p
    BY <2>7 DEF WriteRecord, BufferType, Contents
  <2>9. d = Opened(p, current, records)
    BY <1>1, <1>9
  <2>10. NamesGood(c, V)
    BY <1>7, <2>7, <2>8, <2>9 DEF Shown
  <2>11. Good(c, d, V)
    BY <2>7, <2>10, WriteRecordGood DEF Follows, Saving
  <2> QED BY <2>7, <2>8, <2>9, <2>11 DEF Good
<1> QED BY <1>8, <1>9

-----------------------------------------------------------------------------
\* The invariant across a step of the Client.

LEMMA ConcatElement ==
  ASSUME NEW S, NEW s \in Seq(S), NEW t \in Seq(S), NEW i \in DOMAIN (s \o t)
  PROVE  \/ \E j \in DOMAIN s : (s \o t)[i] = s[j]
         \/ \E j \in DOMAIN t : (s \o t)[i] = t[j]
<1>1. i \in 1..(Len(s) + Len(t)) /\ Len(s) \in Nat /\ Len(t) \in Nat
  OBVIOUS
<1>2. CASE i <= Len(s)
  BY <1>1, <1>2
<1>3. CASE i > Len(s)
  <2>1. (s \o t)[i] = t[i - Len(s)] /\ i - Len(s) \in DOMAIN t
    BY <1>1, <1>3
  <2> QED BY <2>1
<1> QED BY <1>1, <1>2, <1>3

LEMMA TailElement ==
  ASSUME NEW S, NEW s \in Seq(S), s # <<>>
  PROVE  /\ Head(s) = s[1] /\ s[1] \in S /\ 1 \in DOMAIN s /\ Tail(s) \in Seq(S)
         /\ \A i \in DOMAIN Tail(s) : i + 1 \in DOMAIN s /\ Tail(s)[i] = s[i + 1]
  OBVIOUS

\* A Client that has seen more has seen the names of a good Buffer.
LEMMA BufferGoodMonotone ==
  ASSUME NEW V, NEW W, NEW b, BufferGood(b, V), V \subseteq W
  PROVE  BufferGood(b, W)
  BY DEF BufferGood, NamesGood

\* The tokens of what is on its way are not fresh.
LEMMA InFlightIds ==
  ASSUME NEW id \in FreshIds
  PROVE  /\ \A i \in DOMAIN requests : requests[i].id # id
         /\ \A i \in DOMAIN replies : replies[i].request.id # id
         /\ \A r \in late : r.id # id
         /\ writing # NoWrite => writing.request.id # id
         /\ Saving(client) => client.save.id # id
  BY DEF FreshIds, InFlight, Saving

LEMMA StepStart ==
  ASSUME IInv, NEW b, NEW more, NEW known, ClientStep(b, more, known)
  PROVE  /\ Good(client, client, seen') /\ Missing \in seen' /\ seen \subseteq seen'
         /\ client \in BufferType /\ known \subseteq seen' /\ Shown(b) \subseteq seen'
<1>1. seen \subseteq seen' /\ known \subseteq seen' /\ Shown(b) \subseteq seen'
  BY DEF ClientStep
<1>2. BufferGood(client, seen) /\ client \in BufferType /\ Missing \in seen
  BY DEF IInv, BufferGood
<1> PICK c : c = client
  OBVIOUS
<1> PICK V : V = seen
  OBVIOUS
<1> PICK W : W = seen'
  OBVIOUS
<1>3. BufferGood(c, W)
  BY <1>1, <1>2, BufferGoodMonotone
<1>4. Follows(c, c, W)
  BY DEF Follows, SameSave
<1> QED BY <1>1, <1>2, <1>3, <1>4 DEF Good

\* Any step of the Client that leaves a good Buffer. A save's token is fresh when the save
\* starts, so no message and no result of before the step can be taken for the new save's.
LEMMA ClientStepKeeps ==
  ASSUME IInv, NEW b, NEW more \in Seq(RequestType), NEW known \in SUBSET Versions,
         ClientStep(b, more, known), BufferGood(b, seen'), b.loaded,
         Saving(b) => SameSave(client, b) \/ NewSave(client, b, seen'),
         \A i \in DOMAIN more : more[i].kind # "write",
         UNCHANGED <<late, writing, files, promised>>, moves' \in 0..MaxMoves,
         conn' \in {conn, "ready"}, replies' = replies \/ (replies # <<>> /\ replies' = Tail(replies))
  PROVE  IInv'
<1> DEFINE starts == Saving(b) /\ (Saving(client) => b.save.id # client.save.id)
           write == [kind |-> "write", id |-> b.save.id, path |-> b.save.path,
                     base |-> b.save.base, bytes |-> b.save.sent]
           first == IF starts THEN <<write>> ELSE <<>>
<1>1. /\ client' = b
      /\ requests' = requests \o first \o more
      /\ saves' = IF starts THEN [saves EXCEPT ![b.save.id] = Missing] ELSE saves
      /\ seen' = seen \cup known \cup Shown(b) \cup
                (IF ~starts THEN {}
                 ELSE IF Saving(client) /\ client.save.overwrite # Missing THEN {b.save.sent}
                 ELSE {b.save.sent, b.save.overwrite})
  BY DEF ClientStep
<1>2. /\ TypeOK /\ BufferGood(client, seen) /\ SaveGood(client, seen) /\ Missing \in seen
      /\ WritesGood /\ ResultsGood /\ ConnGood /\ WindowGood /\ PromiseGood
  BY DEF IInv
<1>3. b \in BufferType /\ (Saving(b) => b.save \in SaveType)
  BY DEF BufferGood, BufferType, Saving
<1>4. seen \subseteq seen' /\ Missing \in seen'
  BY <1>1, <1>2
<1>5. starts => NewSave(client, b, seen')
  BY DEF SameSave
<1>6. ~starts /\ Saving(b) => SameSave(client, b)
  <2>1. NewSave(client, b, seen') /\ Saving(client) => b.save.id # client.save.id
    BY InFlightIds DEF NewSave
  <2> QED BY <2>1
<1>7. starts => write \in WriteType
  BY <1>3 DEF SaveType, WriteType
<1>8. write.kind = "write" /\ write.base = b.save.base /\ write.bytes = b.save.sent
  OBVIOUS
<1> HIDE DEF write
<1>9. first \in Seq(RequestType)
  <2>1. CASE starts
    <3>1. write \in RequestType
      BY <1>7, <2>1 DEF RequestType
    <3>2. first = <<write>>
      BY <2>1
    <3> QED BY <3>1, <3>2
  <2>2. CASE ~starts
    BY <2>2
  <2> QED BY <2>1, <2>2
<1>10. SaveGood(client, seen)'
  <2>1. CASE starts
    BY <1>1, <1>5, <2>1 DEF SaveGood, NewSave, Saving
  <2>2. CASE ~starts
    BY <1>1, <1>2, <1>4, <1>6, <2>2 DEF SaveGood, SameSave, Saving
  <2> QED BY <2>1, <2>2
\* A message of before the step does not have the token of a new save.
<1>11. \A id : Saving(b) /\ b.save.id = id /\ id \notin FreshIds => SameSave(client, b)
  BY DEF NewSave
<1>12. \A r : WriteGood(r) /\ r.id \notin FreshIds => WriteGood(r)'
  BY <1>1, <1>4, <1>11 DEF WriteGood, SameSave, Saving
<1> HIDE DEF starts
<1>13. \A i \in DOMAIN replies' : \E k \in DOMAIN replies : replies'[i] = replies[k]
  <2> PICK old, new : old = replies /\ new = replies'
    OBVIOUS
  <2>1. old \in Seq(ReplyType)
    BY <1>2 DEF TypeOK
  <2>2. CASE old # <<>> /\ new = Tail(old)
    BY <2>1, <2>2, TailElement
  <2>3. CASE new = old
    BY <2>3
  <2> QED BY <2>2, <2>3
<1>14. TypeOK'
  <2>1. requests' \in Seq(RequestType)
    BY <1>1, <1>2, <1>9 DEF TypeOK
  <2>2. replies' \in Seq(ReplyType)
    BY <1>2, TailElement DEF TypeOK
  <2>3. saves' \in [SaveIds -> Bytes \cup {Missing}]
    BY <1>1, <1>2, <1>3 DEF TypeOK, SaveType
  <2>4. seen' \subseteq Versions
    <3>1. Shown(b) \subseteq Versions
      BY <1>3 DEF Shown, BufferType
    <3>2. starts => b.save.sent \in Versions /\ b.save.overwrite \in Versions
      BY <1>3 DEF starts, SaveType, Versions
    <3> QED BY <1>1, <1>2, <3>1, <3>2 DEF TypeOK
  <2> QED BY <1>1, <1>2, <1>3, <2>1, <2>2, <2>3, <2>4 DEF TypeOK
<1>15. WritesGood'
  <2>1. ASSUME NEW i \in DOMAIN requests'
        PROVE  WriteGood(requests[i])'
    <3> PICK r : r = requests'[i]
      OBVIOUS
    <3> PICK old : old = requests
      OBVIOUS
    <3>1. old \in Seq(RequestType)
      BY <1>2 DEF TypeOK
    <3>2. \/ \E k \in DOMAIN old : r = old[k]
          \/ \E k \in DOMAIN first : r = first[k]
          \/ \E k \in DOMAIN more : r = more[k]
      <4> PICK f : f = first
        OBVIOUS
      <4> HIDE DEF first
      <4>1. requests' = (old \o f) \o more /\ f \in Seq(RequestType) /\ old \o f \in Seq(RequestType)
        BY <1>1, <1>9, <3>1
      <4>2. \/ \E k \in DOMAIN (old \o f) : r = (old \o f)[k]
            \/ \E k \in DOMAIN more : r = more[k]
        BY <2>1, <4>1, ConcatElement
      <4> QED BY <3>1, <4>1, <4>2, ConcatElement
    <3>3. (\E k \in DOMAIN old : r = old[k]) => WriteGood(r)'
      BY <1>2, <1>12, InFlightIds DEF WritesGood
    <3>4. (\E k \in DOMAIN first : r = first[k]) => WriteGood(r)'
      <4>1. (\E k \in DOMAIN first : r = first[k]) => starts /\ r = write
        OBVIOUS
      <4>2. starts => WriteGood(write)'
        <5> PICK w : w = write
          OBVIOUS
        <5>1. starts => b.save.base \in seen'
          BY <1>1, <1>5, <1>10 DEF starts, SaveGood, NewSave, Saving
        <5>2. starts => WriteGood(w)'
          BY <1>1, <1>8, <5>1 DEF WriteGood
        <5> QED BY <5>2
      <4> QED BY <4>1, <4>2
    <3>5. (\E k \in DOMAIN more : r = more[k]) => WriteGood(r)'
      BY DEF WriteGood
    <3> QED BY <3>2, <3>3, <3>4, <3>5
  <2>2. ASSUME NEW i \in DOMAIN replies'
        PROVE  WriteGood(replies[i].request)'
    <3> PICK r : r = replies'[i].request
      OBVIOUS
    <3>1. \E k \in DOMAIN replies : r = replies[k].request
      BY <1>13, <2>2
    <3>2. WriteGood(r)'
      BY <1>2, <1>12, <3>1, InFlightIds DEF WritesGood
    <3> QED BY <3>2
  <2>3. ASSUME NEW r \in late
        PROVE  WriteGood(r)'
    BY <1>2, <1>12, InFlightIds DEF WritesGood
  <2>4. ASSUME writing # NoWrite
        PROVE  WriteGood(writing.request)'
    <3> PICK r : r = writing.request
      OBVIOUS
    <3>1. WriteGood(r)'
      BY <1>2, <1>12, <2>4, InFlightIds DEF WritesGood
    <3> QED BY <3>1
  <2> QED BY <2>1, <2>2, <2>3, <2>4 DEF WritesGood
<1>16. ResultsGood'
  <2>1. ASSUME NEW i \in DOMAIN replies'
        PROVE  ReplyGood(replies[i])'
    <3> PICK r : r = replies'[i]
      OBVIOUS
    <3>1. \E k \in DOMAIN replies : r = replies[k]
      BY <1>13, <2>1
    <3>2. ReplyGood(r) /\ r.request.id \notin FreshIds
      BY <1>2, <3>1, InFlightIds DEF ResultsGood
    <3>3. ReplyGood(r)'
      BY <1>1, <1>11, <3>2 DEF ReplyGood, SameSave, Saving
    <3> QED BY <3>3
  <2>2. Saving(b) => saves'[b.save.id] \in {Missing, b.save.sent}
    <3>1. CASE starts
      BY <1>1, <1>2, <1>3, <3>1 DEF starts, TypeOK, SaveType
    <3>2. CASE ~starts
      BY <1>1, <1>2, <1>6, <3>2 DEF ResultsGood, SameSave
    <3> QED BY <3>1, <3>2
  <2> QED BY <1>1, <2>1, <2>2 DEF ResultsGood, Saving
<1>17. ConnGood' /\ WindowGood' /\ PromiseGood'
  BY <1>1, <1>2, TailElement DEF ConnGood, WindowGood, PromiseGood, TypeOK
<1> QED BY <1>1, <1>4, <1>10, <1>14, <1>15, <1>16, <1>17 DEF IInv

\* The same, and what the step does to the records.
LEMMA GoodStepKeeps ==
  ASSUME IInv, NEW b, NEW more \in Seq(RequestType), NEW known \in SUBSET Versions,
         ClientStep(b, more, known), Good(client, b, seen'), client.loaded,
         \A i \in DOMAIN more : more[i].kind # "write",
         UNCHANGED <<late, writing, files, promised>>, moves' \in 0..MaxMoves,
         conn' \in {conn, "ready"}, replies' = replies \/ (replies # <<>> /\ replies' = Tail(replies))
  PROVE  IInv' /\ RecordsStay
<1>1. BufferGood(b, seen') /\ b.loaded
      /\ (Saving(b) => SameSave(client, b) \/ NewSave(client, b, seen'))
  BY DEF Good, Follows
<1>2. RecordsStay
  <2>1. client' = b
    BY DEF ClientStep
  <2> QED BY <2>1 DEF Good, Follows, RecordsStay
<1> QED BY <1>1, <1>2, ClientStepKeeps

LEMMA MoveBound == ASSUME IInv, Move PROVE moves' \in 0..MaxMoves
  BY BoundsAssumption DEF IInv, TypeOK, Move

\* A step of the user: no further requests, no change of the connection.
LEMMA UserStepKeeps ==
  ASSUME IInv, NEW b, NEW known \in SUBSET Versions, ClientStep(b, <<>>, known),
         Good(client, b, seen'), client.loaded, moves' \in 0..MaxMoves,
         UNCHANGED <<conn, replies, late, writing, files, promised>>
  PROVE  IInv' /\ RecordsStay
<1> PICK more : more = <<>>
  OBVIOUS
<1>1. more \in Seq(RequestType) /\ \A i \in DOMAIN more : more[i].kind # "write"
  OBVIOUS
<1>2. ClientStep(b, more, known)
  OBVIOUS
<1> QED BY <1>1, <1>2, GoodStepKeeps

LEMMA PlainStepKeeps ==
  ASSUME IInv, NEW b, ClientStep(b, <<>>, {}),
         Good(client, b, seen'), client.loaded, moves' \in 0..MaxMoves,
         UNCHANGED <<conn, replies, late, writing, files, promised>>
  PROVE  IInv' /\ RecordsStay
<1> PICK known : known = {}
  OBVIOUS
<1>1. ClientStep(b, <<>>, known) /\ known \in SUBSET Versions
  OBVIOUS
<1> QED BY <1>1, UserStepKeeps

LEMMA EditInv == ASSUME IInv, NEW t \in Texts, Edit(t) PROVE IInv' /\ RecordsStay
<1> PICK o : o = client
  OBVIOUS
<1> PICK V : V = seen'
  OBVIOUS
<1> PICK b : b = Changed(o, t, FALSE)
  OBVIOUS
<1>1. ClientStep(b, <<>>, {}) /\ client.loaded
  BY DEF Edit, Alive
<1>2. Good(o, o, V)
  BY <1>1, StepStart
<1>3. Good(o, b, V)
  BY <1>2, ChangedGood
<1>4. moves' \in 0..MaxMoves /\ UNCHANGED <<conn, replies, late, writing, files, promised>>
  BY MoveBound DEF Edit, Machine
<1> QED BY <1>1, <1>3, <1>4, PlainStepKeeps

LEMMA UndoToCleanInv == ASSUME IInv, UndoToClean PROVE IInv' /\ RecordsStay
<1> PICK o : o = client
  OBVIOUS
<1> PICK V : V = seen'
  OBVIOUS
<1> PICK b : b = Changed(o, o.clean_text, TRUE)
  OBVIOUS
<1>1. ClientStep(b, <<>>, {}) /\ client.loaded
  BY DEF UndoToClean, Alive
<1>2. Good(o, o, V) /\ o \in BufferType
  BY <1>1, StepStart
<1>3. o.clean_text \in Texts /\ o.clean_known
  BY <1>2 DEF BufferType, UndoToClean
<1>4. Good(o, b, V)
  BY <1>2, <1>3, ChangedGood
<1>5. moves' \in 0..MaxMoves /\ UNCHANGED <<conn, replies, late, writing, files, promised>>
  BY MoveBound DEF UndoToClean, Machine
<1> QED BY <1>1, <1>4, <1>5, PlainStepKeeps

LEMMA SetFormatInv == ASSUME IInv, NEW f \in Formats, SetFormat(f) PROVE IInv' /\ RecordsStay
<1> PICK o : o = client
  OBVIOUS
<1> PICK V : V = seen'
  OBVIOUS
<1> PICK b : b = [o EXCEPT !.format = f]
  OBVIOUS
<1>1. ClientStep(b, <<>>, {}) /\ client.loaded
  BY DEF SetFormat, Alive
<1>2. Good(o, o, V)
  BY <1>1, StepStart
<1>3. Good(o, b, V)
  BY <1>2, FormatGood
<1>4. moves' \in 0..MaxMoves /\ UNCHANGED <<conn, replies, late, writing, files, promised>>
  BY MoveBound DEF SetFormat, Machine
<1> QED BY <1>1, <1>3, <1>4, PlainStepKeeps

LEMMA SaveInv == ASSUME IInv, NEW p \in Paths, Save(p) PROVE IInv' /\ RecordsStay
<1> PICK o : o = client
  OBVIOUS
<1> PICK V : V = seen'
  OBVIOUS
<1> PICK plain : plain = (p = o.path)
  OBVIOUS
<1> PICK online : online = Online
  OBVIOUS
<1> PICK b : b = RequestSave(o, p, plain, online)
  OBVIOUS
<1>1. ClientStep(b, <<>>, {}) /\ client.loaded /\ FreshIds # {}
  BY DEF Save, Alive
<1>2. Good(o, o, V) /\ Missing \in V /\ plain \in BOOLEAN /\ online \in BOOLEAN
  BY <1>1, StepStart DEF Online
<1>3. Good(o, b, V)
  BY <1>1, <1>2, RequestSaveGood
<1>4. moves' \in 0..MaxMoves /\ UNCHANGED <<conn, replies, late, writing, files, promised>>
  BY MoveBound DEF Save, Machine
<1> QED BY <1>1, <1>3, <1>4, PlainStepKeeps

LEMMA AcceptAndSaveInv == ASSUME IInv, AcceptAndSave PROVE IInv' /\ RecordsStay
<1> PICK o : o = client
  OBVIOUS
<1> PICK V : V = seen'
  OBVIOUS
<1> PICK online : online = Online
  OBVIOUS
<1> PICK a : a = [o EXCEPT !.version = o.conflict, !.conflict = NoConflict, !.accepted = TRUE]
  OBVIOUS
<1> PICK p : p = o.path
  OBVIOUS
<1> PICK b : b = RequestSave(a, p, TRUE, online)
  OBVIOUS
<1> PICK known : known = {o.conflict}
  OBVIOUS
<1>1. ClientStep(b, <<>>, known) /\ client.loaded /\ FreshIds # {} /\ o.conflict # NoConflict
  BY DEF AcceptAndSave, Alive
<1>2. Good(o, o, V) /\ Missing \in V /\ online \in BOOLEAN /\ known \subseteq V /\ o \in BufferType
  BY <1>1, StepStart DEF Online
<1>3. o.conflict \in Versions /\ o.conflict \in V /\ known \in SUBSET Versions /\ p \in Paths
  BY <1>1, <1>2 DEF BufferType
<1>4. Good(o, a, V)
  <2>1. a \in BufferType
    BY <1>2, <1>3 DEF BufferType
  <2>2. CleanGood(a) /\ RecordGood(a) /\ NamesGood(a, V)
    BY <1>2, <1>3
    DEF Good, BufferGood, BufferType, CleanGood, RecordGood, NamesGood, Saving
  <2>3. Follows(o, a, V)
    BY <1>2 DEF Good, BufferGood, BufferType, Follows, SameSave, NewSave, Saving
  <2> QED BY <2>1, <2>2, <2>3 DEF Good, BufferGood
<1>5. Good(o, b, V)
  BY <1>1, <1>2, <1>3, <1>4, RequestSaveGood
<1>6. moves' \in 0..MaxMoves /\ UNCHANGED <<conn, replies, late, writing, files, promised>>
  BY MoveBound DEF AcceptAndSave, Machine
<1> QED BY <1>1, <1>3, <1>5, <1>6, UserStepKeeps

LEMMA ReloadFieldGood ==
  ASSUME NEW V, NEW o, NEW b, NEW r \in {"none", "current", "stale"}, Good(o, b, V)
  PROVE  Good(o, [b EXCEPT !.reload = r], V)
<1> PICK c : c = [b EXCEPT !.reload = r] OBVIOUS
<1>1. c \in BufferType
  BY DEF Good, BufferGood, BufferType
<1>2. CleanGood(c) /\ RecordGood(c) /\ NamesGood(c, V)
  BY DEF Good, BufferGood, BufferType, CleanGood, RecordGood, NamesGood, Saving
<1>3. Follows(o, c, V)
  BY DEF Good, BufferGood, BufferType, Follows, SameSave, NewSave, Saving
<1> QED BY <1>1, <1>2, <1>3 DEF Good, BufferGood

LEMMA OneRead ==
  ASSUME NEW kind \in {"check", "reload", "result", "resolve"}, NEW id, NEW p \in Paths,
         id = "none" \/ kind \in {"result", "resolve"}, id \in SaveIds \/ kind \in {"check", "reload"}
  PROVE  LET more == <<Read(kind, id, p)>>
         IN more \in Seq(RequestType) /\ \A i \in DOMAIN more : more[i].kind # "write"
<1>1. Read(kind, id, p) \in RequestType /\ Read(kind, id, p).kind = kind
  BY DEF Read, RequestType
<1> PICK r : r = Read(kind, id, p)
  OBVIOUS
<1>2. <<r>> \in Seq(RequestType) /\ \A i \in DOMAIN <<r>> : <<r>>[i] = r
  BY <1>1
<1> QED BY <1>1, <1>2

LEMMA ReloadInv == ASSUME IInv, Reload PROVE IInv' /\ RecordsStay
<1> PICK o : o = client
  OBVIOUS
<1> PICK V : V = seen'
  OBVIOUS
<1> PICK b : b = [o EXCEPT !.reload = "current"]
  OBVIOUS
<1> PICK p : p = o.path
  OBVIOUS
<1> PICK known : known = {}
  OBVIOUS
<1> PICK more : more = <<Read("reload", "none", p)>>
  OBVIOUS
<1>1. ClientStep(b, more, known) /\ known \in SUBSET Versions /\ client.loaded
  BY DEF Reload, Alive
<1>2. Good(o, o, V) /\ o \in BufferType
  BY <1>1, StepStart
<1>3. Good(o, b, V) /\ p \in Paths
  BY <1>2, ReloadFieldGood DEF BufferType
<1>4. more \in Seq(RequestType) /\ \A i \in DOMAIN more : more[i].kind # "write"
  BY <1>3, OneRead
<1>5. moves' \in 0..MaxMoves /\ UNCHANGED <<conn, replies, late, writing, files, promised>>
  BY MoveBound DEF Reload, Machine
<1> QED BY <1>1, <1>3, <1>4, <1>5, GoodStepKeeps

LEMMA CloseInv == ASSUME IInv, Close PROVE IInv' /\ RecordsStay
<1> PICK o : o = client
  OBVIOUS
<1> PICK V : V = seen'
  OBVIOUS
<1> PICK b : b = [o EXCEPT !.closed = TRUE, !.due = FALSE, !.records[o.path] = NoRecord]
  OBVIOUS
<1>1. ClientStep(b, <<>>, {}) /\ client.loaded
  BY DEF Close, Alive
<1>2. Good(o, o, V) /\ o \in BufferType
  BY <1>1, StepStart
<1>3. b \in BufferType /\ b.loaded = o.loaded
  BY <1>2 DEF BufferType
<1>4. CleanGood(b) /\ RecordGood(b) /\ NamesGood(b, V)
  BY <1>2 DEF Good, BufferGood, BufferType, CleanGood, RecordGood, NamesGood, Saving
<1>5. Saving(b) => SameSave(o, b)
  BY <1>2 DEF BufferType, Saving, SameSave
<1>6. BufferGood(b, V)
  BY <1>3, <1>4 DEF BufferGood
<1> PICK known : known = {}
  OBVIOUS
<1> PICK more : more = <<>>
  OBVIOUS
<1>7. more \in Seq(RequestType) /\ \A i \in DOMAIN more : more[i].kind # "write"
  OBVIOUS
<1>8. ClientStep(b, more, known) /\ known \in SUBSET Versions
  BY <1>1
<1>9. moves' \in 0..MaxMoves /\ UNCHANGED <<conn, replies, late, writing, files, promised>>
  BY MoveBound DEF Close, Machine
<1>10. BufferGood(b, seen') /\ b.loaded
      /\ (Saving(b) => SameSave(client, b) \/ NewSave(client, b, seen'))
  BY <1>1, <1>3, <1>5, <1>6
<1>11. RecordsStay
  <2>1. client' = b
    BY <1>1 DEF ClientStep
  <2> QED BY <1>2, <2>1 DEF RecordsStay, BufferType
<1> QED BY <1>7, <1>8, <1>10, <1>11, <1>9, ClientStepKeeps

LEMMA RecordDueInv == ASSUME IInv, RecordDue PROVE IInv' /\ RecordsStay
<1> PICK o : o = client
  OBVIOUS
<1> PICK V : V = seen'
  OBVIOUS
<1> PICK w : w = WriteRecord(o)
  OBVIOUS
<1> PICK b : b = [w EXCEPT !.due = FALSE]
  OBVIOUS
<1>1. ClientStep(b, <<>>, {}) /\ client.loaded
  BY DEF RecordDue
<1>2. Good(o, o, V) /\ o \in BufferType /\ Missing \in V /\ seen \subseteq V
  BY <1>1, StepStart
<1>3. Saving(o) => o.save.sent \in V
  BY <1>2 DEF IInv, SaveGood
<1>4. Good(o, w, V)
  BY <1>2, <1>3, WriteRecordGood DEF Good, BufferGood
<1>5. b \in BufferType
  BY <1>4 DEF Good, BufferGood, BufferType
<1>6. CleanGood(b) /\ NamesGood(b, V)
  BY <1>4 DEF Good, BufferGood, BufferType, CleanGood, NamesGood, Saving
<1>7. RecordGood(b)
  <2>1. CASE o.closed
    BY <1>4, <2>1 DEF Good, BufferGood, BufferType, RecordGood, Follows
  <2>2. CASE ~o.closed
    <3> DEFINE r == [text |-> o.text, format |-> o.format, base |-> o.version,
                     sent |-> IF Saving(o) /\ o.save.same THEN o.save.sent ELSE Missing]
    <3>1. r \in RecordType
      BY <1>2 DEF BufferType, RecordType, SaveType, Saving, Versions
    <3>2. r # NoRecord /\ r.text = o.text
      BY <3>1, ValuesAssumption
    <3>3. w = [o EXCEPT !.records[o.path] = IF Dirty(o) \/ Saving(o) THEN r ELSE NoRecord]
      BY <2>2 DEF WriteRecord
    <3> HIDE DEF r
    <3>4. /\ b.at_clean = o.at_clean /\ b.save = o.save /\ b.text = o.text /\ b.path = o.path
          /\ Dirty(o) \/ Saving(o) => b.records[b.path] = r
      BY <1>2, <3>3 DEF BufferType
    <3> QED BY <3>2, <3>4 DEF RecordGood, Saving, Dirty
  <2> QED BY <2>1, <2>2
<1>8. Follows(o, b, V)
  BY <1>4 DEF Good, BufferGood, BufferType, Follows, SameSave, NewSave, Saving
<1>9. Good(o, b, V)
  BY <1>5, <1>6, <1>7, <1>8 DEF Good, BufferGood
<1>10. moves' \in 0..MaxMoves
  BY DEF RecordDue, IInv, TypeOK
<1> QED BY <1>1, <1>9, <1>10, PlainStepKeeps DEF RecordDue, Machine

-----------------------------------------------------------------------------
\* The replies.

LEMMA ReplyFacts ==
  ASSUME IInv, NEW kind, Gets(kind)
  PROVE  /\ Reply \in ReplyType /\ Reply.request.kind = kind /\ replies # <<>>
         /\ WriteGood(Reply.request) /\ ReplyGood(Reply) /\ client.loaded
<1>1. TypeOK /\ WritesGood /\ ResultsGood /\ ConnGood
  BY DEF IInv
<1>2. replies \in Seq(ReplyType) /\ replies # <<>>
  BY <1>1 DEF Gets, TypeOK
<1>3. Reply = replies[1] /\ 1 \in DOMAIN replies /\ Reply \in ReplyType
  BY <1>2, TailElement DEF Reply
<1>4. WriteGood(replies[1].request) /\ ReplyGood(replies[1])
  BY <1>1, <1>3 DEF WritesGood, ResultsGood
<1>5. client.loaded
  BY <1>1, <1>2 DEF ConnGood
<1> QED BY <1>2, <1>3, <1>4, <1>5 DEF Gets

\* The step that takes a reply.
LEMMA AnsweredKeeps ==
  ASSUME IInv, NEW b, NEW more \in Seq(RequestType), Answered(b, more), replies # <<>>,
         \A i \in DOMAIN more : more[i].kind # "write", Good(client, b, seen'), client.loaded
  PROVE  IInv' /\ RecordsStay
<1> PICK known : known = {}
  OBVIOUS
<1>1. ClientStep(b, more, known) /\ known \in SUBSET Versions
  BY DEF Answered
<1>2. /\ UNCHANGED <<late, writing, files, promised>> /\ conn' \in {conn, "ready"}
      /\ replies' = Tail(replies)
  BY DEF Answered, Machine
<1>3. moves' \in 0..MaxMoves
  BY DEF Answered, IInv, TypeOK
<1> QED BY <1>1, <1>2, <1>3, GoodStepKeeps

LEMMA PlainAnsweredKeeps ==
  ASSUME IInv, NEW b, Answered(b, <<>>), replies # <<>>, Good(client, b, seen'), client.loaded
  PROVE  IInv' /\ RecordsStay
<1> PICK more : more = <<>>
  OBVIOUS
<1>1. more \in Seq(RequestType) /\ \A i \in DOMAIN more : more[i].kind # "write"
  OBVIOUS
<1>2. Answered(b, more)
  OBVIOUS
<1> QED BY <1>1, <1>2, AnsweredKeeps

\* What the invariant says of the open save.
LEMMA OpenSave ==
  ASSUME IInv, Saving(client)
  PROVE  /\ client.save \in SaveType /\ client.save.sent \in seen /\ client.save.overwrite \in seen
         /\ ~client.save.edited => client.text = client.save.sent[1]
  BY DEF IInv, BufferGood, BufferType, CleanGood, SaveGood, Saving

LEMMA WriteReplyInv == ASSUME IInv, WriteReply PROVE IInv' /\ RecordsStay
<1> PICK o : o = client
  OBVIOUS
<1> PICK V : V = seen'
  OBVIOUS
<1> PICK r : r = Reply
  OBVIOUS
<1> PICK request : request = o.save
  OBVIOUS
<1> PICK b : b = IF ~Saving(o) \/ request.id # r.request.id THEN o
                 ELSE CASE r.code = "ok" -> FinishSaved(o, request, r.version, TRUE)
                        [] r.code = "conflict" -> FinishConflict(o, request, r.version, TRUE)
                        [] OTHER -> SaveAgain(Ended(o), request, TRUE, TRUE)
  OBVIOUS
<1>1. Gets("write") /\ Answered(b, <<>>) /\ FreshIds # {}
  BY DEF WriteReply, Answered
<1>2. /\ r \in ReplyType /\ r.request.kind = "write" /\ replies # <<>> /\ client.loaded
      /\ WriteGood(r.request) /\ ReplyGood(r)
  BY <1>1, ReplyFacts
<1>3. ClientStep(b, <<>>, {})
  BY <1>1 DEF Answered
<1>4. Good(o, o, V) /\ Missing \in V /\ seen \subseteq V /\ o \in BufferType
  BY <1>3, StepStart
<1>5. Good(o, b, V)
  <2>1. CASE ~Saving(o) \/ request.id # r.request.id
    BY <1>4, <2>1
  <2>2. CASE Saving(o) /\ request.id = r.request.id
    <3>1. /\ request \in SaveType /\ request.sent \in V
          /\ ~request.edited => o.text = request.sent[1]
      BY <1>4, <2>2, OpenSave
    <3>2. CASE r.code = "ok"
      <4>1. r.version = request.sent
        BY <1>2, <2>2, <3>2 DEF WriteGood, ReplyGood
      <4>2. Good(o, FinishSaved(o, request, request.sent, TRUE), V)
        BY <1>1, <1>4, <3>1, FinishSavedGood
      <4> QED BY <2>2, <3>2, <4>1, <4>2
    <3>3. CASE r.code = "conflict"
      <4>1. r.version \in Versions
        BY <1>2 DEF ReplyType
      <4>2. Good(o, FinishConflict(o, request, r.version, TRUE), V)
        BY <1>1, <1>4, <3>1, <4>1, FinishConflictGood
      <4> QED BY <2>2, <3>3, <4>2
    <3>4. CASE r.code # "ok" /\ r.code # "conflict"
      <4> PICK e : e = Ended(o)
        OBVIOUS
      <4>1. Good(o, e, V)
        BY <1>4, EndedGood
      <4>2. Good(o, SaveAgain(e, request, TRUE, TRUE), V)
        BY <1>1, <1>4, <3>1, <4>1, SaveAgainGood
      <4> QED BY <2>2, <3>4, <4>2
    <3> QED BY <3>2, <3>3, <3>4
  <2> QED BY <2>1, <2>2
<1> QED BY <1>1, <1>2, <1>5, PlainAnsweredKeeps

LEMMA ResultReplyInv == ASSUME IInv, ResultReply PROVE IInv' /\ RecordsStay
<1> PICK o : o = client
  OBVIOUS
<1> PICK V : V = seen'
  OBVIOUS
<1> PICK r : r = Reply
  OBVIOUS
<1> PICK request : request = o.save
  OBVIOUS
<1> PICK finished : finished = FinishSaved(o, request, r.version, TRUE)
  OBVIOUS
<1>1. Gets("result")
  BY DEF ResultReply
<1>2. /\ r \in ReplyType /\ r.request.kind = "result" /\ replies # <<>> /\ client.loaded
      /\ ReplyGood(r)
  BY <1>1, ReplyFacts
<1>3. IF ~Saving(o) \/ request.id # r.request.id THEN Answered(o, <<>>)
      ELSE IF r.code = "unknown_save"
      THEN Answered(o, <<Read("resolve", request.id, request.path)>>)
      ELSE Answered(finished, IF Saving(finished) THEN <<>>
                              ELSE <<Read("check", "none", finished.path)>>)
  BY DEF ResultReply
<1>4. ASSUME NEW b, NEW more, Answered(b, more)
      PROVE  Good(o, o, V) /\ Missing \in V /\ seen \subseteq V /\ o \in BufferType /\ FreshIds # {}
  BY <1>4, StepStart DEF Answered
<1>5. CASE ~Saving(o) \/ request.id # r.request.id
  BY <1>2, <1>3, <1>4, <1>5, PlainAnsweredKeeps
<1>6. CASE Saving(o) /\ request.id = r.request.id /\ r.code = "unknown_save"
  <2> PICK more : more = <<Read("resolve", request.id, request.path)>>
    OBVIOUS
  <2>1. Answered(o, more)
    BY <1>3, <1>6
  <2>2. request \in SaveType
    BY <1>6, OpenSave
  <2>3. more \in Seq(RequestType) /\ \A i \in DOMAIN more : more[i].kind # "write"
    BY <2>2, OneRead DEF SaveType
  <2> QED BY <1>2, <1>4, <2>1, <2>3, AnsweredKeeps
<1>7. CASE Saving(o) /\ request.id = r.request.id /\ r.code # "unknown_save"
  <2> PICK more : more = IF Saving(finished) THEN <<>>
                         ELSE <<Read("check", "none", finished.path)>>
    OBVIOUS
  <2>1. Answered(finished, more)
    BY <1>3, <1>7
  <2>2. /\ request \in SaveType /\ request.sent \in seen
        /\ ~request.edited => o.text = request.sent[1]
    BY <1>7, OpenSave
  <2>3. r.version = request.sent
    BY <1>2, <1>7 DEF ReplyGood, ReplyType
  <2>4. Good(o, FinishSaved(o, request, request.sent, TRUE), V)
    BY <1>4, <2>1, <2>2, FinishSavedGood
  <2>5. Good(o, finished, V)
    BY <2>3, <2>4
  <2>6. more \in Seq(RequestType) /\ \A i \in DOMAIN more : more[i].kind # "write"
    <3>1. CASE Saving(finished)
      BY <3>1
    <3>2. CASE ~Saving(finished)
      <4> PICK p : p = finished.path
        OBVIOUS
      <4>1. p \in Paths
        BY <2>5 DEF Good, BufferGood, BufferType
      <4>2. more = <<Read("check", "none", p)>>
        BY <3>2
      <4> QED BY <4>1, <4>2, OneRead
    <3> QED BY <3>1, <3>2
  <2> QED BY <1>2, <2>1, <2>5, <2>6, AnsweredKeeps
<1> QED BY <1>5, <1>6, <1>7

LEMMA ResolveReplyInv == ASSUME IInv, ResolveReply PROVE IInv' /\ RecordsStay
<1> PICK o : o = client
  OBVIOUS
<1> PICK V : V = seen'
  OBVIOUS
<1> PICK r : r = Reply
  OBVIOUS
<1> PICK b : b = IF ~Saving(o) \/ o.save.id # r.request.id \/ r.code = "failed" THEN o
                 ELSE ResolveByVersion(o, r.version)
  OBVIOUS
<1>1. Gets("resolve") /\ Answered(b, <<>>) /\ FreshIds # {}
  BY DEF ResolveReply, Answered
<1>2. r \in ReplyType /\ replies # <<>> /\ client.loaded
  BY <1>1, ReplyFacts
<1>3. ClientStep(b, <<>>, {})
  BY <1>1 DEF Answered
<1>4. Good(o, o, V) /\ Missing \in V /\ seen \subseteq V /\ o \in BufferType
  BY <1>3, StepStart
<1>5. Good(o, b, V)
  <2>1. CASE ~Saving(o) \/ o.save.id # r.request.id \/ r.code = "failed"
    BY <1>4, <2>1
  <2>2. CASE Saving(o) /\ b = ResolveByVersion(o, r.version)
    <3>1. o.save.sent \in V /\ o.save.overwrite \in V
      BY <1>4, <2>2, OpenSave
    <3>2. r.version \in Versions
      BY <1>2 DEF ReplyType
    <3>3. Good(o, ResolveByVersion(o, r.version), V)
      BY <1>1, <1>4, <2>2, <3>1, <3>2, ResolveByVersionGood
    <3> QED BY <2>2, <3>3
  <2> QED BY <2>1, <2>2
<1> QED BY <1>1, <1>2, <1>5, PlainAnsweredKeeps

LEMMA CheckReplyInv == ASSUME IInv, CheckReply PROVE IInv' /\ RecordsStay
<1> PICK o : o = client
  OBVIOUS
<1> PICK V : V = seen'
  OBVIOUS
<1> PICK r : r = Reply
  OBVIOUS
<1> PICK b : b = IF r.code = "failed" THEN o ELSE CheckFile(o, r.version)
  OBVIOUS
<1>1. Gets("check") /\ Answered(b, <<>>) /\ FreshIds # {}
  BY DEF CheckReply, Answered
<1>2. r \in ReplyType /\ replies # <<>> /\ client.loaded
  BY <1>1, ReplyFacts
<1>3. ClientStep(b, <<>>, {})
  BY <1>1 DEF Answered
<1>4. Good(o, o, V) /\ Missing \in V /\ o \in BufferType /\ Shown(b) \subseteq V
  BY <1>3, StepStart
<1>5. Good(o, b, V)
  <2>1. CASE r.code = "failed"
    BY <1>4, <2>1
  <2>2. CASE r.code # "failed"
    <3>1. r.version \in Versions
      BY <1>2 DEF ReplyType
    <3>2. ASSUME ~Saving(o), r.version # o.version, r.version # Missing, ~Dirty(o)
          PROVE  r.version \in V
      <4>1. r.version \in Bytes
        BY <3>1, <3>2 DEF Versions
      <4>2. b = ApplyFile(o, r.version)
        BY <2>2, <3>2 DEF CheckFile
      <4>3. Contents(b) = r.version /\ b.version = r.version /\ b.loaded
        BY <1>2, <1>4, <4>1, <4>2, ApplyFileShows
      <4> QED BY <1>4, <4>3 DEF Shown
    <3>3. Good(o, CheckFile(o, r.version), V)
      BY <1>1, <1>4, <3>1, <3>2, CheckFileGood
    <3> QED BY <2>2, <3>3
  <2> QED BY <2>1, <2>2
<1> QED BY <1>1, <1>2, <1>5, PlainAnsweredKeeps

LEMMA ReloadReplyInv == ASSUME IInv, ReloadReply PROVE IInv' /\ RecordsStay
<1> PICK o : o = client
  OBVIOUS
<1> PICK V : V = seen'
  OBVIOUS
<1> PICK r : r = Reply
  OBVIOUS
<1> PICK a : a = IF o.reload = "current" /\ r.code = "ok" /\ r.version # Missing
                 THEN ApplyFile(o, r.version) ELSE o
  OBVIOUS
<1> PICK b : b = [a EXCEPT !.reload = "none"]
  OBVIOUS
<1>1. Gets("reload") /\ Answered(b, <<>>)
  BY DEF ReloadReply
<1>2. r \in ReplyType /\ replies # <<>> /\ client.loaded
  BY <1>1, ReplyFacts
<1>3. ClientStep(b, <<>>, {})
  BY <1>1 DEF Answered
<1>4. Good(o, o, V) /\ o \in BufferType /\ Shown(b) \subseteq V
  BY <1>3, StepStart
<1>5. Good(o, a, V)
  <2>1. CASE a = o
    BY <1>4, <2>1
  <2>2. CASE a = ApplyFile(o, r.version) /\ r.version # Missing
    <3>1. r.version \in Bytes
      BY <1>2, <2>2 DEF ReplyType, Versions
    <3>2. Contents(a) = r.version /\ a.version = r.version /\ a.loaded
      BY <1>2, <1>4, <2>2, <3>1, ApplyFileShows
    <3>3. Contents(b) = Contents(a) /\ b.version = a.version /\ b.loaded = a.loaded
      BY DEF Contents
    <3>4. r.version \in V
      BY <1>4, <3>2, <3>3 DEF Shown
    <3> QED BY <1>4, <2>2, <3>1, <3>4, ApplyFileGood
  <2> QED BY <2>1, <2>2
<1>6. Good(o, b, V)
  BY <1>5, ReloadFieldGood
<1> QED BY <1>1, <1>2, <1>6, PlainAnsweredKeeps

-----------------------------------------------------------------------------
\* The server.

\* A step that does not touch the Buffer.
LEMMA ServerKeeps ==
  ASSUME IInv, UNCHANGED <<client, promised, seen>>,
         TypeOK', WritesGood', ResultsGood', ConnGood', WindowGood'
  PROVE  IInv'
<1> PICK c : c = client
  OBVIOUS
<1> PICK V : V = seen
  OBVIOUS
<1>1. BufferGood(c, V) /\ SaveGood(c, V)
  BY DEF IInv
<1>2. PromiseGood'
  BY DEF IInv, PromiseGood
<1>3. BufferGood(client, seen)' /\ SaveGood(client, seen)'
  BY <1>1
<1> QED BY <1>2, <1>3 DEF IInv

LEMMA SameGood ==
  ASSUME UNCHANGED <<client, seen>>
  PROVE  \A r : (WriteGood(r) => WriteGood(r)') /\ (ReplyGood(r) => ReplyGood(r)')
  BY DEF WriteGood, ReplyGood, Saving

LEMMA AppendElement ==
  ASSUME NEW S, NEW s \in Seq(S), NEW e \in S
  PROVE  /\ Append(s, e) \in Seq(S)
         /\ \A i \in DOMAIN Append(s, e) : Append(s, e)[i] = e \/ \E k \in DOMAIN s : Append(s, e)[i] = s[k]
<1>1. ASSUME NEW i \in DOMAIN Append(s, e)
      PROVE  Append(s, e)[i] = e \/ \E k \in DOMAIN s : Append(s, e)[i] = s[k]
  <2>1. i \in 1..(Len(s) + 1) /\ Len(s) \in Nat
    OBVIOUS
  <2>2. CASE i = Len(s) + 1
    BY <2>2
  <2>3. CASE i \in 1..Len(s)
    BY <2>3
  <2> QED BY <2>1, <2>2, <2>3
<1> QED BY <1>1

\* The replies after an answer, or without one, when the rest does not change.
LEMMA AnswerKeeps ==
  ASSUME IInv, UNCHANGED <<client, seen>>, NEW r,
         replies' = replies \/ (replies' = Append(replies, r) /\ r \in ReplyType
                                /\ WriteGood(r.request) /\ ReplyGood(r))
  PROVE  /\ replies' \in Seq(ReplyType)
         /\ \A i \in DOMAIN replies' : WriteGood(replies[i].request)' /\ ReplyGood(replies[i])'
<1>1. replies \in Seq(ReplyType)
  BY DEF IInv, TypeOK
<1>2. \A i \in DOMAIN replies : WriteGood(replies[i].request) /\ ReplyGood(replies[i])
  BY DEF IInv, WritesGood, ResultsGood
<1> PICK old, new : old = replies /\ new = replies'
  OBVIOUS
<1>3. new \in Seq(ReplyType)
  BY <1>1, AppendElement
<1>4. ASSUME NEW i \in DOMAIN new
      PROVE  WriteGood(replies[i].request)' /\ ReplyGood(replies[i])'
  <2> PICK a : a = new[i]
    OBVIOUS
  <2> PICK q : q = a.request
    OBVIOUS
  <2>1. a = r \/ \E k \in DOMAIN old : a = old[k]
    <3>1. CASE new = old
      BY <3>1
    <3>2. CASE new = Append(old, r) /\ r \in ReplyType
      BY <1>1, <3>2, AppendElement
    <3> QED BY <3>1, <3>2
  <2>2. WriteGood(q) /\ ReplyGood(a)
    <3>1. CASE new = old
      BY <1>2, <1>4, <3>1
    <3>2. CASE new = Append(old, r) /\ WriteGood(r.request) /\ ReplyGood(r)
      BY <1>2, <2>1, <3>2
    <3> QED BY <3>1, <3>2
  <2>3. WriteGood(q)' /\ ReplyGood(a)'
    BY <2>2, SameGood
  <2> QED BY <2>3
<1> QED BY <1>3, <1>4

\* The server's check of a write.
LEMMA BeginWriteKeeps ==
  ASSUME IInv, NEW r \in WriteType, NEW lost \in BOOLEAN, BeginWrite(r, lost), WriteGood(r),
         writing = NoWrite, ~lost => conn = "ready",
         UNCHANGED <<client, conn, saves, files, moves, promised, seen>>,
         requests' \in Seq(RequestType), \A i \in DOMAIN requests' : WriteGood(requests[i])',
         late' \subseteq late
  PROVE  IInv' /\ RecordsStay
<1> PICK a : a = [request |-> r, code |-> "conflict", version |-> files[r.path]]
  OBVIOUS
<1> PICK w : w = [request |-> r, lost |-> lost, race |-> FALSE]
  OBVIOUS
<1>1. TypeOK /\ WritesGood /\ ResultsGood /\ ConnGood
  BY DEF IInv
<1>2. a \in ReplyType /\ w \in WritingType /\ a.request = r /\ a.code = "conflict"
  BY <1>1 DEF TypeOK, ReplyType, RequestType, WriteType, WritingType
<1>3. \/ writing' = w /\ replies' = replies /\ files[r.path] = r.base
      \/ writing' = writing /\ replies' = replies
      \/ writing' = writing /\ ~lost /\ replies' = Append(replies, a)
  BY DEF BeginWrite, Answer
<1>4. WriteGood(a.request) /\ ReplyGood(a)
  BY <1>2 DEF ReplyGood, WriteType
<1>5. /\ replies' \in Seq(ReplyType)
      /\ \A i \in DOMAIN replies' : WriteGood(replies[i].request)' /\ ReplyGood(replies[i])'
  <2>1. replies' = replies \/ replies' = Append(replies, a)
    BY <1>3
  <2> QED BY <1>2, <1>4, <2>1, AnswerKeeps
<1>6. w.request = r /\ w.lost = lost /\ w # NoWrite
  BY <1>2, ValuesAssumption
<1>7. TypeOK'
  BY <1>1, <1>2, <1>3, <1>5 DEF TypeOK
<1>8. WritesGood'
  <2>1. ASSUME NEW q \in late'
        PROVE  WriteGood(q)'
    BY <1>1, <2>1, SameGood DEF WritesGood
  <2>2. ASSUME writing' # NoWrite
        PROVE  WriteGood(writing.request)'
    <3>1. writing'.request = r
      BY <1>3, <1>6, <2>2
    <3>2. WriteGood(r)'
      BY SameGood
    <3> QED BY <3>1, <3>2
  <2> QED BY <1>5, <2>1, <2>2 DEF WritesGood
<1>9. ResultsGood'
  BY <1>1, <1>5 DEF ResultsGood, Saving
<1>10. ConnGood'
  BY <1>1, <1>3, <1>6 DEF ConnGood
<1>11. WindowGood'
  BY <1>3, <1>6 DEF WindowGood
<1> QED BY <1>7, <1>8, <1>9, <1>10, <1>11, ServerKeeps DEF RecordsStay

LEMMA HeadRequest ==
  ASSUME IInv, requests # <<>>
  PROVE  /\ Head(requests) \in RequestType /\ WriteGood(Head(requests))
         /\ Tail(requests) \in Seq(RequestType)
         /\ \A i \in DOMAIN Tail(requests) : WriteGood(Tail(requests)[i])
<1>1. requests \in Seq(RequestType) /\ \A i \in DOMAIN requests : WriteGood(requests[i])
  BY DEF IInv, TypeOK, WritesGood
<1> QED BY <1>1, TailElement

LEMMA RestRequests ==
  ASSUME IInv, requests # <<>>, requests' = Tail(requests), UNCHANGED <<client, seen>>
  PROVE  requests' \in Seq(RequestType) /\ \A i \in DOMAIN requests' : WriteGood(requests[i])'
<1>1. requests' \in Seq(RequestType) /\ \A i \in DOMAIN requests' : WriteGood(requests'[i])
  BY HeadRequest
<1>2. ASSUME NEW i \in DOMAIN requests'
      PROVE  WriteGood(requests[i])'
  <2> PICK r : r = requests'[i]
    OBVIOUS
  <2>1. WriteGood(r)'
    BY <1>1, <1>2, SameGood
  <2> QED BY <2>1
<1> QED BY <1>1, <1>2

LEMMA SameRequests ==
  ASSUME IInv, UNCHANGED <<client, seen, requests>>
  PROVE  requests' \in Seq(RequestType) /\ \A i \in DOMAIN requests' : WriteGood(requests[i])'
<1>1. requests' \in Seq(RequestType) /\ \A i \in DOMAIN requests' : WriteGood(requests'[i])
  BY DEF IInv, TypeOK, WritesGood
<1>2. ASSUME NEW i \in DOMAIN requests'
      PROVE  WriteGood(requests[i])'
  <2> PICK r : r = requests'[i]
    OBVIOUS
  <2>1. WriteGood(r)'
    BY <1>1, <1>2, SameGood
  <2> QED BY <2>1
<1> QED BY <1>1, <1>2

LEMMA ServeWriteInv == ASSUME IInv, ServeWrite PROVE IInv' /\ RecordsStay
<1> PICK r : r = Head(requests)
  OBVIOUS
<1>1. /\ conn = "ready" /\ requests # <<>> /\ r.kind = "write" /\ writing = NoWrite
      /\ requests' = Tail(requests) /\ BeginWrite(r, FALSE)
      /\ UNCHANGED <<client, conn, late, saves, files, moves, promised, seen>>
  BY DEF ServeWrite
<1>2. r \in WriteType /\ WriteGood(r)
  BY <1>1, HeadRequest DEF RequestType
<1>3. requests' \in Seq(RequestType) /\ \A i \in DOMAIN requests' : WriteGood(requests[i])'
  BY <1>1, RestRequests
<1> QED BY <1>1, <1>2, <1>3, BeginWriteKeeps

LEMMA ServeLateWriteInv == ASSUME IInv, ServeLateWrite PROVE IInv' /\ RecordsStay
<1>1. PICK r \in late : late' = late \ {r} /\ BeginWrite(r, TRUE)
  BY DEF ServeLateWrite
<1>2. writing = NoWrite /\ UNCHANGED <<client, conn, requests, saves, files, moves, promised, seen>>
  BY DEF ServeLateWrite
<1>3. r \in WriteType /\ WriteGood(r)
  BY DEF IInv, TypeOK, WritesGood
<1>4. requests' \in Seq(RequestType) /\ \A i \in DOMAIN requests' : WriteGood(requests[i])'
  BY <1>2, SameRequests
<1> QED BY <1>1, <1>2, <1>3, <1>4, BeginWriteKeeps

LEMMA FinishWriteInv == ASSUME IInv, FinishWrite PROVE IInv' /\ RecordsStay
<1> PICK r : r = writing.request
  OBVIOUS
<1> PICK ok : ok = [request |-> r, code |-> "ok", version |-> r.bytes]
  OBVIOUS
<1> PICK failed : failed = [request |-> r, code |-> "failed", version |-> Missing]
  OBVIOUS
<1>1. TypeOK /\ WritesGood /\ ResultsGood /\ ConnGood
  BY DEF IInv
<1>2. /\ writing # NoWrite /\ writing' = NoWrite
      /\ UNCHANGED <<client, conn, requests, late, moves, promised, seen>>
      /\ \/ /\ files' = [files EXCEPT ![r.path] = r.bytes]
            /\ saves' = [saves EXCEPT ![r.id] = r.bytes]
            /\ replies' = replies \/ (~writing.lost /\ replies' = Append(replies, ok))
         \/ /\ files' = files /\ saves' = saves
            /\ replies' = replies \/ (~writing.lost /\ replies' = Append(replies, failed))
  BY DEF FinishWrite, Answer
<1>3. writing \in WritingType /\ r \in WriteType /\ WriteGood(r)
  BY <1>1, <1>2 DEF TypeOK, WritingType, WritesGood
<1>4. /\ r.kind = "write" /\ r.id \in SaveIds /\ r.path \in Paths /\ r.bytes \in Bytes
      /\ r.bytes \in Versions /\ r \in RequestType
  BY <1>3 DEF WriteType, Versions, RequestType
<1>5. ok \in ReplyType /\ ok.request = r /\ ok.version = r.bytes
  BY <1>4 DEF ReplyType
<1>6. failed \in ReplyType /\ failed.request = r /\ failed.code = "failed"
  BY <1>4 DEF ReplyType, Versions
<1>7. ReplyGood(ok) /\ ReplyGood(failed)
  BY <1>4, <1>5, <1>6 DEF ReplyGood
<1>8. /\ replies' \in Seq(ReplyType)
      /\ \A i \in DOMAIN replies' : WriteGood(replies[i].request)' /\ ReplyGood(replies[i])'
  <2>1. CASE replies' = replies \/ replies' = Append(replies, ok)
    BY <1>2, <1>3, <1>5, <1>7, <2>1, AnswerKeeps
  <2>2. CASE replies' = Append(replies, failed)
    BY <1>2, <1>3, <1>6, <1>7, <2>2, AnswerKeeps
  <2> QED BY <1>2, <2>1, <2>2
<1>9. requests' \in Seq(RequestType) /\ \A i \in DOMAIN requests' : WriteGood(requests[i])'
  BY <1>2, SameRequests
<1>10. TypeOK'
  <2>1. saves' \in [SaveIds -> Bytes \cup {Missing}]
    BY <1>1, <1>2, <1>4 DEF TypeOK
  <2>2. files' \in [Paths -> Versions]
    BY <1>1, <1>2, <1>4 DEF TypeOK
  <2> QED BY <1>1, <1>2, <1>8, <2>1, <2>2 DEF TypeOK
<1>11. WritesGood'
  <2>1. ASSUME NEW q \in late'
        PROVE  WriteGood(q)'
    BY <1>1, <1>2, <2>1, SameGood DEF WritesGood
  <2> QED BY <1>2, <1>8, <1>9, <2>1 DEF WritesGood
<1>12. ResultsGood'
  <2>1. Saving(client) => saves'[client.save.id] \in {Missing, client.save.sent}
    <3>1. Saving(client) => client.save.id \in SaveIds
      BY <1>1 DEF TypeOK, BufferType, SaveType, Saving
    <3>2. saves' = saves \/ saves' = [saves EXCEPT ![r.id] = r.bytes]
      BY <1>2
    <3> QED BY <1>1, <1>3, <1>4, <3>1, <3>2 DEF TypeOK, ResultsGood, WriteGood
  <2> QED BY <1>2, <1>8, <2>1 DEF ResultsGood, Saving
<1>13. ConnGood' /\ WindowGood'
  BY <1>1, <1>2 DEF ConnGood, WindowGood
<1> QED BY <1>2, <1>10, <1>11, <1>12, <1>13, ServerKeeps DEF RecordsStay

LEMMA ServeReadInv == ASSUME IInv, ServeRead PROVE IInv' /\ RecordsStay
<1> PICK r : r = Head(requests)
  OBVIOUS
<1>1. /\ conn = "ready" /\ requests # <<>> /\ r.kind # "write" /\ writing = NoWrite
      /\ requests' = Tail(requests)
      /\ UNCHANGED <<client, conn, late, writing, files, saves, moves, promised, seen>>
  BY DEF ServeRead, Machine
<1>2. TypeOK /\ WritesGood /\ ResultsGood /\ ConnGood
  BY DEF IInv
<1>3. r \in RequestType /\ WriteGood(r) /\ r.path \in Paths /\ (r.kind = "result" => r.id \in SaveIds)
  BY <1>1, HeadRequest DEF RequestType, WriteType
<1>4. \E code \in {"ok", "failed", "unknown_save"}, v \in Versions :
        /\ r.kind = "result" => /\ code \in {"ok", "unknown_save"}
                                /\ code = "ok" => v = saves[r.id] /\ v # Missing
        /\ replies' = Append(replies, [request |-> r, code |-> code, version |-> v])
  <2>1. CASE r.kind = "result"
    <3>1. saves[r.id] \in Versions
      BY <1>2, <1>3, <2>1 DEF TypeOK, Versions
    <3>2. replies' = Append(replies, [request |-> r, version |-> saves[r.id],
                       code |-> IF saves[r.id] = Missing THEN "unknown_save" ELSE "ok"])
      BY <2>1 DEF ServeRead, Answer
    <3> QED BY <3>1, <3>2
  <2>2. CASE r.kind # "result"
    <3>1. files[r.path] \in Versions /\ Missing \in Versions
      BY <1>2, <1>3 DEF TypeOK, Versions
    <3>2. \/ replies' = Append(replies, [request |-> r, code |-> "ok", version |-> files[r.path]])
          \/ replies' = Append(replies, [request |-> r, code |-> "failed", version |-> Missing])
      BY <2>2 DEF ServeRead, Answer
    <3> QED BY <2>2, <3>1, <3>2
  <2> QED BY <2>1, <2>2
<1>5. PICK code \in {"ok", "failed", "unknown_save"}, v \in Versions :
        /\ r.kind = "result" => /\ code \in {"ok", "unknown_save"}
                                /\ code = "ok" => v = saves[r.id] /\ v # Missing
        /\ replies' = Append(replies, [request |-> r, code |-> code, version |-> v])
  BY <1>4
<1> PICK a : a = [request |-> r, code |-> code, version |-> v]
  OBVIOUS
<1>6. a \in ReplyType /\ a.request = r /\ a.code = code /\ a.version = v
  BY <1>3 DEF ReplyType
<1>7. ReplyGood(a)
  BY <1>1, <1>2, <1>5, <1>6 DEF ReplyGood, ResultsGood
<1>8. /\ replies' \in Seq(ReplyType)
      /\ \A i \in DOMAIN replies' : WriteGood(replies[i].request)' /\ ReplyGood(replies[i])'
  BY <1>1, <1>3, <1>5, <1>6, <1>7, AnswerKeeps
<1>9. requests' \in Seq(RequestType) /\ \A i \in DOMAIN requests' : WriteGood(requests[i])'
  BY <1>1, RestRequests
<1>10. TypeOK'
  BY <1>1, <1>2, <1>8, <1>9 DEF TypeOK
<1>11. WritesGood'
  <2>1. ASSUME NEW q \in late'
        PROVE  WriteGood(q)'
    BY <1>1, <1>2, <2>1, SameGood DEF WritesGood
  <2> QED BY <1>1, <1>8, <1>9, <2>1 DEF WritesGood
<1>12. ResultsGood' /\ ConnGood' /\ WindowGood'
  BY <1>1, <1>2, <1>8 DEF ResultsGood, Saving, ConnGood, WindowGood
<1> QED BY <1>1, <1>10, <1>11, <1>12, ServerKeeps DEF RecordsStay

LEMMA SameReplies ==
  ASSUME IInv, UNCHANGED <<client, seen, replies>>
  PROVE  /\ replies' \in Seq(ReplyType)
         /\ \A i \in DOMAIN replies' : WriteGood(replies[i].request)' /\ ReplyGood(replies[i])'
<1> PICK r : r = Reply
  OBVIOUS
<1> QED BY AnswerKeeps

LEMMA ForgetSaveInv == ASSUME IInv, NEW id \in SaveIds, ForgetSave(id) PROVE IInv' /\ RecordsStay
<1>1. /\ saves' = [saves EXCEPT ![id] = Missing] /\ moves' \in 0..MaxMoves
      /\ UNCHANGED <<client, conn, requests, replies, late, writing, files, promised, seen>>
  BY MoveBound DEF ForgetSave, Machine
<1>2. TypeOK /\ WritesGood /\ ResultsGood /\ ConnGood /\ WindowGood
  BY DEF IInv
<1>3. /\ replies' \in Seq(ReplyType)
      /\ \A i \in DOMAIN replies' : WriteGood(replies[i].request)' /\ ReplyGood(replies[i])'
  BY <1>1, SameReplies
<1>4. requests' \in Seq(RequestType) /\ \A i \in DOMAIN requests' : WriteGood(requests[i])'
  BY <1>1, SameRequests
<1>5. TypeOK'
  BY <1>1, <1>2, <1>3, <1>4 DEF TypeOK
<1>6. WritesGood'
  <2>1. ASSUME NEW q \in late'
        PROVE  WriteGood(q)'
    BY <1>1, <1>2, <2>1, SameGood DEF WritesGood
  <2>2. ASSUME writing' # NoWrite
        PROVE  WriteGood(writing.request)'
    BY <1>1, <1>2, <2>2 DEF WritesGood, WriteGood, Saving
  <2> QED BY <1>3, <1>4, <2>1, <2>2 DEF WritesGood
<1>7. ResultsGood'
  <2>1. Saving(client) => saves'[client.save.id] \in {Missing, client.save.sent}
    BY <1>1, <1>2 DEF TypeOK, BufferType, SaveType, Saving, ResultsGood
  <2> QED BY <1>1, <1>3, <2>1 DEF ResultsGood, Saving
<1>8. ConnGood' /\ WindowGood'
  BY <1>1, <1>2 DEF ConnGood, WindowGood
<1> QED BY <1>1, <1>5, <1>6, <1>7, <1>8, ServerKeeps DEF RecordsStay

LEMMA ExternalWriteInv ==
  ASSUME IInv, NEW p \in Paths, NEW v \in Versions, ExternalWrite(p, v)
  PROVE  IInv' /\ RecordsStay
<1>1. /\ files' = [files EXCEPT ![p] = v] /\ moves' \in 0..MaxMoves
      /\ writing' = IF writing # NoWrite /\ writing.request.path = p
                    THEN [writing EXCEPT !.race = TRUE] ELSE writing
      /\ UNCHANGED <<client, conn, requests, replies, late, saves, promised, seen>>
  BY MoveBound DEF ExternalWrite
<1>2. TypeOK /\ WritesGood /\ ResultsGood /\ ConnGood /\ WindowGood
  BY DEF IInv
<1>3. /\ replies' \in Seq(ReplyType)
      /\ \A i \in DOMAIN replies' : WriteGood(replies[i].request)' /\ ReplyGood(replies[i])'
  BY <1>1, SameReplies
<1>4. requests' \in Seq(RequestType) /\ \A i \in DOMAIN requests' : WriteGood(requests[i])'
  BY <1>1, SameRequests
<1>5. \/ writing = NoWrite /\ writing' = NoWrite
      \/ /\ writing \in WritingType /\ writing' \in WritingType /\ writing # NoWrite
         /\ writing'.request = writing.request /\ writing'.lost = writing.lost
         /\ writing'.race \/ (writing' = writing /\ writing.request.path # p)
  BY <1>1, <1>2 DEF TypeOK, WritingType
<1>6. TypeOK'
  <2>1. files' \in [Paths -> Versions] /\ writing' \in WritingType \cup {NoWrite}
    BY <1>1, <1>2, <1>5 DEF TypeOK
  <2> QED BY <1>1, <1>2, <1>3, <1>4, <2>1 DEF TypeOK
<1>7. WritesGood'
  <2>1. ASSUME NEW q \in late'
        PROVE  WriteGood(q)'
    BY <1>1, <1>2, <2>1, SameGood DEF WritesGood
  <2>2. ASSUME writing' # NoWrite
        PROVE  WriteGood(writing.request)'
    <3> PICK r : r = writing.request
      OBVIOUS
    <3>1. writing # NoWrite /\ writing'.request = r
      BY <1>5, <2>2
    <3>2. WriteGood(r)'
      BY <1>1, <1>2, <3>1, SameGood DEF WritesGood
    <3> QED BY <3>1, <3>2
  <2> QED BY <1>3, <1>4, <2>1, <2>2 DEF WritesGood
<1>8. ResultsGood' /\ ConnGood'
  BY <1>1, <1>2, <1>3, <1>5 DEF ResultsGood, ConnGood, Saving
<1>9. WindowGood'
  BY <1>1, <1>2, <1>5 DEF WindowGood, TypeOK, WritingType, WriteType
<1> QED BY <1>1, <1>6, <1>7, <1>8, <1>9, ServerKeeps DEF RecordsStay

-----------------------------------------------------------------------------
\* The connection.

\* A Client with the same save, or with none, and more that it has seen.
LEMMA SameTokens ==
  ASSUME NEW b, client' = b, seen \subseteq seen',
         Saving(b) => Saving(client) /\ b.save.id = client.save.id /\ b.save.sent = client.save.sent
  PROVE  \A r : (WriteGood(r) => WriteGood(r)') /\ (ReplyGood(r) => ReplyGood(r)')
  BY DEF WriteGood, ReplyGood, Saving

\* A lost connection, with or without the server or the Client.
LEMMA LoseKeeps ==
  ASSUME IInv, moves' \in 0..MaxMoves, requests' = <<>>, replies' = <<>>, conn' = "waiting",
         NEW b, client' = b, BufferGood(b, seen), SaveGood(b, seen),
         Saving(b) => Saving(client) /\ b.save.id = client.save.id /\ b.save.sent = client.save.sent,
         late' = {} \/ (\E sent \in CanArriveLate : late' = late \cup sent),
         writing' = NoWrite \/ (writing # NoWrite /\ writing' = [writing EXCEPT !.lost = TRUE]),
         saves' = saves \/ saves' = [id \in SaveIds |-> Missing],
         UNCHANGED <<files, seen>>, promised' \in PromiseType \cup {NoRecord}, PromiseGood'
  PROVE  IInv'
<1>1. TypeOK /\ WritesGood /\ ResultsGood /\ ConnGood /\ WindowGood /\ Missing \in seen
  BY DEF IInv
<1>2. requests' = <<>> /\ replies' = <<>> /\ moves' \in 0..MaxMoves
  OBVIOUS
<1>3. \A r \in late' : r \in WriteType /\ WriteGood(r)
  <2>1. ASSUME NEW sent \in CanArriveLate, NEW r \in sent
        PROVE  r \in WriteType /\ WriteGood(r)
    <3>1. \E i \in DOMAIN requests : r = requests[i] /\ r.kind = "write"
      BY <2>1 DEF CanArriveLate
    <3> QED BY <1>1, <3>1 DEF TypeOK, WritesGood, RequestType
  <2> QED BY <1>1, <2>1 DEF TypeOK, WritesGood
<1>4. \A r : WriteGood(r) => WriteGood(r)'
  BY SameTokens
<1>5. \/ writing' = NoWrite
      \/ /\ writing \in WritingType /\ writing' \in WritingType /\ writing # NoWrite
         /\ writing'.request = writing.request /\ writing'.lost /\ writing'.race = writing.race
  BY <1>1 DEF TypeOK, WritingType
<1>6. TypeOK'
  <2>1. saves' \in [SaveIds -> Bytes \cup {Missing}]
    BY <1>1 DEF TypeOK
  <2>2. client' \in BufferType /\ late' \subseteq WriteType /\ writing' \in WritingType \cup {NoWrite}
    BY <1>3, <1>5 DEF BufferGood
  <2> QED BY <1>1, <1>2, <2>1, <2>2 DEF TypeOK
<1>7. WritesGood'
  <2>1. ASSUME NEW q \in late'
        PROVE  WriteGood(q)'
    BY <1>3, <1>4, <2>1
  <2>2. ASSUME writing' # NoWrite
        PROVE  WriteGood(writing.request)'
    <3> PICK r : r = writing.request
      OBVIOUS
    <3>1. writing # NoWrite /\ writing'.request = r
      BY <1>5, <2>2
    <3>2. WriteGood(r)'
      BY <1>1, <1>4, <3>1 DEF WritesGood
    <3> QED BY <3>1, <3>2
  <2> QED BY <1>2, <2>1, <2>2 DEF WritesGood
<1>8. ResultsGood'
  <2>1. Saving(b) => saves'[b.save.id] \in {Missing, b.save.sent}
    <3>1. Saving(b) => b.save.id \in SaveIds
      BY DEF BufferGood, BufferType, SaveType, Saving
    <3> QED BY <1>1, <3>1 DEF ResultsGood
  <2> QED BY <1>2, <2>1 DEF ResultsGood, Saving
<1>9. ConnGood' /\ WindowGood'
  BY <1>1, <1>2, <1>5 DEF ConnGood, WindowGood
<1>10. BufferGood(client, seen)' /\ SaveGood(client, seen)' /\ Missing \in seen'
  <2> PICK V : V = seen
    OBVIOUS
  <2>1. BufferGood(b, V) /\ SaveGood(b, V)
    OBVIOUS
  <2> QED BY <1>1, <2>1
<1> QED BY <1>6, <1>7, <1>8, <1>9, <1>10 DEF IInv

LEMMA DisconnectedGood ==
  ASSUME NEW V, NEW o, NEW b, Good(o, b, V)
  PROVE  /\ Good(o, Disconnected(b), V)
         /\ Saving(Disconnected(b)) =>
              /\ Saving(b) /\ Disconnected(b).save.id = b.save.id
              /\ Disconnected(b).save.sent = b.save.sent /\ Disconnected(b).save.base = b.save.base
              /\ Disconnected(b).save.overwrite = b.save.overwrite
         /\ Disconnected(b).loaded = b.loaded
<1> PICK save : save = IF b.save = NoSave THEN NoSave ELSE [b.save EXCEPT !.unknown = TRUE]
  OBVIOUS
<1> PICK c : c = Disconnected(b)
  OBVIOUS
<1>1. b \in BufferType
  BY DEF Good, BufferGood
<1>2. c = [b EXCEPT !.save = save, !.reload = "none"]
  BY DEF Disconnected
<1>3. /\ save \in SaveType \cup {NoSave}
      /\ save # NoSave => /\ b.save # NoSave /\ save.id = b.save.id /\ save.sent = b.save.sent
                          /\ save.base = b.save.base /\ save.overwrite = b.save.overwrite
                          /\ save.edited = b.save.edited
  BY <1>1 DEF BufferType, SaveType
<1>4. c \in BufferType /\ c.save = save
  BY <1>1, <1>2, <1>3 DEF BufferType
<1>5. CleanGood(c) /\ RecordGood(c) /\ NamesGood(c, V)
  BY <1>1, <1>2, <1>3, <1>4
  DEF Good, BufferGood, BufferType, CleanGood, RecordGood, NamesGood, Saving
<1>6. Follows(o, c, V) /\ c.loaded = b.loaded
  BY <1>1, <1>2, <1>3, <1>4 DEF Good, BufferType, Follows, SameSave, NewSave, Saving
<1> QED BY <1>3, <1>4, <1>5, <1>6 DEF Good, BufferGood, Saving

\* What the invariant says of the Buffer.
LEMMA StateGood ==
  ASSUME IInv
  PROVE  Good(client, client, seen) /\ client \in BufferType /\ SaveGood(client, seen) /\ Missing \in seen
<1>1. BufferGood(client, seen) /\ SaveGood(client, seen) /\ Missing \in seen
  BY DEF IInv
<1>2. Follows(client, client, seen)
  BY DEF Follows, SameSave
<1> QED BY <1>1, <1>2 DEF Good, BufferGood

LEMMA LostClient ==
  ASSUME IInv, NEW b, b = Disconnected(client)
  PROVE  /\ BufferGood(b, seen) /\ SaveGood(b, seen) /\ Follows(client, b, seen)
         /\ Saving(b) => Saving(client) /\ b.save.id = client.save.id /\ b.save.sent = client.save.sent
<1> PICK o : o = client
  OBVIOUS
<1> PICK V : V = seen
  OBVIOUS
<1>1. Good(o, o, V) /\ SaveGood(o, V)
  BY StateGood
<1>2. Good(o, Disconnected(o), V)
  BY <1>1, DisconnectedGood
<1>3. Saving(b) =>
              /\ Saving(o) /\ b.save.id = o.save.id
              /\ b.save.sent = o.save.sent /\ b.save.base = o.save.base
              /\ b.save.overwrite = o.save.overwrite
  BY <1>1, DisconnectedGood
<1> QED BY <1>1, <1>2, <1>3 DEF Good, SaveGood

LEMMA DropInv == ASSUME IInv, Drop PROVE IInv' /\ RecordsStay
<1> PICK b : b = Disconnected(client)
  OBVIOUS
<1>1. /\ Lose /\ conn' = "waiting" /\ client' = b /\ UNCHANGED <<saves, files, promised, seen>>
      /\ \E sent \in CanArriveLate : late' = late \cup sent
      /\ writing' = IF writing = NoWrite THEN NoWrite ELSE [writing EXCEPT !.lost = TRUE]
  BY DEF Drop
<1>2. /\ BufferGood(b, seen) /\ SaveGood(b, seen) /\ Follows(client, b, seen)
      /\ Saving(b) => Saving(client) /\ b.save.id = client.save.id /\ b.save.sent = client.save.sent
  BY LostClient
<1>3. /\ client.loaded /\ promised \in PromiseType \cup {NoRecord}
      /\ moves' \in 0..MaxMoves /\ requests' = <<>> /\ replies' = <<>>
  BY <1>1, MoveBound DEF IInv, ConnGood, Lose, TypeOK
<1>4. PromiseGood'
  BY <1>1, <1>2, <1>3 DEF PromiseGood, Follows
<1>5. RecordsStay
  BY <1>1, <1>2 DEF Follows, RecordsStay
<1> QED BY <1>1, <1>2, <1>3, <1>4, <1>5, LoseKeeps

LEMMA RestartInv == ASSUME IInv, Restart PROVE IInv' /\ RecordsStay
<1> PICK b : b = Disconnected(client)
  OBVIOUS
<1>1. /\ Lose /\ conn' = "waiting" /\ client' = b /\ UNCHANGED <<files, promised, seen>>
      /\ late' = {} /\ writing' = NoWrite /\ saves' = [id \in SaveIds |-> Missing]
  BY DEF Restart
<1>2. /\ BufferGood(b, seen) /\ SaveGood(b, seen) /\ Follows(client, b, seen)
      /\ Saving(b) => Saving(client) /\ b.save.id = client.save.id /\ b.save.sent = client.save.sent
  BY LostClient
<1>3. /\ client.loaded /\ promised \in PromiseType \cup {NoRecord}
      /\ moves' \in 0..MaxMoves /\ requests' = <<>> /\ replies' = <<>>
  BY <1>1, MoveBound DEF IInv, ConnGood, Lose, TypeOK
<1>4. PromiseGood'
  BY <1>1, <1>2, <1>3 DEF PromiseGood, Follows
<1>5. RecordsStay
  BY <1>1, <1>2 DEF Follows, RecordsStay
<1> QED BY <1>1, <1>2, <1>3, <1>4, <1>5, LoseKeeps

LEMMA CrashInv == ASSUME IInv, Crash PROVE IInv' /\ RecordsStay
<1> PICK o : o = client
  OBVIOUS
<1> PICK b : b = [o EXCEPT !.loaded = FALSE]
  OBVIOUS
<1> PICK promise : promise = IF o.closed \/ o.due \/ (o.at_clean /\ ~Saving(o)) THEN NoRecord
                             ELSE [path |-> o.path, text |-> o.text]
  OBVIOUS
<1>1. /\ moves' \in 0..MaxMoves /\ conn' = "waiting" /\ requests' = <<>> /\ replies' = <<>>
      /\ client' = b /\ promised' = promise /\ UNCHANGED <<saves, files, seen>>
      /\ \E sent \in CanArriveLate : late' = late \cup sent
      /\ writing' = IF writing = NoWrite THEN NoWrite ELSE [writing EXCEPT !.lost = TRUE]
  BY MoveBound DEF Crash
<1>2. BufferGood(o, seen) /\ SaveGood(o, seen) /\ o \in BufferType
  BY DEF IInv, BufferGood
<1>3. b \in BufferType
  BY <1>2 DEF BufferType
<1>4. /\ b.path = o.path /\ b.text = o.text /\ b.records = o.records /\ b.save = o.save
      /\ b.version = o.version /\ b.closed = o.closed /\ b.due = o.due
      /\ b.at_clean = o.at_clean /\ b.clean_known = o.clean_known /\ b.clean_text = o.clean_text
      /\ b.new_file = o.new_file /\ b.conflict = o.conflict /\ b.accepted = o.accepted
  BY <1>2 DEF BufferType
<1>5. BufferGood(b, seen) /\ SaveGood(b, seen)
  <2>1. CleanGood(b)
    BY <1>2, <1>4 DEF BufferGood, CleanGood, Saving
  <2>2. RecordGood(b) /\ NamesGood(b, seen)
    BY <1>2, <1>4 DEF BufferGood, RecordGood, NamesGood, Saving
  <2>3. SaveGood(b, seen)
    BY <1>2, <1>4 DEF SaveGood, Saving
  <2> QED BY <1>3, <2>1, <2>2, <2>3 DEF BufferGood
<1>6. promise \in PromiseType \cup {NoRecord}
  BY <1>2 DEF PromiseType, BufferType
<1>7. PromiseGood'
  <2>1. CASE promise = NoRecord
    BY <1>1, <2>1 DEF PromiseGood
  <2>2. CASE promise # NoRecord
    <3>1. ~o.closed /\ ~o.due /\ (~o.at_clean \/ Saving(o))
      BY <2>2
    <3>2. promise.path = o.path /\ promise.text = o.text
      BY <2>2
    <3>3. o.records[o.path] # NoRecord /\ o.records[o.path].text = o.text
      BY <1>2, <3>1 DEF BufferGood, RecordGood
    <3> QED BY <1>1, <1>4, <3>2, <3>3 DEF PromiseGood
  <2> QED BY <2>1, <2>2
<1> QED BY <1>1, <1>4, <1>5, <1>6, <1>7, LoseKeeps DEF RecordsStay, Saving

LEMMA ConnectInv == ASSUME IInv, Connect PROVE IInv' /\ RecordsStay
<1>1. /\ client.loaded /\ conn = "waiting" /\ conn' = "connecting"
      /\ UNCHANGED <<client, requests, replies, late, writing, files, saves, moves, promised, seen>>
  BY DEF Connect, Machine
<1>2. TypeOK /\ WritesGood /\ ResultsGood /\ ConnGood /\ WindowGood
  BY DEF IInv
<1>3. TypeOK'
  BY <1>1, <1>2 DEF TypeOK
<1>4. WritesGood'
  BY <1>1, <1>2 DEF WritesGood, WriteGood, Saving
<1>5. ResultsGood'
  BY <1>1, <1>2 DEF ResultsGood, ReplyGood, Saving
<1>6. ConnGood' /\ WindowGood'
  BY <1>1, <1>2 DEF ConnGood, WindowGood
<1> QED BY <1>1, <1>3, <1>4, <1>5, <1>6, ServerKeeps DEF RecordsStay

LEMMA ConnectFailsInv == ASSUME IInv, ConnectFails PROVE IInv' /\ RecordsStay
<1> PICK o : o = client
  OBVIOUS
<1> PICK V : V = seen
  OBVIOUS
<1> PICK a : a = IF Saving(o) /\ ~o.save.unknown THEN FinishOffline(o, o.save) ELSE o
  OBVIOUS
<1> PICK b : b = [a EXCEPT !.reload = "none"]
  OBVIOUS
<1>1. /\ conn = "connecting" /\ moves' \in 0..MaxMoves /\ conn' = "waiting" /\ requests' = <<>>
      /\ client' = b
      /\ UNCHANGED <<replies, late, writing, files, saves, promised, seen>>
  BY MoveBound DEF ConnectFails, Machine
<1>2. TypeOK /\ WritesGood /\ ResultsGood /\ ConnGood /\ WindowGood
  BY DEF IInv
<1>3. Good(o, o, V) /\ o \in BufferType /\ SaveGood(o, V) /\ Missing \in V
  BY StateGood
<1>4. Good(o, a, V) /\ (Saving(a) => a = o)
  <2>1. CASE Saving(o) /\ a = FinishOffline(o, o.save)
    <3>1. o.save \in SaveType
      BY <1>3, <2>1 DEF BufferType, Saving
    <3>2. Good(o, FinishOffline(o, o.save), V) /\ ~Saving(FinishOffline(o, o.save))
      BY <1>3, <3>1, FinishOfflineGood
    <3> QED BY <2>1, <3>2
  <2>2. CASE a = o
    BY <1>3, <2>2
  <2> QED BY <2>1, <2>2
<1>5. Good(o, b, V)
  BY <1>4, ReloadFieldGood
<1>6. b.save = a.save /\ b.loaded = o.loaded
  BY <1>4, <1>5 DEF Good, BufferGood, BufferType, Follows
<1>7. Saving(b) => /\ Saving(o) /\ b.save.id = o.save.id /\ b.save.sent = o.save.sent
                   /\ b.save = o.save
  BY <1>4, <1>6 DEF Saving
<1>8. client.loaded /\ replies = <<>> /\ (writing # NoWrite => writing.lost)
  BY <1>1, <1>2 DEF ConnGood
<1>9. \A r : (WriteGood(r) => WriteGood(r)')
  BY <1>1, <1>7, SameTokens
<1>10. TypeOK'
  BY <1>1, <1>2, <1>5 DEF TypeOK, Good, BufferGood
<1>11. WritesGood'
  <2>1. ASSUME NEW q \in late'
        PROVE  WriteGood(q)'
    BY <1>1, <1>2, <1>9, <2>1 DEF WritesGood
  <2>2. ASSUME writing' # NoWrite
        PROVE  WriteGood(writing.request)'
    <3> PICK r : r = writing.request
      OBVIOUS
    <3>1. WriteGood(r)' /\ writing' = writing
      BY <1>1, <1>2, <1>9, <2>2 DEF WritesGood
    <3> QED BY <3>1
  <2> QED BY <1>1, <1>8, <2>1, <2>2 DEF WritesGood
<1>12. ResultsGood'
  BY <1>1, <1>2, <1>7, <1>8 DEF ResultsGood, Saving
<1>13. ConnGood' /\ WindowGood' /\ PromiseGood'
  BY <1>1, <1>2, <1>6, <1>8 DEF ConnGood, WindowGood, PromiseGood
<1>14. BufferGood(client, seen)' /\ SaveGood(client, seen)' /\ Missing \in seen'
  <2>1. SaveGood(b, V)
    BY <1>3, <1>7 DEF SaveGood
  <2>2. BufferGood(b, V)
    BY <1>5 DEF Good
  <2> QED BY <1>1, <1>3, <2>1, <2>2
<1>15. RecordsStay
  BY <1>1, <1>5 DEF Good, Follows, RecordsStay
<1> QED BY <1>10, <1>11, <1>12, <1>13, <1>14, <1>15 DEF IInv

LEMMA ReadyInv == ASSUME IInv, Ready PROVE IInv' /\ RecordsStay
<1> PICK o : o = client
  OBVIOUS
<1> PICK V : V = seen'
  OBVIOUS
<1> PICK plain : plain = <<>>
  OBVIOUS
<1> PICK known : known = {}
  OBVIOUS
<1>1. /\ conn = "connecting" /\ conn' = "ready" /\ FreshIds # {}
      /\ UNCHANGED <<replies, late, writing, files, moves, promised>>
  BY DEF Ready, Machine
<1>2. client.loaded /\ moves' \in 0..MaxMoves /\ client \in BufferType /\ known \in SUBSET Versions
  BY <1>1 DEF IInv, ConnGood, TypeOK
<1>3. plain \in Seq(RequestType) /\ \A i \in DOMAIN plain : plain[i].kind # "write"
  OBVIOUS
<1>4. ASSUME NEW b, NEW more, ClientStep(b, more, known)
      PROVE  Good(o, o, V) /\ Missing \in V
  BY <1>4, StepStart
<1>5. ASSUME NEW b, NEW more \in Seq(RequestType), ClientStep(b, more, known),
             \A i \in DOMAIN more : more[i].kind # "write",
             Good(o, o, V) /\ Missing \in V => Good(o, b, V)
      PROVE  IInv' /\ RecordsStay
  <2>1. Good(client, b, seen')
    BY <1>4, <1>5
  <2> QED BY <1>1, <1>2, <1>5, <2>1, GoodStepKeeps
<1>6. CASE ClientStep(o, plain, known)
  BY <1>3, <1>5, <1>6
<1>7. CASE ~o.closed /\ o.offline \notin {NoPath, o.path}
           /\ ClientStep(RequestSave([o EXCEPT !.offline = NoPath], o.offline, FALSE, TRUE), plain, known)
  <2> PICK p : p = o.offline
    OBVIOUS
  <2> PICK a : a = [o EXCEPT !.offline = NoPath]
    OBVIOUS
  <2> PICK b : b = RequestSave(a, p, FALSE, TRUE)
    OBVIOUS
  <2>1. p \in Paths
    BY <1>2, <1>7 DEF BufferType
  <2>2. ClientStep(b, plain, known)
    BY <1>7
  <2>3. ASSUME Good(o, o, V), Missing \in V
        PROVE  Good(o, b, V)
    <3>1. Good(o, a, V)
      BY <2>3, OfflineGood
    <3> QED BY <1>1, <2>1, <2>3, <3>1, RequestSaveGood
  <2> QED BY <1>3, <1>5, <2>2, <2>3
<1>8. CASE ClientStep(o, <<Read("check", "none", o.path)>>, known)
  <2> PICK p : p = o.path
    OBVIOUS
  <2> PICK more : more = <<Read("check", "none", p)>>
    OBVIOUS
  <2>1. p \in Paths
    BY <1>2 DEF BufferType
  <2>2. more \in Seq(RequestType) /\ \A i \in DOMAIN more : more[i].kind # "write"
    BY <2>1, OneRead
  <2>3. ClientStep(o, more, known)
    BY <1>8
  <2> QED BY <1>5, <2>2, <2>3
<1>9. CASE Saving(o) /\ ClientStep(o, <<Read("result", o.save.id, o.save.path)>>, known)
  <2> PICK p, id : p = o.save.path /\ id = o.save.id
    OBVIOUS
  <2> PICK more : more = <<Read("result", id, p)>>
    OBVIOUS
  <2>1. p \in Paths /\ id \in SaveIds
    BY <1>2, <1>9 DEF BufferType, SaveType, Saving
  <2>2. more \in Seq(RequestType) /\ \A i \in DOMAIN more : more[i].kind # "write"
    BY <2>1, OneRead
  <2>3. ClientStep(o, more, known)
    BY <1>9
  <2> QED BY <1>5, <2>2, <2>3
<1>10. \/ ClientStep(o, plain, known)
       \/ ~o.closed /\ o.offline \notin {NoPath, o.path}
           /\ ClientStep(RequestSave([o EXCEPT !.offline = NoPath], o.offline, FALSE, TRUE), plain, known)
       \/ ClientStep(o, <<Read("check", "none", o.path)>>, known)
       \/ Saving(o) /\ ClientStep(o, <<Read("result", o.save.id, o.save.path)>>, known)
  BY DEF Ready
<1> QED BY <1>6, <1>7, <1>8, <1>9, <1>10

LEMMA OpenInv == ASSUME IInv, NEW p \in Paths, Open(p) PROVE IInv' /\ RecordsStay
<1> PICK V : V = seen'
  OBVIOUS
<1> PICK current : current = files[p]
  OBVIOUS
<1> PICK records : records = client.records
  OBVIOUS
<1> PICK b : b = Opened(p, current, records)
  OBVIOUS
<1>1. /\ writing = NoWrite /\ client' = b /\ conn' = "ready" /\ seen' = seen \cup Shown(b)
      /\ promised' = NoRecord /\ UNCHANGED <<requests, replies, late, writing, files, saves, moves>>
  BY DEF Open, Machine
<1>2. TypeOK /\ WritesGood /\ ResultsGood /\ ConnGood /\ WindowGood /\ BufferGood(client, seen)
      /\ Missing \in seen
  BY DEF IInv
<1>3. current \in Versions /\ records \in [Paths -> RecordType \cup {NoRecord}]
  BY <1>2 DEF TypeOK, BufferType
<1>4. \A q \in Paths : records[q] # NoRecord =>
           /\ records[q].base \in V
           /\ records[q].sent \in V \cup {<<records[q].text, records[q].format>>}
  BY <1>1, <1>2 DEF BufferGood, NamesGood
<1>5. BufferGood(b, V) /\ b.save = NoSave /\ b.loaded
  <2>1. Shown(Opened(p, current, records)) \subseteq V /\ Missing \in V
    BY <1>1, <1>2
  <2> QED BY <1>3, <1>4, <2>1, OpenedGood
<1>6. ~Saving(b) /\ b \in BufferType
  BY <1>5 DEF Saving, BufferGood
<1>7. \A r : (WriteGood(r) => WriteGood(r)') /\ (ReplyGood(r) => ReplyGood(r)')
  <2>1. seen \subseteq seen'
    BY <1>1
  <2> QED BY <1>1, <1>6, <2>1, SameTokens
<1>8. TypeOK'
  <2>1. seen' \subseteq Versions
    BY <1>1, <1>2, <1>6 DEF TypeOK, Shown, BufferType
  <2> QED BY <1>1, <1>2, <1>6, <2>1 DEF TypeOK
<1>9. WritesGood'
  BY <1>1, <1>2, <1>6 DEF WritesGood, WriteGood
<1>10. ResultsGood'
  BY <1>1, <1>2, <1>6 DEF ResultsGood, ReplyGood
<1>11. ConnGood' /\ WindowGood' /\ PromiseGood'
  BY <1>1, <1>5 DEF ConnGood, WindowGood, PromiseGood
<1>12. BufferGood(client, seen)' /\ SaveGood(client, seen)' /\ Missing \in seen'
  BY <1>1, <1>2, <1>5, <1>6 DEF SaveGood
<1>13. RecordsStay
  BY DEF Open, RecordsStay
<1> QED BY <1>8, <1>9, <1>10, <1>11, <1>12, <1>13 DEF IInv

LEMMA InitInv == Init => IInv
<1> SUFFICES ASSUME Init
             PROVE  IInv
  OBVIOUS
<1>1. PICK p \in Paths : /\ client = Opened(p, files[p], [q \in Paths |-> NoRecord])
                         /\ seen = {files[p], Missing}
  BY DEF Init
<1> PICK current : current = files[p]
  OBVIOUS
<1> PICK records : records = [q \in Paths |-> NoRecord]
  OBVIOUS
<1> PICK b : b = Opened(p, current, records)
  OBVIOUS
<1> PICK V : V = {current, Missing}
  OBVIOUS
<1>2. /\ files \in [Paths -> Versions] /\ client = b /\ seen = V
      /\ conn = "ready" /\ requests = <<>> /\ replies = <<>>
      /\ late = {} /\ saves = [id \in SaveIds |-> Missing] /\ writing = NoWrite
      /\ moves = 0 /\ promised = NoRecord
  BY <1>1 DEF Init
<1>3. current \in Versions /\ records \in [Paths -> RecordType \cup {NoRecord}]
  BY <1>2
<1>4. b.version = current
  BY DEF Opened
<1>5. BufferGood(b, V) /\ b.save = NoSave /\ b.loaded
  <2>1. Shown(Opened(p, current, records)) \subseteq V
    BY <1>4 DEF Shown
  <2> QED BY <1>3, <2>1, OpenedGood
<1>6. ~Saving(b) /\ b \in BufferType
  BY <1>5 DEF Saving, BufferGood
<1>7. TypeOK
  BY <1>2, <1>3, <1>6, BoundsAssumption DEF TypeOK, Versions
<1>8. WritesGood /\ ResultsGood
  BY <1>2, <1>6 DEF WritesGood, ResultsGood
<1>9. ConnGood /\ WindowGood /\ PromiseGood /\ SaveGood(client, seen)
  BY <1>2, <1>5, <1>6 DEF ConnGood, WindowGood, PromiseGood, SaveGood
<1> QED BY <1>2, <1>5, <1>7, <1>8, <1>9 DEF IInv

\* Every step keeps the invariant.
LEMMA NextRecords == ASSUME IInv, [Next]_vars PROVE IInv' /\ RecordsStay
<1>1. CASE User
  BY <1>1, EditInv, UndoToCleanInv, SetFormatInv, SaveInv, AcceptAndSaveInv, ReloadInv, CloseInv
  DEF User
<1>2. CASE RecordDue
  BY <1>2, RecordDueInv
<1>3. CASE Replies
  BY <1>3, WriteReplyInv, ResultReplyInv, ResolveReplyInv, CheckReplyInv, ReloadReplyInv
     DEF Replies
<1>4. CASE Serve
  BY <1>4, ServeWriteInv, ServeLateWriteInv, FinishWriteInv, ServeReadInv DEF Serve
<1>5. CASE Connect
  BY <1>5, ConnectInv
<1>6. CASE Ready
  BY <1>6, ReadyInv
<1>7. CASE Environment
  BY <1>7, ForgetSaveInv, ExternalWriteInv, DropInv, RestartInv, ConnectFailsInv, CrashInv,
     OpenInv
  DEF Environment
<1>8. CASE UNCHANGED vars
  <2>1. UNCHANGED <<client, conn, requests, replies, late, saves, writing, files, moves, promised, seen>>
    BY <1>8 DEF vars
  <2>2. TypeOK' /\ WritesGood' /\ ResultsGood' /\ ConnGood' /\ WindowGood'
    BY <2>1 DEF IInv, TypeOK, WritesGood, WriteGood, ResultsGood, ReplyGood, ConnGood,
       WindowGood, Saving
  <2>3. RecordsStay
    BY <2>1 DEF RecordsStay
  <2> QED BY <2>1, <2>2, <2>3, ServerKeeps
<1> QED BY <1>1, <1>2, <1>3, <1>4, <1>5, <1>6, <1>7, <1>8 DEF Next

LEMMA NextInv == IInv /\ [Next]_vars => IInv'
  BY NextRecords

\* The replacing save of a conflict keeps the Save As that waits.
LEMMA KeepAgainGoesOut ==
  ASSUME NEW s \in BufferType, NEW request \in SaveType, s.save \in SaveType
  PROVE  GoesOut(KeepAgain(s, request), request.again)
<1> PICK again : again = request.again
  OBVIOUS
<1> PICK c : c = [s EXCEPT !.save.again = again]
  OBVIOUS
<1>1. Saving(s)
  BY ValuesAssumption DEF Saving
<1>2. again \in Paths \cup {"none", "plain"}
  BY DEF SaveType
<1>3. c.save = [s.save EXCEPT !.again = again] /\ c.save \in SaveType /\ c.save.again = again
  BY <1>2 DEF BufferType, SaveType
<1>4. Saving(c)
  BY <1>3, ValuesAssumption DEF Saving
<1>5. KeepAgain(s, request) = c
  BY <1>1 DEF KeepAgain
<1> QED BY <1>3, <1>4, <1>5 DEF GoesOut

LEMMA FinishConflictGoesOut ==
  ASSUME NEW V, NEW b, NEW request \in SaveType, NEW version \in Versions, FreshIds # {},
         Good(b, b, V), Missing \in V, ~b.closed, request.again \in Paths,
         FinishConflict(b, request, version, TRUE).path # request.again
  PROVE  GoesOut(FinishConflict(b, request, version, TRUE), request.again)
<1> PICK e : e = Ended(b)
  OBVIOUS
<1>1. b \in BufferType /\ request.path \in Paths
  BY DEF Good, BufferGood, SaveType
<1>2. e \in BufferType /\ e.save = NoSave /\ ~e.closed
  BY <1>1, EndedFacts DEF Ended, BufferType
<1>3. Good(e, e, V)
  <2>1. Good(b, e, V)
    BY EndedGood
  <2> QED BY <1>2, <2>1 DEF Good, Follows, Saving
<1> DEFINE replaces ==
      ~request.same /\ version # Missing /\ request.overwrite = Missing /\ ~b.closed
<1>4. CASE replaces
  <2> PICK s : s = StartSave(e, request.path, version, TRUE)
    OBVIOUS
  <2>1. s \in BufferType /\ s.save \in SaveType
    <3>1. s.save \in SaveType
      BY <1>1, <1>2, StartSaveFacts DEF Saving
    <3>2. Good(e, s, V)
      BY <1>1, <1>2, <1>3, StartSaveGood DEF Saving
    <3> QED BY <3>1, <3>2 DEF Good, BufferGood
  <2>2. FinishConflict(b, request, version, TRUE) = KeepAgain(s, request)
    BY <1>4 DEF FinishConflict
  <2> QED BY <2>1, <2>2, KeepAgainGoesOut
<1>5. CASE ~replaces
  <2> PICK v : v = IF request.same THEN version ELSE e.conflict
    OBVIOUS
  <2> PICK c : c = [e EXCEPT !.conflict = v]
    OBVIOUS
  <2>1. v \in Versions \cup {NoConflict}
    BY <1>2 DEF BufferType
  <2>2. c \in BufferType /\ c.save = NoSave /\ ~c.closed
    BY <1>2, <2>1 DEF BufferType
  <2>3. FinishConflict(b, request, version, TRUE) = SaveAgain(c, request, TRUE, TRUE)
    BY <1>5 DEF FinishConflict
  <2> QED BY <2>2, <2>3, SaveAgainGoesOut
<1> HIDE DEF replaces
<1> QED BY <1>4, <1>5

LEMMA FinishOfflineGoesOut ==
  ASSUME NEW b \in BufferType, NEW request \in SaveType, ~b.closed, request.again \in Paths,
         FinishOffline(b, request).path # request.again
  PROVE  GoesOut(FinishOffline(b, request), request.again)
<1> PICK e : e = Ended(b)
  OBVIOUS
<1> PICK p : p = request.path
  OBVIOUS
<1> PICK c : c = [e EXCEPT !.offline = p]
  OBVIOUS
<1>1. e \in BufferType /\ e.save = NoSave /\ ~e.closed /\ p \in Paths
  BY EndedFacts DEF Ended, BufferType, SaveType
<1>2. c \in BufferType /\ c.save = NoSave /\ ~c.closed
  BY <1>1 DEF BufferType
<1>3. FinishOffline(b, request) = SaveAgain(c, request, TRUE, FALSE)
  BY DEF FinishOffline
<1> QED BY <1>2, <1>3, SaveAgainGoesOut

LEMMA ResolveGoesOut ==
  ASSUME IInv, NEW V, NEW b, Good(b, b, V), Missing \in V, NEW current \in Versions,
         FreshIds # {},
         Saving(b), b.save.sent \in V, b.save.overwrite \in V,
         ~b.closed, b.save.again \in Paths, ResolveByVersion(b, current).path # b.save.again
  PROVE  GoesOut(ResolveByVersion(b, current), b.save.again)
<1> PICK request : request = b.save
  OBVIOUS
<1> PICK e : e = Ended(b)
  OBVIOUS
<1> PICK restarted : restarted = IF ~request.same
                   THEN StartSave(e, request.path, request.overwrite, TRUE)
                   ELSE IF Dirty(b) THEN RequestSave(e, b.path, TRUE, TRUE)
                   ELSE e
  OBVIOUS
<1>1. /\ b \in BufferType /\ request \in SaveType /\ b.path \in Paths /\ Missing \in Versions
      /\ request.path \in Paths /\ request.overwrite \in Versions
  BY DEF Good, BufferGood, BufferType, Saving, SaveType, Versions
<1>2. Good(b, e, V) /\ ~Saving(e) /\ ~e.closed
  BY <1>1, EndedGood, EndedFacts DEF Saving
<1>3. Good(b, restarted, V)
  <2>1. CASE ~request.same
    BY <1>1, <1>2, <2>1, StartSaveGood
  <2>2. CASE request.same /\ Dirty(b)
    BY <1>1, <1>2, <2>2, RequestSaveGood
  <2>3. CASE request.same /\ ~Dirty(b)
    BY <1>2, <2>3
  <2> QED BY <2>1, <2>2, <2>3
<1>4. restarted \in BufferType /\ ~restarted.closed
  BY <1>3 DEF Good, BufferGood, Follows
<1>5. ResolveByVersion(b, current) =
        IF current = request.sent THEN FinishSaved(b, request, request.sent, TRUE)
        ELSE IF current # request.base THEN FinishConflict(b, request, current, TRUE)
        ELSE IF Saving(restarted) THEN KeepAgain(restarted, request)
        ELSE SaveAgain(restarted, request, TRUE, TRUE)
  BY DEF ResolveByVersion, Ended
<1>6. CASE current = request.sent
  <2>1. ~request.edited => b.text = request.sent[1]
    BY DEF Good, BufferGood, CleanGood
  <2>2. /\ ~b.closed /\ request.again \in Paths
        /\ FinishSaved(b, request, request.sent, TRUE).path # request.again
    BY <1>5, <1>6
  <2>3. GoesOut(FinishSaved(b, request, request.sent, TRUE), request.again)
    BY <1>1, <2>1, <2>2, FinishSavedGood
  <2> QED BY <1>5, <1>6, <2>3
<1>7. CASE current # request.sent /\ current # request.base
  BY <1>1, <1>5, <1>7, FinishConflictGoesOut
<1>8. CASE current # request.sent /\ current = request.base /\ Saving(restarted)
  <2>1. restarted.save \in SaveType
    BY <1>4, <1>8 DEF BufferType, Saving
  <2> QED BY <1>1, <1>4, <1>5, <1>8, <2>1, KeepAgainGoesOut
<1>9. CASE current # request.sent /\ current = request.base /\ ~Saving(restarted)
  <2>1. SaveAgain(restarted, request, TRUE, TRUE).path # request.again /\ restarted.save = NoSave
    BY <1>5, <1>9 DEF Saving
  <2> QED BY <1>1, <1>4, <1>5, <1>9, <2>1, SaveAgainGoesOut
<1> QED BY <1>6, <1>7, <1>8, <1>9

\* What WaitingSaveAsGoesOut says of a step in which the Buffer o becomes b.
WaitsOn(o, b) ==
  o.loaded /\ ~o.closed /\ b.loaded /\ ~b.closed /\ Saving(o)
    /\ o.save.again \in Paths \ {b.path} /\ (Saving(b) => b.save.id # o.save.id)
    => GoesOut(b, o.save.again)

\* An open save that stays open keeps what waits for it.
KeepsSave(o, b) == Saving(o) => Saving(b) /\ b.save.id = o.save.id

LEMMA KeepsSaveWaits ==
  ASSUME NEW o, NEW b, KeepsSave(o, b)
  PROVE  WaitsOn(o, b)
  BY DEF KeepsSave, WaitsOn

LEMMA ChangedKeepsSave ==
  ASSUME NEW o \in BufferType, NEW t \in Texts, NEW clean \in BOOLEAN
  PROVE  KeepsSave(o, Changed(o, t, clean)) /\ KeepsSave(o, ApplyLines(o, t))
<1> PICK b : b = Changed(o, t, clean)
  OBVIOUS
<1>1. ASSUME Saving(o)
      PROVE  \A c \in BOOLEAN : Changed(o, t, c).save \in SaveType /\ Changed(o, t, c).save.id = o.save.id
  BY <1>1 DEF Changed, BufferType, SaveType, Saving
<1>2. \A s \in SaveType : s # NoSave
  BY ValuesAssumption
<1> QED BY <1>1, <1>2 DEF KeepsSave, ApplyLines, Saving

LEMMA RequestSaveKeepsSave ==
  ASSUME NEW o \in BufferType, NEW p \in Paths, NEW plain, NEW online
  PROVE  KeepsSave(o, RequestSave(o, p, plain, online))
<1> SUFFICES ASSUME Saving(o)
             PROVE  KeepsSave(o, RequestSave(o, p, plain, online))
  BY DEF KeepsSave
<1> PICK again : again = IF ~plain THEN p ELSE IF o.save.again = "none" THEN "plain" ELSE o.save.again
  OBVIOUS
<1> PICK b : b = [o EXCEPT !.save.again = again]
  OBVIOUS
<1>1. o.save \in SaveType /\ again \in Paths \cup {"none", "plain"}
  BY DEF BufferType, SaveType, Saving
<1>2. b.save = [o.save EXCEPT !.again = again]
  BY DEF BufferType
<1>3. b.save \in SaveType /\ b.save.id = o.save.id
  BY <1>1, <1>2 DEF SaveType
<1>4. RequestSave(o, p, plain, online) \in {o, b}
  BY DEF RequestSave
<1> QED BY <1>3, <1>4, ValuesAssumption DEF KeepsSave, Saving

LEMMA DisconnectedKeepsSave ==
  ASSUME NEW o \in BufferType
  PROVE  KeepsSave(o, Disconnected(o))
<1>1. ASSUME Saving(o)
      PROVE  Disconnected(o).save \in SaveType /\ Disconnected(o).save.id = o.save.id
  BY <1>1 DEF Disconnected, BufferType, SaveType, Saving
<1> QED BY <1>1, ValuesAssumption DEF KeepsSave, Saving

LEMMA UserWaits == ASSUME IInv, User PROVE WaitsOn(client, client')
<1> PICK o : o = client
  OBVIOUS
<1> PICK b : b = client'
  OBVIOUS
<1>1. o \in BufferType /\ o.path \in Paths
  BY DEF IInv, TypeOK, BufferType
<1>2. ASSUME NEW t \in Texts, Edit(t)
      PROVE  KeepsSave(o, b)
  <2>1. b = Changed(o, t, FALSE)
    BY <1>2 DEF Edit, ClientStep
  <2> QED BY <1>1, <2>1, ChangedKeepsSave
<1>3. ASSUME UndoToClean
      PROVE  KeepsSave(o, b)
  <2>1. b = Changed(o, o.clean_text, TRUE) /\ o.clean_text \in Texts
    BY <1>1, <1>3 DEF UndoToClean, ClientStep, BufferType
  <2> QED BY <1>1, <2>1, ChangedKeepsSave
<1>4. ASSUME NEW f \in Formats, SetFormat(f)
      PROVE  KeepsSave(o, b)
  <2>1. b = [o EXCEPT !.format = f]
    BY <1>4 DEF SetFormat, ClientStep
  <2> QED BY <1>1, <2>1 DEF KeepsSave, Saving, BufferType
<1>5. ASSUME NEW p \in Paths, Save(p)
      PROVE  KeepsSave(o, b)
  <2> PICK plain, online : plain = (p = o.path) /\ online = Online
    OBVIOUS
  <2>1. b = RequestSave(o, p, plain, online)
    BY <1>5 DEF Save, ClientStep
  <2> QED BY <1>1, <2>1, RequestSaveKeepsSave
<1>6. ASSUME AcceptAndSave
      PROVE  KeepsSave(o, b)
  <2> PICK online : online = Online
    OBVIOUS
  <2> PICK a : a = [o EXCEPT !.version = o.conflict, !.conflict = NoConflict, !.accepted = TRUE]
    OBVIOUS
  <2>1. b = RequestSave(a, o.path, TRUE, online) /\ o.conflict # NoConflict
    BY <1>6 DEF AcceptAndSave, ClientStep
  <2>2. o.conflict \in Versions
    BY <1>1, <2>1 DEF BufferType
  <2>3. a \in BufferType /\ a.save = o.save
    BY <1>1, <2>2 DEF BufferType
  <2>4. KeepsSave(a, b)
    BY <1>1, <2>1, <2>3, RequestSaveKeepsSave
  <2> QED BY <2>3, <2>4 DEF KeepsSave, Saving
<1>7. ASSUME Reload
      PROVE  KeepsSave(o, b)
  <2>1. b = [o EXCEPT !.reload = "current"]
    BY <1>7 DEF Reload, ClientStep
  <2> QED BY <1>1, <2>1 DEF KeepsSave, Saving, BufferType
<1>8. ASSUME Close
      PROVE  b.closed
  <2>1. b = [o EXCEPT !.closed = TRUE, !.due = FALSE, !.records[o.path] = NoRecord]
    BY <1>8 DEF Close, ClientStep
  <2> QED BY <1>1, <2>1 DEF BufferType
<1>9. KeepsSave(o, b) \/ b.closed
  BY <1>2, <1>3, <1>4, <1>5, <1>6, <1>7, <1>8 DEF User
<1> QED BY <1>9, KeepsSaveWaits DEF WaitsOn

LEMMA RecordDueWaits == ASSUME IInv, RecordDue PROVE WaitsOn(client, client')
<1> PICK o : o = client
  OBVIOUS
<1> PICK b : b = client'
  OBVIOUS
<1> PICK w : w = WriteRecord(o)
  OBVIOUS
<1>1. o \in BufferType
  BY DEF IInv, TypeOK
<1>2. b = [w EXCEPT !.due = FALSE]
  BY DEF RecordDue, ClientStep
<1>3. w.save = o.save
  BY <1>1 DEF WriteRecord, BufferType
<1>4. KeepsSave(o, b)
  BY <1>2, <1>3 DEF KeepsSave, Saving
<1> QED BY <1>4, KeepsSaveWaits

\* However the open save ends, the Save As that waits goes out.
LEMMA RepliesWait == ASSUME IInv, Replies PROVE WaitsOn(client, client')
<1> PICK o : o = client
  OBVIOUS
<1> PICK b : b = client'
  OBVIOUS
<1> PICK V : V = seen
  OBVIOUS
<1> PICK r : r = Reply
  OBVIOUS
<1>1. /\ o \in BufferType /\ Good(o, o, V) /\ Missing \in V
  BY StateGood
<1>2. r \in ReplyType /\ r.version \in Versions
  BY ReplyFacts DEF Replies, WriteReply, ResultReply, ResolveReply, CheckReply, ReloadReply,
     ReplyType
<1>3. FreshIds # {}
  BY DEF Replies, WriteReply, ResultReply, ResolveReply, CheckReply, ReloadReply, Answered
<1>4. SUFFICES ASSUME Saving(o), ~o.closed, o.save.again \in Paths, b.path # o.save.again,
                      ~KeepsSave(o, b)
               PROVE  GoesOut(b, o.save.again)
  BY KeepsSaveWaits DEF WaitsOn
<1> PICK request : request = o.save
  OBVIOUS
<1>5. /\ request \in SaveType /\ request.sent \in V /\ request.overwrite \in V
      /\ ~request.edited => o.text = request.sent[1]
  BY <1>4, OpenSave
<1>6. CASE WriteReply
  <2>1. /\ Gets("write")
        /\ b = IF ~Saving(o) \/ request.id # r.request.id THEN o
               ELSE CASE r.code = "ok" -> FinishSaved(o, request, r.version, TRUE)
                      [] r.code = "conflict" -> FinishConflict(o, request, r.version, TRUE)
                      [] OTHER -> SaveAgain(Ended(o), request, TRUE, TRUE)
    BY <1>6 DEF WriteReply, Answered, ClientStep
  <2>2. r.request.kind = "write" /\ WriteGood(r.request) /\ ReplyGood(r)
    BY <2>1, ReplyFacts
  <2>3. request.id = r.request.id
    BY <1>4, <2>1 DEF KeepsSave
  <2>4. CASE r.code = "ok"
    <3>1. b = FinishSaved(o, request, request.sent, TRUE)
      BY <1>4, <2>1, <2>2, <2>3, <2>4 DEF WriteGood, ReplyGood
    <3> QED BY <1>1, <1>3, <1>4, <1>5, <3>1, FinishSavedGood
  <2>5. CASE r.code = "conflict"
    <3>1. b = FinishConflict(o, request, r.version, TRUE)
      BY <1>4, <2>1, <2>3, <2>5
    <3> QED BY <1>1, <1>2, <1>3, <1>4, <1>5, <3>1, FinishConflictGoesOut
  <2>6. CASE r.code # "ok" /\ r.code # "conflict"
    <3> PICK e : e = Ended(o)
      OBVIOUS
    <3>1. b = SaveAgain(e, request, TRUE, TRUE)
      BY <1>4, <2>1, <2>3, <2>6
    <3>2. e \in BufferType /\ e.save = NoSave /\ ~e.closed
      BY <1>1, <1>4, EndedFacts DEF Ended, BufferType
    <3> QED BY <1>3, <1>4, <1>5, <3>1, <3>2, SaveAgainGoesOut
  <2> QED BY <2>4, <2>5, <2>6
<1>7. CASE ResultReply
  <2>1. /\ Gets("result")
        /\ b = IF ~Saving(o) \/ request.id # r.request.id \/ r.code = "unknown_save" THEN o
               ELSE FinishSaved(o, request, r.version, TRUE)
    BY <1>7 DEF ResultReply, Answered, ClientStep
  <2>2. r.request.kind = "result" /\ ReplyGood(r)
    BY <2>1, ReplyFacts
  <2>3. request.id = r.request.id /\ r.code # "unknown_save"
    BY <1>4, <2>1 DEF KeepsSave
  <2>4. b = FinishSaved(o, request, request.sent, TRUE)
    BY <1>4, <2>1, <2>2, <2>3 DEF ReplyGood
  <2> QED BY <1>1, <1>3, <1>4, <1>5, <2>4, FinishSavedGood
<1>8. CASE ResolveReply
  <2>1. b = o \/ b = ResolveByVersion(o, r.version)
    BY <1>8 DEF ResolveReply, Answered, ClientStep
  <2>2. b = ResolveByVersion(o, r.version)
    BY <1>4, <2>1 DEF KeepsSave
  <2> QED BY <1>1, <1>2, <1>3, <1>4, <1>5, <2>2, ResolveGoesOut
<1>9. CASE CheckReply
  <2>1. b = o \/ b = CheckFile(o, r.version)
    BY <1>9 DEF CheckReply, Answered, ClientStep
  <2>2. b = o
    BY <1>4, <2>1 DEF CheckFile
  <2> QED BY <1>4, <2>2 DEF KeepsSave
<1>10. CASE ReloadReply
  <2> PICK a : a = IF o.reload = "current" /\ r.code = "ok" /\ r.version # Missing
                   THEN ApplyFile(o, r.version) ELSE o
    OBVIOUS
  <2>1. b = [a EXCEPT !.reload = "none"]
    BY <1>10 DEF ReloadReply, Answered, ClientStep
  <2>2. KeepsSave(o, a)
    <3>1. CASE a = o
      BY <3>1 DEF KeepsSave
    <3>2. CASE a = ApplyFile(o, r.version) /\ r.version # Missing
      <4> PICK v : v = r.version
        OBVIOUS
      <4>1. v \in Bytes /\ v[1] \in Texts
        BY <1>2, <3>2 DEF Versions, Bytes
      <4>2. a.save = ApplyLines(o, v[1]).save
        BY <1>1, <3>2, <4>1, ApplyFileShows
      <4>3. KeepsSave(o, ApplyLines(o, v[1]))
        BY <1>1, <4>1, ChangedKeepsSave
      <4> QED BY <4>2, <4>3 DEF KeepsSave, Saving
    <3> QED BY <3>1, <3>2
  <2>3. b.save = a.save
    BY <2>1
  <2> QED BY <1>4, <2>2, <2>3 DEF KeepsSave, Saving
<1> QED BY <1>6, <1>7, <1>8, <1>9, <1>10 DEF Replies

LEMMA ConnectFailsWaits == ASSUME IInv, ConnectFails PROVE WaitsOn(client, client')
<1> PICK o : o = client
  OBVIOUS
<1> PICK b : b = client'
  OBVIOUS
<1> PICK a : a = IF Saving(o) /\ ~o.save.unknown THEN FinishOffline(o, o.save) ELSE o
  OBVIOUS
<1>1. o \in BufferType /\ b = [a EXCEPT !.reload = "none"]
  BY DEF IInv, TypeOK, ConnectFails
<1>2. b.save = a.save /\ b.path = a.path /\ b.offline = a.offline
  BY <1>1
<1>3. CASE a = o
  BY <1>2, <1>3, KeepsSaveWaits DEF KeepsSave, Saving
<1>4. CASE Saving(o) /\ a = FinishOffline(o, o.save)
  <2>1. o.save \in SaveType
    BY <1>1, <1>4 DEF BufferType, Saving
  <2>2. ~o.closed /\ o.save.again \in Paths /\ a.path # o.save.again => GoesOut(a, o.save.again)
    BY <1>1, <1>4, <2>1, FinishOfflineGoesOut
  <2> QED BY <1>2, <2>2 DEF WaitsOn, GoesOut, Saving
<1> QED BY <1>3, <1>4

\* Every step lets a waiting Save As go out.
LEMMA NextWaits == ASSUME IInv, [Next]_vars PROVE WaitsOn(client, client')
<1> PICK o : o = client
  OBVIOUS
<1> PICK b : b = client'
  OBVIOUS
<1>1. o \in BufferType
  BY DEF IInv, TypeOK
<1>2. CASE Serve \/ Connect \/ UNCHANGED vars
  <2>1. b = o
    BY <1>2 DEF Serve, ServeWrite, ServeLateWrite, FinishWrite, ServeRead, Connect, vars
  <2> QED BY <2>1, KeepsSaveWaits DEF KeepsSave
<1>3. CASE Ready
  <2>1. Saving(o) => b = o
    BY <1>3 DEF Ready, ClientStep
  <2> QED BY <2>1, KeepsSaveWaits DEF KeepsSave
<1>4. CASE Drop \/ Restart
  <2>1. b = Disconnected(o)
    BY <1>4 DEF Drop, Restart
  <2> QED BY <1>1, <2>1, DisconnectedKeepsSave, KeepsSaveWaits
<1>5. CASE Crash
  <2>1. b = [o EXCEPT !.loaded = FALSE]
    BY <1>5 DEF Crash
  <2> QED BY <1>1, <2>1 DEF WaitsOn, BufferType
<1>6. CASE \E p \in Paths : Open(p)
  BY <1>6 DEF Open, WaitsOn
<1>7. CASE (\E id \in SaveIds : ForgetSave(id)) \/ (\E p \in Paths, v \in Versions : ExternalWrite(p, v))
  <2>1. b = o
    BY <1>7 DEF ForgetSave, ExternalWrite
  <2> QED BY <2>1, KeepsSaveWaits DEF KeepsSave
<1> QED BY <1>2, <1>3, <1>4, <1>5, <1>6, <1>7, UserWaits, RecordDueWaits, RepliesWait,
           ConnectFailsWaits
        DEF Next, Environment

-----------------------------------------------------------------------------
\* The other two action properties.

LEMMA NextOverwrites ==
  ASSUME IInv, [Next]_vars, writing # NoWrite, writing' = NoWrite, ~writing.race
  PROVE  \A p \in Paths : files'[p] = files[p] \/ files[p] \in seen
<1>1. CASE FinishWrite
  <2> PICK r : r = writing.request
    OBVIOUS
  <2>1. files[r.path] \in seen /\ files \in [Paths -> Versions]
    BY DEF IInv, TypeOK, WindowGood, WritesGood, WriteGood, WritingType, WriteType
  <2>2. files' = [files EXCEPT ![r.path] = r.bytes] \/ files' = files
    BY <1>1 DEF FinishWrite
  <2> QED BY <2>1, <2>2
<1>2. CASE UNCHANGED files
  BY <1>2
<1>3. CASE \E p \in Paths, v \in Versions : ExternalWrite(p, v)
  <2>1. writing.race \in BOOLEAN
    BY DEF IInv, TypeOK, WritingType
  <2>2. writing' # NoWrite
    <3>1. writing' = writing \/ writing' = [writing EXCEPT !.race = TRUE]
      BY <1>3 DEF ExternalWrite
    <3>2. [writing EXCEPT !.race = TRUE] \in WritingType
      BY DEF IInv, TypeOK, WritingType
    <3> QED BY <3>1, <3>2, ValuesAssumption
  <2> QED BY <2>2
<1>4. User \/ Replies => UNCHANGED files
  BY DEF User, Edit, UndoToClean, SetFormat, Save, AcceptAndSave, Reload, Close, Machine,
         Replies, WriteReply, ResultReply, ResolveReply, CheckReply, ReloadReply, Answered
<1>5. RecordDue \/ Connect \/ Ready \/ ServeWrite \/ ServeLateWrite \/ ServeRead
                     => UNCHANGED files
  BY DEF RecordDue, Connect, Ready, ServeWrite, ServeLateWrite, ServeRead, Machine
<1>6. Drop \/ Restart \/ ConnectFails \/ Crash => UNCHANGED files
  BY DEF Drop, Restart, ConnectFails, Crash, Machine
<1>7. (\E id \in SaveIds : ForgetSave(id)) \/ (\E p \in Paths : Open(p)) => UNCHANGED files
  BY DEF ForgetSave, Open, Machine
<1> QED BY <1>1, <1>2, <1>3, <1>4, <1>5, <1>6, <1>7 DEF Next, Serve, Environment, vars

LEMMA NextKeepsWork ==
  ASSUME IInv, [Next]_vars, ~client.loaded, client'.loaded, promised # NoRecord,
         client'.path = promised.path
  PROVE  client'.text = promised.text
<1>1. /\ client \in BufferType /\ conn = "waiting" /\ replies = <<>>
      /\ PromiseGood
  BY DEF IInv, TypeOK, ConnGood
<1>2. PICK p \in Paths : Open(p)
  <2>1. ~User
    BY DEF User, Edit, UndoToClean, SetFormat, Save, AcceptAndSave, Reload, Close, Alive
  <2>2. ~Replies
    BY <1>1 DEF Replies, WriteReply, ResultReply, ResolveReply, CheckReply, ReloadReply, Gets
  <2>3. ~(RecordDue \/ Connect \/ Ready \/ ConnectFails \/ Drop \/ Restart \/ Crash)
    BY <1>1 DEF RecordDue, Connect, Ready, ConnectFails, Drop, Restart, Crash, Lose
  <2>4. ~(Serve \/ UNCHANGED vars)
    BY DEF Serve, ServeWrite, ServeLateWrite, FinishWrite, ServeRead, vars
  <2>5. ~((\E id \in SaveIds : ForgetSave(id)) \/ (\E p \in Paths, v \in Versions : ExternalWrite(p, v)))
    BY DEF ForgetSave, ExternalWrite
  <2> QED BY <2>1, <2>2, <2>3, <2>4, <2>5 DEF Next, Environment
<1> PICK current, records : current = files[p] /\ records = client.records
  OBVIOUS
<1> PICK b : b = Opened(p, current, records)
  OBVIOUS
<1>3. client' = b /\ seen' = seen \cup Shown(b)
  BY <1>2 DEF Open
<1> PICK V : V = seen'
  OBVIOUS
<1>4. current \in Versions /\ records \in [Paths -> RecordType \cup {NoRecord}]
  BY <1>1 DEF IInv, TypeOK, BufferType
<1>5. \A q \in Paths : records[q] # NoRecord =>
           /\ records[q].base \in V
           /\ records[q].sent \in V \cup {<<records[q].text, records[q].format>>}
  BY <1>3 DEF IInv, BufferGood, NamesGood
<1>6. Shown(Opened(p, current, records)) \subseteq V /\ Missing \in V
  BY <1>3 DEF IInv
<1>7. b.path = p /\ (records[p] # NoRecord => b.text = records[p].text)
  BY <1>4, <1>5, <1>6, OpenedGood
<1> QED BY <1>1, <1>3, <1>7 DEF PromiseGood

-----------------------------------------------------------------------------
\* The theorems.

LEMMA SpecInv == Spec => []IInv
  BY InitInv, NextInv, PTL DEF Spec

\* The program keeps its types: the Buffer, its save, its records, the messages and the
\* server's memory of saves are always what the code says they are.
THEOREM TypeCorrect == Spec => []TypeOK
<1>1. IInv => TypeOK
  BY DEF IInv
<1> QED BY <1>1, SpecInv, PTL

\* A Buffer that looks saved (no dirty mark, no conflict) has the text of the version that
\* it believes the Machine to have, for every interleaving of edits, saves, replies, lost
\* connections and crashes (finish_machine_save and clean in buffer/init.lua).
THEOREM SavedTextIsOnMachine == Spec => []CleanIsOnMachine
<1>1. IInv => CleanIsOnMachine
  BY DEF IInv, BufferGood, CleanGood, CleanIsOnMachine, Dirty
<1> QED BY <1>1, SpecInv, PTL

\* The server replaces only versions that this Client's user has seen, has written or chose
\* to replace: no late, repeated or restarted save overwrites another program's work
\* (the conditional write of serve.lua with the bases that save_on_machine sends).
THEOREM UnseenIsKept == Spec => NothingUnseenOverwritten
<1>1. IInv /\ [Next]_vars =>
        [writing # NoWrite /\ writing' = NoWrite /\ ~writing.race =>
           \A p \in Paths : files'[p] = files[p] \/ files[p] \in seen]_vars
  BY NextOverwrites
<1> QED BY <1>1, SpecInv, PTL DEF Spec, NothingUnseenOverwritten

\* A closed Buffer leaves no record of its text, and a save that ends after the close
\* writes none (write_machine_record, move_machine_record and on_close).
THEOREM ClosedBufferLeavesNoRecord == Spec => ClosedLeavesNoRecord
<1>1. IInv /\ [Next]_vars =>
        [client.loaded /\ client'.loaded /\ client'.closed
           => /\ \A p \in Paths : client'.records[p] \in {client.records[p], NoRecord}
              /\ ~client.closed => client'.records[client.path] = NoRecord]_vars
  BY NextRecords DEF RecordsStay
<1> QED BY <1>1, SpecInv, PTL DEF Spec, ClosedLeavesNoRecord

\* After a crash the file opens with the text that its record had to keep, whatever became
\* of the open save (restore_machine_record).
THEOREM WorkSurvivesCrash == Spec => CrashKeepsWork
<1>1. IInv /\ [Next]_vars =>
        [~client.loaded /\ client'.loaded /\ promised # NoRecord /\ client'.path = promised.path
           => client'.text = promised.text]_vars
  BY NextKeepsWork
<1> QED BY <1>1, SpecInv, PTL DEF Spec, CrashKeepsWork

\* A Save As that waits for an open save goes out, waits on or is kept for the reconnect,
\* however the open save ends (save_again, finish_machine_save, resolve_machine_save).
THEOREM WaitingSaveAsIsKept == Spec => WaitingSaveAsGoesOut
<1>1. IInv /\ [Next]_vars =>
        [LET q == client.save.again
         IN Alive /\ Alive' /\ Saving(client) /\ q \in Paths \ {client'.path}
              /\ (Saving(client') => client'.save.id # client.save.id)
            => \/ Saving(client') /\ q \in {client'.save.path, client'.save.again}
               \/ client'.offline = q]_vars
  <2> SUFFICES ASSUME IInv, [Next]_vars, Alive, Alive', Saving(client),
                      client.save.again \in Paths \ {client'.path},
                      Saving(client') => client'.save.id # client.save.id
               PROVE  \/ Saving(client') /\ client.save.again \in {client'.save.path, client'.save.again}
                      \/ client'.offline = client.save.again
    OBVIOUS
  <2>1. WaitsOn(client, client')
    BY NextWaits
  <2> QED BY <2>1 DEF WaitsOn, GoesOut, Alive
<1> QED BY <1>1, SpecInv, PTL DEF Spec, WaitingSaveAsGoesOut
=============================================================================
