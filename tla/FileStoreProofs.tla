-------------------------- MODULE FileStoreProofs --------------------------
(***************************************************************************)
(* FileStorage implements FileStore: however its requests overlap and      *)
(* whatever fails, to its clients a file is one thing.                     *)
(***************************************************************************)
EXTENDS FileStorageProofs

----------------------------------------------------------------------------
(* What the refinement needs beyond the invariant of FileStorageProofs.    *)

\* A request is about a file of its own tenant and bucket; a download found
\* that one file.
Placed(r) ==
  /\ req[r].at \in Uploading =>
        req[r].cur.tenant = req[r].tenant /\ req[r].cur.bucket = req[r].bucket
  /\ req[r].at \in Downloading => req[r].found = {req[r].cur}

\* A file belongs to the tenant and the bucket of its upload, and the name goes
\* last.
Kind(d) ==
  /\ req[d.blob].tenant = d.tenant /\ req[d.blob].bucket = d.bucket
  /\ d \notin metadata => d.blob \notin entries /\ d.blob \notin chunks

StoreInv ==
  /\ IInv
  /\ \A r \in Requests : Placed(r)
  /\ \A d \in Doc : Known(d) => Kind(d)

LEMMA StepPlaced ==
  ASSUME TypeOK, Requested, Next, NEW r \in Requests, Placed(r)
  PROVE  Placed(r)'
<1> USE DEF Active, Uploading, Downloading, Deleting
<1>1. CASE req'[r] = req[r]
  BY <1>1 DEF Placed
<1>2. CASE Crash /\ req[r].at \in Active
  BY <1>2, CrashEffect DEF Placed
<1>3. CASE Receive(r)
  BY <1>3, ReceiveEffect DEF Placed, Begun, Looked, Listed, Answered, Refused
<1>4. CASE WriteChunks(r)
  BY <1>4, WriteChunksEffect DEF Placed, At, Same, Went, Raised
<1>5. CASE WriteEntry(r)
  BY <1>5, WriteEntryEffect DEF Placed, At, Same, Went, Raised
<1>6. CASE Open(r)
  BY <1>6, OpenEffect DEF Placed, At, Same, Went, Raised
<1>7. CASE Insert(r) \/ Stream(r) \/ Unlink(r) \/ Purge(r) \/ Forget(r)
  <2>1. req'[r].at \notin Uploading \cup Downloading
    BY <1>7, InsertEffect, StreamEffect, UnlinkEffect, PurgeEffect, ForgetEffect
    DEF At, Went, Raised
  <2> QED BY <2>1 DEF Placed
<1> QED BY <1>1, <1>2, <1>3, <1>4, <1>5, <1>6, <1>7, Mover

\* Who is about to see a document for the first time.
LEMMA NewlyKnown ==
  ASSUME TypeOK, Requested, Next, NEW d \in Doc, Known(d)', ~Known(d)
  PROVE  d \in metadata' /\ \E r \in Requests : At(r, {"insert"}) /\ d = req[r].cur
<1>1. ASSUME NEW r \in Requests, d \in req'[r].found PROVE FALSE
  <2>1. req'[r] # req[r] /\ ~Same(r)
    BY <1>1 DEF Known, Same
  <2>2. Receive(r)
    BY <2>1, Mover, CrashEffect, WriteChunksEffect, WriteEntryEffect, InsertEffect,
       OpenEffect, StreamEffect, UnlinkEffect, PurgeEffect, ForgetEffect DEF At
  <2>3. req'[r].found \subseteq metadata
    BY <2>2, ReceiveEffect DEF Begun, Looked, Listed, Answered, Refused
  <2> QED BY <1>1, <2>3 DEF Known
<1>2. d \in metadata'
  BY <1>1 DEF Known
<1> QED BY <1>2, StoreEffect DEF Known

LEMMA StepKind ==
  ASSUME StoreInv, Next, NEW d \in Doc, Known(d)'
  PROVE  Kind(d)'
<1>0. TypeOK /\ Requested /\ Documented
  BY DEF StoreInv, IInv
<1>1. CASE Known(d)
  <2>1. Over(d) /\ Kind(d)
    BY <1>0, <1>1 DEF Documented, StoreInv
  <2>2. d.blob \in Requests /\ req'[d.blob] = req[d.blob]
    BY <1>0, <2>1, Kept DEF Doc, Over
  <2>3. CASE d \in metadata /\ d \notin metadata'
    <3>1. PICK r \in Requests : At(r, {"forget"}) /\ d = req[r].cur
      BY <1>0, <2>3, StoreEffect
    <3>2. d.blob \notin entries /\ d.blob \notin chunks
      BY <1>0, <3>1 DEF At, Requested, Progress, PastUnlink
    <3> QED BY <1>0, <2>1, <2>2, <3>2, OverKept DEF Kind
  <2> QED BY <1>0, <2>1, <2>2, <2>3, OverKept DEF Kind
<1>2. CASE ~Known(d)
  <2>1. PICK r \in Requests : At(r, {"insert"}) /\ d = req[r].cur
    BY <1>0, <1>2, NewlyKnown
  <2>2. d \in metadata'
    BY <1>0, <1>2, NewlyKnown
  <2>3. /\ d.blob = r /\ d.tenant = req[r].tenant /\ d.bucket = req[r].bucket
        /\ req[r] # NotReceived
    BY <1>0, <2>1 DEF At, Requested, Stage, StoreInv, Placed, Uploading, NotReceived
  <2>4. Same(r)
    BY <1>0, <2>3, Kept
  <2> QED BY <2>2, <2>3, <2>4 DEF Kind, Same
<1> QED BY <1>1, <1>2

LEMMA StoreInvariant == Spec => []StoreInv
<1>1. Init => StoreInv
  <2>1. ASSUME Init, NEW r \in Requests PROVE Placed(r)
    BY <2>1 DEF Init, Placed, NotReceived, Uploading, Downloading
  <2>2. ASSUME Init, NEW d \in Doc PROVE ~Known(d)
    BY <2>2 DEF Init, Known, NotReceived
  <2> QED BY <2>1, <2>2, InitInv DEF StoreInv
<1>2. ASSUME StoreInv, UNCHANGED vars PROVE StoreInv'
  <2>1. IInv'
    BY <1>2, StepInv DEF StoreInv
  <2>2. ASSUME NEW r \in Requests PROVE Placed(r)'
    BY <1>2 DEF StoreInv, Placed, vars, store
  <2>3. ASSUME NEW d \in Doc, Known(d)' PROVE Kind(d)'
    BY <1>2, <2>3 DEF StoreInv, Known, Kind, vars, store
  <2> QED BY <2>1, <2>2, <2>3 DEF StoreInv
<1>3. ASSUME StoreInv, Next PROVE StoreInv'
  <2>0. IInv /\ TypeOK /\ Requested
    BY <1>3 DEF StoreInv, IInv
  <2>1. IInv'
    BY <1>3, <2>0, StepInv
  <2>2. ASSUME NEW r \in Requests PROVE Placed(r)'
    BY <1>3, <2>0, StepPlaced DEF StoreInv
  <2>3. ASSUME NEW d \in Doc, Known(d)' PROVE Kind(d)'
    BY <1>3, <2>3, StepKind
  <2> QED BY <2>1, <2>2, <2>3 DEF StoreInv
<1> QED BY <1>1, <1>2, <1>3, PTL DEF Spec

----------------------------------------------------------------------------
(* What has become of a file.                                              *)

\* A name stands for one file, whole but for its entry.
NamesStand ==
  \A d \in metadata :
     /\ d \in Doc
     /\ FileOf(d.blob) = IF d.blob \in entries THEN "stored" ELSE "damaged"

LEMMA NamedFile == StoreInv => NamesStand
<1> USE DEF NamesStand
<1> SUFFICES ASSUME StoreInv, NEW d \in metadata
             PROVE  /\ d \in Doc
                    /\ FileOf(d.blob) = IF d.blob \in entries THEN "stored" ELSE "damaged"
  OBVIOUS
<1>1. d \in Doc /\ Whole(d)
  BY DEF StoreInv, IInv, TypeOK, Documented, Known
<1> QED BY <1>1 DEF FileOf, Whole

LEMMA OneName ==
  ASSUME StoreInv, NEW d \in Doc, Known(d), NEW e \in Doc, Known(e), d.blob = e.blob
  PROVE  d = e
BY DEF StoreInv, IInv, Documented, Over

LEMMA DeletersKnow ==
  ASSUME NEW d \in Doc, NEW r \in Deleters(d)
  PROVE  Known(d) /\ r \in Requests /\ d \in req[r].found
BY DEF Deleters, Known

\* A file that was found by a deletion and has no name any more is removed.
DeletedAreRemoved ==
  \A d \in Doc : d \notin metadata /\ Deleters(d) # {} => FileOf(d.blob) = "removed"

LEMMA RemovedFile == StoreInv => DeletedAreRemoved
<1> USE DEF DeletedAreRemoved
<1> SUFFICES ASSUME StoreInv, NEW d \in Doc, d \notin metadata, NEW r \in Deleters(d)
             PROVE  FileOf(d.blob) = "removed"
  OBVIOUS
<1>1. Known(d) /\ r \in Requests /\ d \in req[r].found
  BY DeletersKnow
<1>2. \A e \in metadata : e.blob # d.blob
  BY <1>1, OneName, NamedFile DEF Known, NamesStand
<1> QED BY <1>1, <1>2 DEF FileOf

LEMMA AbsentFile ==
  ASSUME StoreInv, NEW f \in Requests, req[f].at # "done"
  PROVE  FileOf(f) = "absent" /\ \A d \in metadata : d.blob # f
<1>1. ASSUME NEW d \in Doc, Known(d) PROVE d.blob # f
  BY <1>1 DEF StoreInv, IInv, Documented, Over
<1>2. \A d \in metadata : d.blob # f
  BY <1>1, NamedFile DEF Known, NamesStand
<1>3. ASSUME NEW r \in Requests, NEW d \in req[r].found, r \in Deleters(d) PROVE d.blob # f
  <2>1. req[r] # NotReceived
    BY <1>3 DEF NotReceived
  <2>2. d \in Doc /\ Known(d)
    BY <1>3, <2>1 DEF StoreInv, IInv, TypeOK, Request, Known
  <2> QED BY <1>1, <2>2
<1> QED BY <1>2, <1>3 DEF FileOf

\* A file stays what it is when its name and its entry do.
LEMMA FileFrame ==
  ASSUME StoreInv, StoreInv', Next, NEW f \in Requests,
         \A d \in Doc : d.blob = f => /\ d \in metadata' <=> d \in metadata
                                      /\ d \in metadata => (f \in entries' <=> f \in entries)
  PROVE  FileOf(f)' = FileOf(f)
<1>0. TypeOK /\ Requested /\ TypeOK' /\ Requested'
  BY DEF StoreInv, IInv
<1>1. NamesStand'
  BY NamedFile, PTL
<1>2. CASE \E d \in metadata : d.blob = f
  <2>1. PICK d \in metadata : d.blob = f
    BY <1>2
  <2>2. d \in Doc /\ FileOf(f) = IF f \in entries THEN "stored" ELSE "damaged"
    BY <2>1, NamedFile DEF NamesStand
  <2>3. d \in metadata' /\ (f \in entries' <=> f \in entries)
    BY <2>1, <2>2
  <2>4. FileOf(d.blob)' = IF f \in entries' THEN "stored" ELSE "damaged"
    BY <1>1, <2>1, <2>3 DEF NamesStand
  <2> QED BY <2>1, <2>2, <2>3, <2>4
<1>3. CASE \A d \in metadata : d.blob # f
  <2>1. \A d \in metadata' : d.blob # f
    BY <1>0, <1>3 DEF TypeOK
  <2>2. ASSUME NEW r \in Requests, NEW d \in req[r].found, d.blob = f, r \in Deleters(d)
        PROVE  d \in req'[r].found /\ r \in Deleters(d)'
    <3>1. req[r] # NotReceived
      BY <2>2 DEF NotReceived
    <3>2. d \in Doc
      BY <1>0, <2>2, <3>1 DEF TypeOK, Request
    <3> QED BY <1>0, <2>2, <3>2, DeletersKept DEF Deleters
  <2>3. ASSUME NEW r \in Requests, NEW d \in req'[r].found, d.blob = f, r \in Deleters(d)'
        PROVE  d \in req[r].found /\ r \in Deleters(d)
    <3>1. ~Receive(r)
      BY <1>0, <1>3, <2>3, ReceiveEffect DEF Begun, Looked, Listed, Answered, Refused
    <3>2. Same(r)
      BY <1>0, <3>1, Mover, CrashEffect, WriteChunksEffect, WriteEntryEffect, InsertEffect,
         OpenEffect, StreamEffect, UnlinkEffect, PurgeEffect, ForgetEffect DEF At, Same
    <3>3. d \in req[r].found /\ req[r] # NotReceived
      BY <2>3, <3>2 DEF Same, NotReceived
    <3>4. req[r].reply # "409"
      <4>1. req[r].reply = "409" => req[r].at \in {"done", "lost"}
        BY <1>0, <3>3 DEF TypeOK, Request, Requested, Stage
      <4> QED BY <1>0, <2>3, <4>1, Kept DEF Deleters
    <3> QED BY <2>3, <3>2, <3>3, <3>4 DEF Deleters, Same
  <2>4. (\E r \in Requests : \E d \in req[r].found : d.blob = f /\ r \in Deleters(d))
        <=> (\E r \in Requests : \E d \in req'[r].found : d.blob = f /\ r \in Deleters(d)')
    BY <2>2, <2>3
  <2> QED BY <1>3, <2>1, <2>4 DEF FileOf
<1> QED BY <1>2, <1>3

----------------------------------------------------------------------------
(* What is seen of a step.                                                 *)

FilesNow == [f \in Requests |-> FileOf(f)]
AskedNow == [r \in Requests |-> Asked(r)]
Seen == <<FilesNow, AskedNow>>

\* Of a request that takes a step only the answer changes.
LEMMA OnlyAnswers ==
  ASSUME TypeOK, NEW r \in Requests, req[r] \in Request, Alone(r), Same(r),
         req'[r] \in Request
  PROVE  /\ AskedNow' = [AskedNow EXCEPT ![r].reply = req'[r].reply]
         /\ AskedNow[r].op = req[r].op /\ AskedNow[r].reply = req[r].reply
         /\ AskedNow[r].found = {d.blob : d \in req[r].found}
         /\ AskedNow'[r].reply = req'[r].reply /\ AskedNow'[r].found = AskedNow[r].found
         /\ req'[r].reply = req[r].reply => AskedNow' = AskedNow
<1>1. req[r] # NotReceived /\ req'[r] # NotReceived
  BY DEF Request, NotReceived
<1>0. PICK op, p, found : /\ op = req[r].op /\ p = <<req[r].tenant, req[r].bucket>>
                          /\ found = {d.blob : d \in req[r].found}
  OBVIOUS
<1>2. /\ Asked(r) = [op |-> op, place |-> p, found |-> found, reply |-> req[r].reply]
      /\ Asked(r)' = [op |-> op, place |-> p, found |-> found, reply |-> req'[r].reply]
  BY <1>0, <1>1 DEF Asked, Same
<1>3. \A u \in Requests \ {r} : Asked(u)' = Asked(u)
  BY DEF Alone, Asked
<1>4. /\ AskedNow[r] = Asked(r) /\ AskedNow'[r] = Asked(r)'
      /\ \A u \in Requests \ {r} : AskedNow'[u] = AskedNow[u]
      /\ AskedNow = [u \in Requests |-> AskedNow[u]]
      /\ AskedNow' = [u \in Requests |-> AskedNow'[u]]
  BY <1>3 DEF AskedNow
<1>5. AskedNow'[r] = [AskedNow[r] EXCEPT !.reply = req'[r].reply]
  BY <1>2, <1>4
<1>6. AskedNow' = [AskedNow EXCEPT ![r].reply = req'[r].reply]
  BY <1>4, <1>5
<1>7. req'[r].reply = req[r].reply => AskedNow' = AskedNow
  BY <1>2, <1>4
<1>8. AskedNow'[r].reply = req'[r].reply /\ AskedNow'[r].found = AskedNow[r].found
  BY <1>2, <1>4
<1> QED BY <1>0, <1>2, <1>4, <1>6, <1>7, <1>8

\* The files stay as they are, or one does not.
LEMMA FilesStay ==
  ASSUME \A f \in Requests : FileOf(f)' = FileOf(f)
  PROVE  FilesNow' = FilesNow
BY DEF FilesNow

LEMMA FileMoves ==
  ASSUME NEW f \in Requests, \A g \in Requests \ {f} : FileOf(g)' = FileOf(g),
         NEW to, FileOf(f)' = to
  PROVE  FilesNow' = [FilesNow EXCEPT ![f] = to]
BY DEF FilesNow

\* r answers, with the files as they are.
LEMMA Answers ==
  ASSUME NEW r \in Requests, FilesNow' = FilesNow,
         NEW reply, AskedNow' = [AskedNow EXCEPT ![r].reply = reply],
         AskedNow[r].reply = "none",
         \/ /\ reply = "500"
            /\ AskedNow[r].op \in {"upload", "download", "delete", "delete_bucket"}
         \/ reply = "cut" /\ AskedNow[r].op = "download"
         \/ /\ reply = "200" /\ AskedNow[r].op = "download"
            /\ \A f \in AskedNow[r].found : FilesNow[f] # "removed"
         \/ /\ reply = "204" /\ AskedNow[r].op \in Deletions
            /\ \A f \in AskedNow[r].found : FilesNow[f] = "removed"
  PROVE  Files!Next
<1>1. Files!Answer(r)
  BY DEF Files!Answer, Files!Pending, Files!Deleting, Files!AllRemoved, FilesNow, AskedNow,
         Deletions
<1> QED BY <1>1 DEF Files!Next

\* A request that is at work is one, and has not answered.
LEMMA AtWork ==
  ASSUME StoreInv, NEW r \in Requests, req[r].at \in Active
  PROVE  req[r] \in Request /\ req[r].reply = "none"
BY ActiveType DEF StoreInv, IInv, Requested, Stage

----------------------------------------------------------------------------
(* Every step is one of FileStore, or is not seen.                         *)

LEMMA WriteSeen ==
  ASSUME StoreInv, StoreInv', Next, NEW r \in Requests, WriteChunks(r) \/ WriteEntry(r)
  PROVE  [Files!Next]_Seen
<1> USE DEF Active, Uploading
<1>0. TypeOK /\ Requested /\ TypeOK'
  BY DEF StoreInv, IInv
<1>1. /\ At(r, Uploading) /\ UNCHANGED metadata
      /\ \A f \in Requests \ {r} : f \in entries' <=> f \in entries
      /\ req'[r].reply = req[r].reply \/ req'[r].reply = "500"
  BY <1>0, WriteChunksEffect, WriteEntryEffect DEF At, Went, Raised
<1>2. /\ req[r] \in Request /\ req[r].reply = "none" /\ req[r].op = "upload"
      /\ \A d \in metadata : d.blob # r
  BY <1>0, <1>1, AtWork, AbsentFile DEF At, Requested, Stage
<1>3. req'[r] \in Request
  BY <1>1, <1>2 DEF At, Alone, Same, NotReceived, Request
<1>4. FilesNow' = FilesNow
  <2>1. ASSUME NEW f \in Requests PROVE FileOf(f)' = FileOf(f)
    BY <1>1, <1>2, FileFrame
  <2> QED BY <2>1, FilesStay
<1>5. /\ AskedNow' = [AskedNow EXCEPT ![r].reply = req'[r].reply]
      /\ AskedNow[r].op = "upload" /\ AskedNow[r].reply = "none"
      /\ req'[r].reply = req[r].reply => AskedNow' = AskedNow
  BY <1>0, <1>1, <1>2, <1>3, OnlyAnswers DEF At
<1> QED BY <1>1, <1>4, <1>5, Answers DEF Seen

LEMMA InsertSeen ==
  ASSUME StoreInv, StoreInv', Next, NEW r \in Requests, Insert(r)
  PROVE  [Files!Next]_Seen
<1> USE DEF Active, Uploading
<1>0. TypeOK /\ Requested /\ TypeOK'
  BY DEF StoreInv, IInv
<1>d. PICK d : d = req[r].cur
  OBVIOUS
<1>1. /\ At(r, Uploading) /\ UNCHANGED <<entries, chunks>>
      /\ \/ req'[r].reply = "201" /\ metadata' = metadata \cup {d}
         \/ req'[r].reply = "500" /\ metadata' \in {metadata, metadata \cup {d}}
  BY <1>0, <1>d, InsertEffect DEF At, Went, Raised
<1>2. /\ req[r] \in Request /\ req[r].reply = "none" /\ req[r].op = "upload"
      /\ FileOf(r) = "absent" /\ d \in Doc /\ d.blob = r
      /\ r \in entries
  <2>1. req[r].at = "insert"
    BY DEF Insert
  <2> QED BY <1>0, <1>d, <1>1, <2>1, AtWork, AbsentFile DEF At, Requested, Stage, Written
<1>3. req'[r] \in Request
  BY <1>1, <1>2 DEF At, Alone, Same, NotReceived, Request
<1>4. ASSUME NEW f \in Requests, f # r \/ metadata' = metadata
      PROVE  FileOf(f)' = FileOf(f)
  BY <1>1, <1>2, <1>4, FileFrame
<1>5. /\ AskedNow' = [AskedNow EXCEPT ![r].reply = req'[r].reply]
      /\ AskedNow[r].op = "upload" /\ AskedNow[r].reply = "none"
  BY <1>0, <1>1, <1>2, <1>3, OnlyAnswers DEF At
<1>6. CASE metadata' = metadata /\ req'[r].reply = "500"
  <2>1. FilesNow' = FilesNow
    BY <1>4, <1>6, FilesStay
  <2> QED BY <1>5, <1>6, <2>1, Answers
<1>7. CASE metadata' = metadata \cup {d}
  <2>1. NamesStand'
    BY NamedFile, PTL
  <2>2. FileOf(d.blob)' = "stored"
    BY <1>1, <1>2, <1>7, <2>1 DEF NamesStand
  <2>3. FilesNow' = [FilesNow EXCEPT ![r] = "stored"] /\ FilesNow[r] = "absent"
    BY <1>2, <1>4, <2>2, FileMoves DEF FilesNow
  <2>4. Files!Publish(r)
    BY <1>1, <1>5, <2>3 DEF Files!Publish, Files!Pending, Files!Move, FilesNow, AskedNow
  <2> QED BY <2>4 DEF Files!Next
<1> QED BY <1>1, <1>6, <1>7

LEMMA DownloadSeen ==
  ASSUME StoreInv, StoreInv', Next, NEW r \in Requests, Open(r) \/ Stream(r)
  PROVE  [Files!Next]_Seen
<1> USE DEF Active, Downloading
<1>0. TypeOK /\ Requested /\ TypeOK'
  BY DEF StoreInv, IInv
<1>d. PICK d : d = req[r].cur
  OBVIOUS
<1>1. /\ At(r, Downloading) /\ UNCHANGED <<metadata, entries, chunks>>
      /\ \/ req'[r].reply \in {req[r].reply, "500", "cut"}
         \/ req'[r].reply = "200" /\ d.blob \in chunks
  BY <1>0, <1>d, OpenEffect, StreamEffect DEF At, Went, Raised
<1>2. /\ req[r] \in Request /\ req[r].reply = "none" /\ req[r].op = "download"
      /\ req[r].found = {d} /\ d \in Doc /\ Known(d)
  <2>1. req[r] \in Request /\ req[r].reply = "none" /\ req[r].op = "download"
    BY <1>0, <1>1, AtWork DEF At, Requested, Stage
  <2>2. req[r].found = {d}
    BY <1>d, <1>1 DEF At, StoreInv, Placed
  <2> QED BY <2>1, <2>2 DEF Request, Known
<1>3. req'[r] \in Request
  BY <1>1, <1>2 DEF At, Alone, Same, NotReceived, Request
<1>4. FilesNow' = FilesNow
  BY <1>1, FileFrame, FilesStay
<1>5. /\ AskedNow' = [AskedNow EXCEPT ![r].reply = req'[r].reply]
      /\ AskedNow[r].op = "download" /\ AskedNow[r].reply = "none"
      /\ AskedNow[r].found = {e.blob : e \in req[r].found}
      /\ req'[r].reply = req[r].reply => AskedNow' = AskedNow
  BY <1>0, <1>1, <1>2, <1>3, OnlyAnswers DEF At
<1>6. CASE req'[r].reply = "200"
  <2>1. d \in metadata /\ d.blob \in Requests
    BY <1>0, <1>1, <1>2, <1>6 DEF StoreInv, Kind, TypeOK
  <2>2. FilesNow[d.blob] # "removed"
    BY <2>1, NamedFile DEF NamesStand, FilesNow
  <2>3. AskedNow[r].found = {d.blob}
    BY <1>2, <1>5
  <2> QED BY <1>4, <1>5, <1>6, <2>2, <2>3, Answers
<1> QED BY <1>1, <1>4, <1>5, <1>6, Answers DEF Seen

\* A deletion at work, of the file d.
LEMMA DeletingFacts ==
  ASSUME StoreInv, NEW r \in Requests, At(r, Deleting)
  PROVE  /\ req[r] \in Request /\ req[r].reply = "none" /\ req[r].op \in Deletions
         /\ req'[r] \in Request
         /\ AskedNow' = [AskedNow EXCEPT ![r].reply = req'[r].reply]
         /\ AskedNow[r].op \in Deletions /\ AskedNow[r].reply = "none"
         /\ AskedNow[r].found = {e.blob : e \in req[r].found}
         /\ AskedNow'[r].reply = req'[r].reply /\ AskedNow'[r].found = AskedNow[r].found
         /\ req'[r].reply = "none" => AskedNow' = AskedNow
         /\ \A d \in req[r].found : /\ d \in Doc /\ Known(d) /\ d.blob \in Requests
                                   /\ r \in Deleters(d)
<1> USE DEF Active, Deleting
<1>0. TypeOK /\ Requested
  BY DEF StoreInv, IInv
<1>2. req[r] \in Request /\ req[r].reply = "none" /\ req[r].op \in Deletions
  BY <1>0, AtWork DEF At, Requested, Stage
<1>3. req'[r] \in Request
  BY <1>2 DEF At, Alone, Same, NotReceived, Request, Deletions
<1>4. \A d \in req[r].found : /\ d \in Doc /\ Known(d) /\ d.blob \in Requests
                            /\ r \in Deleters(d)
  BY <1>2 DEF Request, Doc, Known, Deleters, Deletions
<1>5. /\ AskedNow' = [AskedNow EXCEPT ![r].reply = req'[r].reply]
      /\ AskedNow[r].op = req[r].op /\ AskedNow[r].reply = "none"
      /\ AskedNow[r].found = {e.blob : e \in req[r].found}
      /\ AskedNow'[r].reply = req'[r].reply /\ AskedNow'[r].found = AskedNow[r].found
      /\ req'[r].reply = req[r].reply => AskedNow' = AskedNow
  BY <1>0, <1>2, <1>3, OnlyAnswers DEF At
<1> QED BY <1>2, <1>3, <1>4, <1>5

LEMMA UnlinkSeen ==
  ASSUME StoreInv, StoreInv', Next, NEW r \in Requests, Unlink(r)
  PROVE  [Files!Next]_Seen
<1>0. TypeOK /\ Requested /\ TypeOK'
  BY DEF StoreInv, IInv
<1>1. PICK d \in req[r].todo :
         /\ At(r, Deleting) /\ UNCHANGED metadata
         /\ entries' \in {entries, entries \ {d.blob}}
         /\ req'[r].reply = req[r].reply \/ req'[r].reply = "500"
  BY <1>0, UnlinkEffect DEF At, Went, Raised, Deleting
<1>2. d \in req[r].found
  BY <1>0, <1>1 DEF At, Requested, Stage
<1>3. /\ d \in Doc /\ Known(d) /\ d.blob \in Requests
      /\ req[r].reply = "none" /\ AskedNow[r].op \in Deletions /\ AskedNow[r].reply = "none"
      /\ AskedNow' = [AskedNow EXCEPT ![r].reply = req'[r].reply]
      /\ req'[r].reply = "none" => AskedNow' = AskedNow
      /\ d.blob \in AskedNow[r].found
  BY <1>1, <1>2, DeletingFacts
<1>4. ASSUME NEW f \in Requests, f # d.blob PROVE FileOf(f)' = FileOf(f)
  BY <1>1, <1>4, FileFrame
<1>5. CASE d \in metadata /\ d.blob \in entries /\ d.blob \notin entries'
  <2>1. FileOf(d.blob) = "stored"
    BY <1>5, NamedFile DEF NamesStand
  <2>2. FileOf(d.blob)' = "damaged"
    <3>1. NamesStand'
      BY NamedFile, PTL
    <3> QED BY <1>1, <1>5, <3>1 DEF NamesStand
  <2>3. FilesNow' = [FilesNow EXCEPT ![d.blob] = "damaged"] /\ FilesNow[d.blob] = "stored"
    BY <1>3, <1>4, <2>1, <2>2, FileMoves DEF FilesNow
  <2>4. Files!Damage(r)
    BY <1>1, <1>3, <2>3
    DEF Files!Damage, Files!Deleting, Files!Pending, Files!Move, FilesNow, AskedNow, Deletions
  <2> QED BY <2>4 DEF Files!Next
<1>6. CASE ~(d \in metadata /\ d.blob \in entries /\ d.blob \notin entries')
  <2>1. ASSUME NEW e \in Doc, e.blob = d.blob
        PROVE  /\ e \in metadata' <=> e \in metadata
               /\ e \in metadata => (d.blob \in entries' <=> d.blob \in entries)
    <3>1. e \in metadata => e = d
      BY <1>3, <2>1, OneName DEF Known
    <3> QED BY <1>1, <1>6, <3>1
  <2>2. FilesNow' = FilesNow
    BY <1>3, <1>4, <2>1, FileFrame, FilesStay
  <2> QED BY <1>1, <1>3, <2>2, Answers DEF Seen, Deletions
<1> QED BY <1>5, <1>6

LEMMA PurgeSeen ==
  ASSUME StoreInv, StoreInv', Next, NEW r \in Requests, Purge(r)
  PROVE  [Files!Next]_Seen
<1>0. TypeOK /\ Requested /\ TypeOK'
  BY DEF StoreInv, IInv
<1>1. /\ At(r, Deleting) /\ UNCHANGED <<metadata, entries>>
      /\ req'[r].reply = req[r].reply \/ req'[r].reply = "500"
  BY <1>0, PurgeEffect DEF At, Went, Raised, Deleting
<1>2. FilesNow' = FilesNow
  BY <1>1, FileFrame, FilesStay
<1> QED BY <1>1, <1>2, DeletingFacts, Answers DEF Seen, Deletions

LEMMA ForgetSeen ==
  ASSUME StoreInv, StoreInv', Next, NEW r \in Requests, Forget(r)
  PROVE  [Files!Next]_Seen
<1>0. TypeOK /\ Requested /\ TypeOK' /\ Requested'
  BY DEF StoreInv, IInv
<1>d. PICK d : d = req[r].cur
  OBVIOUS
<1>1. /\ req[r].at = "forget" /\ At(r, Deleting) /\ UNCHANGED <<entries, chunks>>
      /\ metadata' \in {metadata, metadata \ {d}}
      /\ req'[r].reply \in {req[r].reply, "500", "204"}
  BY <1>0, <1>d, ForgetEffect DEF At, Went, Raised, Deleting
<1>2. d \in req[r].found /\ d.blob \notin entries
  BY <1>0, <1>d, <1>1 DEF At, Requested, Stage, Progress, PastUnlink, Deleting
<1>3. /\ d \in Doc /\ Known(d) /\ d.blob \in Requests /\ r \in Deleters(d)
      /\ req[r].reply = "none" /\ AskedNow[r].op \in Deletions /\ AskedNow[r].reply = "none"
      /\ req[r].op \in Deletions
      /\ AskedNow' = [AskedNow EXCEPT ![r].reply = req'[r].reply]
      /\ req'[r].reply = "none" => AskedNow' = AskedNow
      /\ d.blob \in AskedNow[r].found
      /\ AskedNow[r].found = {e.blob : e \in req[r].found}
      /\ AskedNow'[r].reply = req'[r].reply /\ AskedNow'[r].found = AskedNow[r].found
  BY <1>1, <1>2, DeletingFacts
<1>4. ASSUME NEW f \in Requests, f # d.blob PROVE FileOf(f)' = FileOf(f)
  BY <1>1, <1>4, FileFrame
\* 204 is answered when the last file has gone.
<1>5. ASSUME req'[r].reply = "204", NEW e \in req[r].found
      PROVE  FilesNow'[e.blob] = "removed"
  <2>1. /\ e \in Doc /\ r \in Deleters(e) /\ e.blob \in Requests
    BY <1>1, <1>5, DeletingFacts
  <2>2. r \in Deleters(e)'
    BY <1>0, <2>1, DeletersKept
  <2>3. e \notin metadata'
    BY <1>0, <1>1, <1>3, <1>5 DEF At, Same, Requested, Progress, Gone
  <2>4. DeletedAreRemoved'
    BY RemovedFile, PTL
  <2> QED BY <2>1, <2>2, <2>3, <2>4 DEF DeletedAreRemoved, FilesNow
<1>6. req'[r].reply = "204" => \A f \in AskedNow[r].found : FilesNow'[f] = "removed"
  BY <1>3, <1>5
<1>7. CASE metadata' = metadata
  <2>1. FilesNow' = FilesNow
    BY <1>1, <1>7, FileFrame, FilesStay
  <2> QED BY <1>1, <1>3, <1>6, <2>1, Answers DEF Seen, Deletions
<1>8. CASE metadata' = metadata \ {d} /\ d \in metadata
  <2>1. FileOf(d.blob) = "damaged"
    BY <1>2, <1>8, NamedFile DEF NamesStand
  <2>2. FileOf(d.blob)' = "removed"
    <3>1. r \in Deleters(d)'
      BY <1>0, <1>3, DeletersKept
    <3>2. DeletedAreRemoved'
      BY RemovedFile, PTL
    <3> QED BY <1>3, <1>8, <3>1, <3>2 DEF DeletedAreRemoved
  <2>3. FilesNow' = [FilesNow EXCEPT ![d.blob] = "removed"] /\ FilesNow[d.blob] = "damaged"
    BY <1>3, <1>4, <2>1, <2>2, FileMoves DEF FilesNow
  <2>4. AskedNow'[r].reply = "204" => Files!AllRemoved(r)'
    BY <1>3, <1>6 DEF Files!AllRemoved, FilesNow, AskedNow
  <2>5. Files!Remove(r)
    <3>1. Files!Deleting(r)
      BY <1>3 DEF Files!Deleting, Files!Pending, AskedNow, Deletions
    <3>2. Files!Move(r, d.blob, "damaged", "removed", {"none", "204", "500"})
      BY <1>1, <1>3, <2>3 DEF Files!Move, FilesNow, AskedNow
    <3> HIDE DEF FilesNow, AskedNow
    <3> QED BY <1>3, <2>4, <3>1, <3>2 DEF Files!Remove, FilesNow, AskedNow
  <2> QED BY <2>5 DEF Files!Next
<1> QED BY <1>1, <1>7, <1>8

\* A crash is not seen: who was waiting goes without an answer.
LEMMA CrashSeen ==
  ASSUME StoreInv, StoreInv', Next, Crash
  PROVE  UNCHANGED Seen
<1>1. /\ UNCHANGED <<metadata, entries, chunks>>
      /\ \A r \in Requests : req'[r] = req[r] \/ (req[r].at \in Active /\ Same(r)
                                                  /\ req'[r].reply = req[r].reply)
  BY CrashEffect DEF Same, StoreInv, IInv
<1>2. FilesNow' = FilesNow
  BY <1>1, FileFrame, FilesStay
<1>3. ASSUME NEW r \in Requests PROVE Asked(r)' = Asked(r)
  <2>1. CASE req'[r] = req[r]
    BY <2>1 DEF Asked
  <2>2. CASE req[r].at \in Active /\ Same(r) /\ req'[r].reply = req[r].reply
    <3>1. req[r] # NotReceived /\ req'[r] # NotReceived
      BY <2>2, AtWork DEF Same, NotReceived, Request
    <3> QED BY <2>2, <3>1 DEF Asked, Same
  <2> QED BY <1>1, <2>1, <2>2
<1>4. AskedNow' = AskedNow
  BY <1>3 DEF AskedNow
<1> QED BY <1>2, <1>4 DEF Seen

----------------------------------------------------------------------------
(* The request comes: what is found is what is there.                      *)

\* What the handler goes on with, all being the documents of the bucket.
Finding(q, all) ==
  \/ q.op = "upload" /\ q.found = {} /\ q.reply \in {"none", "409", "500"}
  \/ q.op = "download" /\ q.found = {} /\ q.reply \in {"404", "500"}
  \/ q.op = "delete" /\ q.found = {} /\ q.reply \in {"204", "500"}
  \/ /\ q.op = "download" /\ (\E d \in all : q.found = {d})
     /\ q.reply \in {"none", "304"}
  \/ q.op = "delete" /\ (\E d \in all : q.found = {d}) /\ q.reply = "none"
  \/ q.op = "delete_bucket" /\ q.found = {} /\ q.reply = "500"
  \/ q.op = "delete_bucket" /\ q.found = {} /\ all = {} /\ q.reply = "204"
  \/ q.op = "delete_bucket" /\ q.found = all /\ all # {} /\ q.reply \in {"none", "409"}

Placing(q, t, b) == q.tenant = t /\ q.bucket = b /\ Finding(q, InBucket(t, b))

LEMMA QueryFinds ==
  ASSUME TypeOK, NEW r \in Requests, NEW t \in Tenants, NEW b \in Buckets,
         NEW op \in {"upload", "download", "delete", "delete_bucket"},
         NEW next, Query(r, Received(op, t, b), next), Placing(next, t, b)
  PROVE  Placing(req'[r], t, b)
<1> DEFINE q == Replied(Received(op, t, b), "500")
<1>1. q.op = op /\ q.tenant = t /\ q.bucket = b /\ q.found = {} /\ q.reply = "500"
  BY DEF Received, Replied
<1>2. Placing(q, t, b)
  BY <1>1 DEF Placing, Finding
<1>3. req' = [req EXCEPT ![r] = next] \/ req' = [req EXCEPT ![r] = q]
  BY DEF Query, Call
<1> HIDE DEF q
<1> QED BY <1>2, <1>3 DEF TypeOK

LEMMA UploadFinds ==
  ASSUME TypeOK, NEW r \in Requests, NEW t \in Tenants, NEW b \in Buckets,
         NEW n \in Names, Upload(r, t, b, n)
  PROVE  Placing(req'[r], t, b)
<1> DEFINE q == Received("upload", t, b)
           doc == [tenant |-> t, bucket |-> b, name |-> n, blob |-> r]
           more == [q EXCEPT !.at = "write_chunks", !.cur = doc]
           none == Replied(q, "409")
           next == IF Named(t, b, n) # {} THEN none ELSE more
<1>1. Placing(more, t, b) /\ Placing(none, t, b)
  BY DEF Received, Replied, Placing, Finding
<1>2. Query(r, q, next)
  BY DEF Upload
<1> HIDE DEF more, none
<1>3. Placing(next, t, b)
  BY <1>1
<1> HIDE DEF next
<1> QED BY <1>2, <1>3, QueryFinds

LEMMA DownloadFinds ==
  ASSUME TypeOK, NEW r \in Requests, NEW t \in Tenants, NEW b \in Buckets,
         NEW n \in Names, Download(r, t, b, n)
  PROVE  Placing(req'[r], t, b)
<1> DEFINE q == Received("download", t, b)
           none == Replied(q, "404")
           known(d) == [q EXCEPT !.found = {d}, !.cur = d]
           same(d) == Replied(known(d), "304")
           more(d) == [known(d) EXCEPT !.at = "open"]
<1>1. Placing(none, t, b)
  BY DEF Received, Replied, Placing, Finding
<1>2. ASSUME NEW d \in InBucket(t, b) PROVE Placing(same(d), t, b) /\ Placing(more(d), t, b)
  BY DEF Received, Replied, Placing, Finding
<1>3. \/ Query(r, q, none)
      \/ \E d \in InBucket(t, b) : Query(r, q, same(d)) \/ Query(r, q, more(d))
  BY DEF Download, Named
<1> HIDE DEF none, same, more
<1> QED BY <1>1, <1>2, <1>3, QueryFinds

LEMMA RestFinds ==
  ASSUME NEW t \in Tenants, NEW b \in Buckets, NEW op \in Deletions, NEW docs,
         \/ op = "delete" /\ \E d \in InBucket(t, b) : docs = {d}
         \/ op = "delete_bucket" /\ docs = InBucket(t, b)
  PROVE  Placing(DeleteRest([Received(op, t, b) EXCEPT !.found = docs], docs), t, b)
<1> DEFINE listed == [Received(op, t, b) EXCEPT !.found = docs]
           gone == Replied([listed EXCEPT !.todo = {}], "204")
           more == [listed EXCEPT !.at = "unlink", !.todo = docs]
<1>1. /\ gone.op = op /\ gone.tenant = t /\ gone.bucket = b /\ gone.found = docs
      /\ gone.reply = "204"
      /\ more.op = op /\ more.tenant = t /\ more.bucket = b /\ more.found = docs
      /\ more.reply = "none"
  BY DEF Received, Replied
<1>2. DeleteRest(listed, docs) = IF docs = {} THEN gone ELSE more
  BY DEF DeleteRest
<1> HIDE DEF listed, gone, more
<1>3. docs = {} => Placing(gone, t, b)
  BY <1>1 DEF Placing, Finding, Deletions
<1>4. docs # {} => Placing(more, t, b)
  BY <1>1 DEF Placing, Finding, Deletions
<1>5. Placing(DeleteRest(listed, docs), t, b)
  BY <1>2, <1>3, <1>4
<1> QED BY <1>5 DEF listed

LEMMA DeleteFinds ==
  ASSUME TypeOK, NEW r \in Requests, NEW t \in Tenants, NEW b \in Buckets,
         NEW n \in Names, Delete(r, t, b, n)
  PROVE  Placing(req'[r], t, b)
<1> DEFINE q == Received("delete", t, b)
           none == Replied(q, "204")
           more(d) == DeleteRest([q EXCEPT !.found = {d}], {d})
<1>1. Placing(none, t, b)
  BY DEF Received, Replied, Placing, Finding
<1>2. ASSUME NEW d \in InBucket(t, b) PROVE Placing(more(d), t, b)
  BY RestFinds DEF Deletions
<1>3. Query(r, q, none) \/ \E d \in InBucket(t, b) : Query(r, q, more(d))
  BY DEF Delete, Named
<1> HIDE DEF none, more
<1> QED BY <1>1, <1>2, <1>3, QueryFinds

LEMMA DeleteBucketFinds ==
  ASSUME TypeOK, NEW r \in Requests, NEW t \in Tenants, NEW b \in Buckets,
         NEW force \in BOOLEAN, DeleteBucket(r, t, b, force)
  PROVE  Placing(req'[r], t, b)
<1> DEFINE q == Received("delete_bucket", t, b)
           docs == InBucket(t, b)
           listed == [q EXCEPT !.found = docs]
           full == Replied(listed, "409")
           rest == DeleteRest(listed, docs)
<1>1. docs # {} => Placing(full, t, b)
  BY DEF Received, Replied, Placing, Finding
<1>2. Placing(rest, t, b)
  BY RestFinds DEF Deletions
<1>3. (docs # {} /\ Query(r, q, full)) \/ Query(r, q, rest)
  BY DEF DeleteBucket
<1> HIDE DEF docs, full, rest
<1> QED BY <1>1, <1>2, <1>3, QueryFinds

LEMMA ReceiveFinds ==
  ASSUME TypeOK, NEW r \in Requests, Receive(r)
  PROVE  \E t \in Tenants, b \in Buckets : Placing(req'[r], t, b)
BY UploadFinds, DownloadFinds, DeleteFinds, DeleteBucketFinds DEF Receive

\* The documents of a bucket are the files FileStore lists there.
LEMMA ListedFiles ==
  ASSUME StoreInv, NEW t \in Tenants, NEW b \in Buckets
  PROVE  Files!Listed(<<t, b>>) = {d.blob : d \in InBucket(t, b)}
<1>1. ASSUME NEW d \in metadata
      PROVE  /\ d \in Doc /\ d.blob \in Requests /\ FileOf(d.blob) \in {"stored", "damaged"}
             /\ req[d.blob] # NotReceived
             /\ req[d.blob].tenant = d.tenant /\ req[d.blob].bucket = d.bucket
  <2>1. d \in Doc /\ Known(d)
    BY NamedFile DEF NamesStand, Known
  <2>2. Over(d) /\ Kind(d)
    BY <2>1 DEF StoreInv, IInv, Documented
  <2> QED BY <2>1, <2>2, NamedFile DEF NamesStand, Over, Kind, Doc, NotReceived
<1>2. ASSUME NEW f \in Requests, req[f] # NotReceived
      PROVE  AskedNow[f].place = <<req[f].tenant, req[f].bucket>>
  BY <1>2 DEF AskedNow, Asked
<1>3. ASSUME NEW f \in Requests, FileOf(f) \in {"stored", "damaged"}
      PROVE  \E d \in metadata : d.blob = f
  BY <1>3 DEF FileOf
<1>4. \A f : f \in Files!Listed(<<t, b>>) <=>
              /\ f \in Requests /\ FileOf(f) \in {"stored", "damaged"}
              /\ AskedNow[f].place = <<t, b>>
  BY DEF Files!Listed, AskedNow
<1>5. ASSUME NEW f, f \in Files!Listed(<<t, b>>) PROVE \E d \in InBucket(t, b) : f = d.blob
  <2>1. PICK d \in metadata : d.blob = f
    BY <1>3, <1>4, <1>5
  <2> QED BY <1>1, <1>2, <1>4, <1>5, <2>1 DEF InBucket
<1>6. ASSUME NEW d \in InBucket(t, b) PROVE d.blob \in Files!Listed(<<t, b>>)
  BY <1>1, <1>2, <1>4 DEF InBucket
<1> QED BY <1>5, <1>6

LEMMA ReceiveSeen ==
  ASSUME StoreInv, StoreInv', Next, NEW r \in Requests, Receive(r)
  PROVE  [Files!Next]_Seen
<1>0. TypeOK
  BY DEF StoreInv, IInv
<1>1. /\ req[r] = NotReceived /\ Alone(r) /\ req'[r] \in Request
      /\ UNCHANGED <<metadata, entries, chunks>>
  BY <1>0, ReceiveEffect
<1>2. FilesNow' = FilesNow
  BY <1>1, FileFrame, FilesStay
<1>3. PICK t \in Tenants, b \in Buckets : Placing(req'[r], t, b)
  BY <1>0, ReceiveFinds
<1>4. PICK all, p, found, op, reply :
         /\ all = {d.blob : d \in InBucket(t, b)} /\ p = <<t, b>>
         /\ found = {d.blob : d \in req'[r].found}
         /\ op = req'[r].op /\ reply = req'[r].reply
  OBVIOUS
<1>5. Files!Listed(p) = all
  BY <1>4, ListedFiles
<1>6. Files!Finds(op, all, found, reply) /\ found \subseteq all
  <2>1. /\ req'[r].found = {} => found = {}
        /\ \A d : req'[r].found = {d} => found = {d.blob}
        /\ req'[r].found = InBucket(t, b) => found = all
        /\ InBucket(t, b) = {} <=> all = {}
        /\ \A d \in InBucket(t, b) : d.blob \in all
    BY <1>4
  <2>2. Finding(req'[r], InBucket(t, b))
    BY <1>3 DEF Placing
  <2>3. CASE req'[r].op = "upload"
    BY <1>4, <2>1, <2>2, <2>3 DEF Finding, Files!Finds
  <2>4. CASE req'[r].op = "download"
    BY <1>4, <2>1, <2>2, <2>4 DEF Finding, Files!Finds
  <2>5. CASE req'[r].op = "delete"
    BY <1>4, <2>1, <2>2, <2>5 DEF Finding, Files!Finds
  <2>6. CASE req'[r].op = "delete_bucket"
    BY <1>4, <2>1, <2>2, <2>6 DEF Finding, Files!Finds
  <2> QED BY <2>2, <2>3, <2>4, <2>5, <2>6 DEF Finding
<1>7. /\ op \in {"upload", "download", "delete", "delete_bucket"}
      /\ reply \in {"none", "204", "304", "404", "409", "500"}
  BY <1>6 DEF Files!Finds
<1>8. AskedNow' = [AskedNow EXCEPT ![r] = [op |-> op, place |-> p, found |-> found,
                                           reply |-> reply]]
  <2>1. req'[r] # NotReceived
    BY <1>1 DEF Request, NotReceived
  <2>2. Asked(r)' = [op |-> op, place |-> p, found |-> found, reply |-> reply]
    BY <1>3, <1>4, <2>1 DEF Asked, Placing
  <2>3. \A u \in Requests \ {r} : Asked(u)' = Asked(u)
    BY <1>1 DEF Alone, Asked
  <2> QED BY <2>2, <2>3 DEF AskedNow
<1>9. AskedNow[r] = Files!NotAsked
  BY <1>1 DEF AskedNow, Asked, Files!NotAsked
<1>10. Files!Ask(r)
  <2>1. p \in Tenants \X Buckets
    BY <1>4
  <2> USE <1>7, <2>1
  <2>2. found \in SUBSET Files!Listed(p) /\ Files!Finds(op, Files!Listed(p), found, reply)
    BY <1>5, <1>6
  <2>3. \E o \in {"upload", "download", "delete", "delete_bucket"}, w \in Tenants \X Buckets :
           \E fs \in SUBSET Files!Listed(w),
              a \in {"none", "204", "304", "404", "409", "500"} :
              /\ Files!Finds(o, Files!Listed(w), fs, a)
              /\ AskedNow' = [AskedNow EXCEPT ![r] = [op |-> o, place |-> w, found |-> fs,
                                                     reply |-> a]]
    <3> USE <2>2
    <3> WITNESS op \in {"upload", "download", "delete", "delete_bucket"}, p \in Tenants \X Buckets
    <3> WITNESS found \in SUBSET Files!Listed(p),
                reply \in {"none", "204", "304", "404", "409", "500"}
    <3> QED BY <1>8
  <2> QED BY <1>2, <1>9, <2>3 DEF Files!Ask, FilesNow, AskedNow
<1> QED BY <1>10 DEF Files!Next

----------------------------------------------------------------------------
LEMMA InitSeen == Init => Files!Init
<1> SUFFICES ASSUME Init PROVE Files!Init
  OBVIOUS
<1>1. ASSUME NEW f \in Requests PROVE FileOf(f) = "absent"
  BY DEF Init, FileOf, NotReceived
<1>2. ASSUME NEW r \in Requests PROVE Asked(r) = Files!NotAsked
  BY DEF Init, Asked, Files!NotAsked
<1> QED BY <1>1, <1>2 DEF Files!Init

LEMMA StepSeen ==
  ASSUME StoreInv, StoreInv', [Next]_vars
  PROVE  [Files!Next]_Seen
<1>1. CASE UNCHANGED vars
  BY <1>1 DEF vars, store, Seen, FilesNow, AskedNow, FileOf, Asked, Deleters
<1>2. CASE Next
  <2>1. CASE Crash
    BY <1>2, <2>1, CrashSeen
  <2>2. ASSUME NEW r \in Requests, Receive(r) \/ Handle(r) PROVE [Files!Next]_Seen
    BY <1>2, <2>2, ReceiveSeen, WriteSeen, InsertSeen, DownloadSeen, UnlinkSeen, PurgeSeen,
       ForgetSeen DEF Handle
  <2> QED BY <1>2, <2>1, <2>2 DEF Next
<1> QED BY <1>1, <1>2

\* To its clients a file is one thing, though the service keeps it in three
\* collections and changes one at a time: whatever overlaps or fails, a file
\* comes to be in one step, only a deletion that found it takes it away, and
\* 200 and 204 are answered when they are true.
THEOREM FilesAreOneThing == Spec => ImplementsFileStore
<1>1. [Files!Next]_Seen => [Files!Next]_<<[f \in Requests |-> FileOf(f)],
                                          [r \in Requests |-> Asked(r)]>>
  BY DEF Seen, FilesNow, AskedNow
<1> QED BY <1>1, StoreInvariant, InitSeen, StepSeen, PTL
        DEF Spec, ImplementsFileStore, Files!Spec

============================================================================
