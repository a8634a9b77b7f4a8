---------------------------- MODULE FileStorage ----------------------------
(***************************************************************************)
(* apps/simple_storage: a FastAPI service that keeps the bytes of a file in *)
(* a GridFS bucket and its name in a collection of FileMetadata documents. *)
(* The two are not updated together: every request is a series of awaited  *)
(* calls to MongoDB, and other requests run between two of them.           *)
(*                                                                         *)
(* An action is one awaited call of one request with the code up to the    *)
(* next one.  GridFS itself keeps a file in two collections, the entries   *)
(* and the chunks, and writes them one after the other (external).         *)
(***************************************************************************)
EXTENDS Naturals

CONSTANTS
  Requests,    \* requests the service receives; also the ids of the GridFS
               \* files, each upload creating at most one
  Tenants, Buckets, Names,
  NoDoc,       \* no document
  MaxFaults,   \* bound: calls to MongoDB that fail
  MaxCrashes   \* bound: crashes of the service

ASSUME ConstantsAssumption ==
  /\ MaxFaults \in Nat
  /\ MaxCrashes \in Nat

VARIABLES
  metadata,    \* the FileMetadata documents
  entries,     \* ids in the GridFS files collection
  chunks,      \* ids in the GridFS chunks collection
  req,         \* the requests
  faults,      \* failed calls so far
  crashes      \* crashes so far

store == <<metadata, entries, chunks>>
vars == <<store, req, faults, crashes>>

----------------------------------------------------------------------------
Doc == [tenant : Tenants, bucket : Buckets, name : Names, blob : Requests]

\* The call a request awaits.
Uploading   == {"write_chunks", "write_entry", "insert"}
Downloading == {"open", "stream"}
Deleting    == {"unlink", "purge", "purge_missing", "forget"}
Active      == Uploading \cup Downloading \cup Deleting

\* HTTP status; "cut" is a 200 whose body ends before its Content-Length.
Replies == {"200", "201", "204", "304", "404", "409", "500", "cut"}

\* found: what the query of the metadata returned.  todo: the documents a
\* deletion has not finished with.  cur: the document at hand.  lost: the
\* service died under the request.
Request ==
  [op : {"upload", "download", "delete", "delete_bucket"},
   at : Active \cup {"done", "lost"}, tenant : Tenants, bucket : Buckets,
   found : SUBSET Doc, todo : SUBSET Doc, cur : Doc \cup {NoDoc},
   reply : Replies \cup {"none"}]

NotReceived == [op |-> "none", at |-> "new", found |-> {}, todo |-> {},
                cur |-> NoDoc, reply |-> "none"]

Received(op, t, b) ==
  [op |-> op, at |-> "new", tenant |-> t, bucket |-> b, found |-> {}, todo |-> {},
   cur |-> NoDoc, reply |-> "none"]

Unfinished(q, status) == [q EXCEPT !.reply = status]
Replied(q, status) == [q EXCEPT !.at = "done", !.reply = status]

OfAnyTenant(t, b) == {d \in metadata : d.bucket = b}

InBucket(t, b) == {d \in metadata : d.tenant = t /\ d.bucket = b}
Named(t, b, n) == {d \in InBucket(t, b) : d.name = n}

Init ==
  /\ metadata = {} /\ entries = {} /\ chunks = {}
  /\ req = [r \in Requests |-> NotReceived]
  /\ faults = 0
  /\ crashes = 0

\* A call of the request q, in r, makes the collections m, e and c, and q goes
\* on as next.  Or the call raises, before MongoDB did it or after, and the
\* request answers 500.
Call(r, q, m, e, c, next) ==
  /\ \/ /\ metadata' = m /\ entries' = e /\ chunks' = c
        /\ req' = [req EXCEPT ![r] = next]
        /\ UNCHANGED faults
     \/ /\ faults < MaxFaults
        /\ faults' = faults + 1
        /\ req' = [req EXCEPT ![r] = Replied(q, "500")]
        /\ \/ UNCHANGED store
           \/ metadata' = m /\ entries' = e /\ chunks' = c
  /\ UNCHANGED crashes

Query(r, q, next) == Call(r, q, metadata, entries, chunks, next)

----------------------------------------------------------------------------
(* upload_file.                                                            *)

\* The checks of the name and the size come before the first call and leave
\* nothing behind; what arrives here has passed them.
Upload(r, t, b, n) ==
  LET q == Received("upload", t, b)
      doc == [tenant |-> t, bucket |-> b, name |-> n, blob |-> r]
  IN  /\ req[r] = NotReceived
      /\ Query(r, q, IF Named(t, b, n) # {} THEN Replied(q, "409")
                     ELSE [q EXCEPT !.at = "write_chunks", !.cur = doc])

WriteNameFirst(r) ==
  /\ req[r].at = "write_chunks"
  /\ Call(r, req[r], metadata \cup {req[r].cur}, entries, chunks \cup {r},
          [req[r] EXCEPT !.at = "write_entry"])

\* upload_from_stream, in its two writes.
WriteChunks(r) ==
  /\ req[r].at = "write_chunks"
  /\ Call(r, req[r], metadata, entries, chunks \cup {r},
          [req[r] EXCEPT !.at = "write_entry"])

WriteEntry(r) ==
  /\ req[r].at = "write_entry"
  /\ Call(r, req[r], metadata, entries \cup {r}, chunks,
          [req[r] EXCEPT !.at = "insert"])

\* FileMetadata(...).insert()
Insert(r) ==
  /\ req[r].at = "insert"
  /\ Call(r, req[r], metadata \cup {req[r].cur}, entries, chunks,
          Replied(req[r], "201"))

----------------------------------------------------------------------------
(* download_object.                                                        *)

\* Whether the client has the file already (304) is up to the client.
Download(r, t, b, n) ==
  LET q == Received("download", t, b)
      docs == Named(t, b, n)
  IN  /\ req[r] = NotReceived
      /\ \/ docs = {} /\ Query(r, q, Replied(q, "404"))
         \/ \E d \in docs :
               LET known == [q EXCEPT !.found = {d}, !.cur = d]
               IN  \/ Query(r, q, Replied(known, "304"))
                   \/ Query(r, q, [known EXCEPT !.at = "open"])

\* open_download_stream raises NoFile when there is no entry.
Open(r) ==
  /\ req[r].at = "open"
  /\ Query(r, req[r], IF req[r].cur.blob \in entries
                      THEN [req[r] EXCEPT !.at = "stream"]
                      ELSE Replied(req[r], "500"))

\* The body is read after the status and the headers are sent.
Stream(r) ==
  /\ req[r].at = "stream"
  /\ \/ /\ req' = [req EXCEPT ![r] =
                     Replied(@, IF @.cur.blob \in chunks THEN "200" ELSE "cut")]
        /\ UNCHANGED faults
     \/ /\ faults < MaxFaults
        /\ faults' = faults + 1
        /\ req' = [req EXCEPT ![r] = Replied(@, "cut")]
  /\ UNCHANGED <<store, crashes>>

----------------------------------------------------------------------------
(* delete_object and delete_bucket.                                        *)

\* The loop over the documents found, with todo still to do.
ReturnInLoop(q, todo) ==
  IF todo # q.found \/ todo = {}
  THEN Replied([q EXCEPT !.todo = {}], "204")
  ELSE [q EXCEPT !.at = "unlink", !.todo = todo]

DeleteRest(q, todo) ==
  IF todo = {} THEN Replied([q EXCEPT !.todo = {}], "204")
               ELSE [q EXCEPT !.at = "unlink", !.todo = todo]

Delete(r, t, b, n) ==
  LET q == Received("delete", t, b)
      docs == Named(t, b, n)
  IN  /\ req[r] = NotReceived
      /\ \/ docs = {} /\ Query(r, q, Replied(q, "204"))
         \/ \E d \in docs : Query(r, q, DeleteRest([q EXCEPT !.found = {d}], {d}))

DeleteBucket(r, t, b, force) ==
  LET q == Received("delete_bucket", t, b)
      docs == InBucket(t, b)
      listed == [q EXCEPT !.found = docs]
  IN  /\ req[r] = NotReceived
      /\ Query(r, q, IF ~force /\ docs # {} THEN Replied(listed, "409")
                     ELSE DeleteRest(listed, docs))

\* gridfs.delete removes the entry, then the chunks, and raises NoFile at the
\* end when there was no entry.
Unlink(r) ==
  /\ req[r].at = "unlink"
  /\ \E d \in req[r].todo :
        Call(r, req[r], metadata, entries \ {d.blob}, chunks,
             [req[r] EXCEPT !.cur = d,
                            !.at = IF d.blob \in entries THEN "purge"
                                   ELSE "purge_missing"])

Purge(r) ==
  /\ req[r].at \in {"purge", "purge_missing"}
  /\ Call(r, req[r], metadata, entries, chunks \ {req[r].cur.blob},
          IF req[r].at = "purge" THEN [req[r] EXCEPT !.at = "forget"]
                                 ELSE Replied(req[r], "500"))

\* file_metadata.delete()
ForgetByName(r) ==
  /\ req[r].at = "forget"
  /\ LET d == req[r].cur
     IN  Call(r, req[r], metadata \ Named(d.tenant, d.bucket, d.name), entries, chunks,
              DeleteRest(req[r], req[r].todo \ {d}))

Forget(r) ==
  /\ req[r].at = "forget"
  /\ Call(r, req[r], metadata \ {req[r].cur}, entries, chunks,
          DeleteRest(req[r], req[r].todo \ {req[r].cur}))

----------------------------------------------------------------------------
\* The service dies; it keeps nothing in memory but its requests.
Crash ==
  /\ crashes < MaxCrashes
  /\ crashes' = crashes + 1
  /\ \E r \in Requests : req[r].at \in Active
  /\ req' = [r \in Requests |-> IF req[r].at \in Active
                                THEN [req[r] EXCEPT !.at = "lost"] ELSE req[r]]
  /\ UNCHANGED <<store, faults>>

Receive(r) ==
  \E t \in Tenants, b \in Buckets :
     \/ \E n \in Names : Upload(r, t, b, n) \/ Download(r, t, b, n) \/ Delete(r, t, b, n)
     \/ \E force \in BOOLEAN : DeleteBucket(r, t, b, force)

Handle(r) ==
  \/ WriteChunks(r) \/ WriteEntry(r) \/ Insert(r)
  \/ Open(r) \/ Stream(r)
  \/ Unlink(r) \/ Purge(r) \/ Forget(r)

Next == Crash \/ \E r \in Requests : Receive(r) \/ Handle(r)

Spec == Init /\ [][Next]_vars

----------------------------------------------------------------------------
(* Properties.                                                             *)

\* Every variable keeps its type.
TypeOK ==
  /\ metadata \in SUBSET Doc
  /\ entries \in SUBSET Requests
  /\ chunks \in SUBSET Requests
  /\ req \in [Requests -> Request \cup {NotReceived}]
  /\ faults \in 0 .. MaxFaults
  /\ crashes \in 0 .. MaxCrashes

Stored(d) == d.blob \in entries /\ d.blob \in chunks

\* The deletions that found d and set about deleting it.
Deleters(d) == {r \in Requests : /\ req[r].op \in {"delete", "delete_bucket"}
                                 /\ req[r].reply # "409"
                                 /\ d \in req[r].found}

\* A file whose upload answered 201 stays, name, entry and chunks, through
\* failed calls, crashes and every other request, until a deletion finds it.
UploadedIsDurable ==
  \A r \in Requests :
     req[r].op = "upload" /\ req[r].reply = "201" /\ Deleters(req[r].cur) = {}
     => req[r].cur \in metadata /\ Stored(req[r].cur)

\* After a deletion answered 204 nothing is left of the files it found, in the
\* metadata or in GridFS, and nothing brings them back; for delete_bucket this
\* is every file the bucket had when the request came.
DeletedIsGone ==
  \A r \in Requests :
     req[r].op \in {"delete", "delete_bucket"} /\ req[r].reply = "204"
     => \A d \in req[r].found : d \notin metadata /\ d.blob \notin entries \cup chunks

\* As long as no call failed and nothing crashed the two stores agree, but for
\* the requests at work: no file without a name and no name without its file.
StoresAgree ==
  faults = 0 /\ crashes = 0 =>
    /\ \A b \in entries \cup chunks :
          \/ \E d \in metadata : d.blob = b
          \/ req[b].at \in Uploading
    /\ \A d \in metadata :
          \/ Stored(d)
          \/ \E r \in Deleters(d) : req[r].at \in Deleting /\ req[r].cur = d

\* Whatever fails, an upload leaves at worst bytes without a name, never a
\* name without its bytes: only a deletion that found the file takes them from
\* under the name.
NamesHaveFiles ==
  \A d \in metadata : Stored(d) \/ Deleters(d) # {}

\* Without failed calls a request that found its file answers 500, or breaks
\* off after its 200, only because another request, a deletion, found the same
\* file; a crash between the steps of an earlier upload is no reason.
FailsOnlyByDelete ==
  \A r \in Requests :
     faults = 0 /\ req[r].cur # NoDoc /\ req[r].reply \in {"500", "cut"}
     => Deleters(req[r].cur) \ {r} # {}

\* A document, an entry or chunks go away only in a step of a deletion of the
\* tenant and the bucket they belong to.
Owners(d) == {r \in Requests : /\ req[r].at \in Deleting
                               /\ req[r].tenant = d.tenant
                               /\ req[r].bucket = d.bucket}
TenantsIsolated ==
  [][/\ \A d \in metadata \ metadata' : Owners(d) # {}
     /\ \A b \in (entries \cup chunks) \ (entries' \cup chunks') :
           Owners(req[b].cur) # {}]_vars

\* The file an upload made, and what is asked of the service and answered: to
\* its clients the three collections are one store, FileStore.  A 409 of
\* delete_bucket found files and took none.
FileOf(f) ==
  IF \E d \in metadata : d.blob = f
  THEN IF f \in entries /\ f \in chunks THEN "stored" ELSE "damaged"
  ELSE IF \E r \in Requests : \E d \in req[r].found : d.blob = f /\ r \in Deleters(d)
  THEN "removed" ELSE "absent"

Asked(r) ==
  IF req[r] = NotReceived THEN [op |-> "none", found |-> {}, reply |-> "none"]
  ELSE [op |-> req[r].op, place |-> <<req[r].tenant, req[r].bucket>>,
        found |-> {d.blob : d \in req[r].found}, reply |-> req[r].reply]

Files == INSTANCE FileStore WITH Places <- Tenants \X Buckets,
                                 file <- [f \in Requests |-> FileOf(f)],
                                 asked <- [r \in Requests |-> Asked(r)]
ImplementsFileStore == Files!Spec

\* upload_file refuses a name that "already exists in bucket"; a run refutes it
\* for two uploads that both look before either inserts.
UniqueNames ==
  \A d, e \in metadata :
     d.tenant = e.tenant /\ d.bucket = e.bucket /\ d.name = e.name => d = e

============================================================================
