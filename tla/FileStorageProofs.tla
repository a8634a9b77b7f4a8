------------------------- MODULE FileStorageProofs -------------------------
(***************************************************************************)
(* Theorems of FileStorage, for every set of requests, tenants, buckets    *)
(* and names, and any number of failed calls and crashes.                  *)
(***************************************************************************)
EXTENDS FileStorage, TLAPS

----------------------------------------------------------------------------
(* The invariant.                                                          *)

Deletions == {"delete", "delete_bucket"}
PastUnlink == {"purge", "purge_missing", "forget"}

\* What a request is about, by the call it awaits.
Stage(r) ==
  LET q == req[r]
  IN  /\ q.at \in Active => q.reply = "none"
      /\ q.at \in Uploading => q.op = "upload" /\ q.cur \in Doc /\ q.cur.blob = r
      /\ q.at \in Downloading => q.op = "download" /\ q.cur \in q.found
      /\ q.at \in Deleting =>
            /\ q.op \in Deletions /\ q.todo \subseteq q.found
            /\ \A d \in q.found : d.tenant = q.tenant /\ d.bucket = q.bucket
      /\ q.at \in PastUnlink => q.cur \in q.todo

\* A document somebody can see is the one its upload was about, which is over:
\* no later call of it puts anything back.
Known(d) == d \in metadata \/ \E r \in Requests : d \in req[r].found
Over(d) ==
  LET q == req[d.blob] IN q.op = "upload" /\ q.at = "done" /\ q.cur = d

\* An upload finds what it wrote before.
Written(r) ==
  /\ req[r].at = "write_entry" => r \in chunks
  /\ req[r].at = "insert" => r \in chunks /\ r \in entries

\* The entry of a file goes before its chunks, and by a deletion that is past
\* its unlink of the file.
Unlinked(r, d) ==
  \/ d \notin req[r].todo
  \/ req[r].at \in {"done", "lost"}
  \/ req[r].at \in PastUnlink /\ req[r].cur = d
Whole(d) ==
  IF d.blob \in entries THEN d.blob \in chunks
                        ELSE \E r \in Deleters(d) : Unlinked(r, d)

\* What a deletion has removed so far.
Gone(d) == d \notin metadata /\ d.blob \notin entries /\ d.blob \notin chunks
Progress(r) ==
  LET q == req[r]
  IN  /\ q.at \in Deleting => \A d \in q.found \ q.todo : Gone(d)
      /\ q.at \in PastUnlink => q.cur.blob \notin entries
      /\ q.at = "forget" => q.cur.blob \notin chunks
      /\ q.at = "purge_missing" => \E u \in Deleters(q.cur) : u # r
      /\ q.op \in Deletions /\ q.reply = "204" => \A d \in q.found : Gone(d)

Durable(r) ==
  req[r].op = "upload" /\ req[r].reply = "201"
  => /\ Over(req[r].cur)
     /\ req[r].cur \in Doc
     /\ req[r].cur \in metadata \/ \E u \in Deleters(req[r].cur) : TRUE

Blamed(r) ==
  faults = 0 /\ req[r].cur # NoDoc /\ req[r].reply \in {"500", "cut"}
  => \E u \in Deleters(req[r].cur) : u # r

\* Without failures: bytes have a name or an upload at work, and a name without
\* its entry has the deletion that took the entry, still at work.
HasName(b) == \E d \in metadata : d.blob = b
Clean ==
  faults = 0 /\ crashes = 0 =>
    /\ \A b \in Requests : b \in entries \/ b \in chunks =>
          HasName(b) \/ req[b].at \in Uploading
    /\ \A d \in metadata : d.blob \notin entries =>
          \E r \in Deleters(d) : req[r].at \in {"purge", "forget"} /\ req[r].cur = d

Requested ==
  \A r \in Requests : Stage(r) /\ Written(r) /\ Progress(r) /\ Durable(r) /\ Blamed(r)
Documented == \A d \in Doc : Known(d) => Over(d) /\ Whole(d)

IInv == TypeOK /\ Requested /\ Documented /\ Clean

----------------------------------------------------------------------------
(* What each step does, field by field.                                    *)

Same(r) ==
  /\ req'[r].op = req[r].op /\ req'[r].found = req[r].found
  /\ req'[r].tenant = req[r].tenant /\ req'[r].bucket = req[r].bucket

\* A call of r that returns, and one that raises.
Went(r, at, cur, todo, reply) ==
  /\ req'[r].at = at /\ req'[r].cur = cur /\ req'[r].todo = todo /\ req'[r].reply = reply
  /\ faults' = faults
Raised(r) ==
  /\ req'[r].at = "done" /\ req'[r].cur = req[r].cur
  /\ req'[r].todo = req[r].todo /\ req'[r].reply = "500"
  /\ faults' = faults + 1

\* A step of the request r: nothing changes in the others.
Alone(r) ==
  /\ req' \in [Requests -> Request \cup {NotReceived}]
  /\ \A u \in Requests \ {r} : req'[u] = req[u]
  /\ faults' \in 0 .. MaxFaults
  /\ crashes' = crashes

At(r, stages) ==
  /\ req[r].at \in stages /\ req[r] \in Request
  /\ Alone(r) /\ Same(r)

LEMMA ActiveType ==
  ASSUME TypeOK, NEW r \in Requests, req[r].at \in Active
  PROVE  req[r] \in Request
  BY DEF TypeOK, NotReceived, Active, Uploading, Downloading, Deleting

\* A call of an active request that only changes where the request is.
LEMMA CallEffect ==
  ASSUME TypeOK, NEW r \in Requests, req[r].at \in Active,
         NEW m, NEW e, NEW c, NEW next \in Request,
         Call(r, req[r], m, e, c, next)
  PROVE  /\ Alone(r)
         /\ \/ /\ req'[r] = next /\ faults' = faults
               /\ metadata' = m /\ entries' = e /\ chunks' = c
            \/ /\ Raised(r) /\ Same(r)
               /\ \/ UNCHANGED <<metadata, entries, chunks>>
                  \/ metadata' = m /\ entries' = e /\ chunks' = c
<1>1. req[r] \in Request
  BY ActiveType
<1>2. /\ Replied(req[r], "500") \in Request
      /\ Replied(req[r], "500").at = "done" /\ Replied(req[r], "500").reply = "500"
      /\ Replied(req[r], "500").cur = req[r].cur /\ Replied(req[r], "500").todo = req[r].todo
      /\ Replied(req[r], "500").op = req[r].op /\ Replied(req[r], "500").found = req[r].found
      /\ Replied(req[r], "500").tenant = req[r].tenant
      /\ Replied(req[r], "500").bucket = req[r].bucket
  BY <1>1 DEF Replied, Request, Replies
<1>3. crashes' = crashes
  BY DEF Call
<1>4. CASE /\ req' = [req EXCEPT ![r] = next] /\ faults' = faults
           /\ metadata' = m /\ entries' = e /\ chunks' = c
  BY <1>3, <1>4 DEF Alone, TypeOK
<1>5. CASE /\ faults < MaxFaults /\ faults' = faults + 1
           /\ req' = [req EXCEPT ![r] = Replied(req[r], "500")]
           /\ \/ UNCHANGED <<metadata, entries, chunks>>
              \/ metadata' = m /\ entries' = e /\ chunks' = c
  <2>1. req'[r] = Replied(req[r], "500")
    BY <1>5 DEF TypeOK
  <2>2. Alone(r)
    BY <1>2, <1>3, <1>5, ConstantsAssumption DEF Alone, TypeOK
  <2> QED BY <1>2, <1>5, <2>1, <2>2 DEF Raised, Same
<1> QED BY <1>4, <1>5 DEF Call, store

LEMMA WriteChunksEffect ==
  ASSUME TypeOK, NEW r \in Requests, WriteChunks(r)
  PROVE  /\ At(r, {"write_chunks"})
         /\ UNCHANGED <<metadata, entries>>
         /\ \/ /\ Went(r, "write_entry", req[r].cur, req[r].todo, req[r].reply)
               /\ chunks' = chunks \cup {r}
            \/ Raised(r) /\ chunks' \in {chunks, chunks \cup {r}}
<1> DEFINE next == [req[r] EXCEPT !.at = "write_entry"]
<1>1. req[r].at = "write_chunks" /\ req[r].at \in Active
  BY DEF WriteChunks, Active, Uploading
<1>2. req[r] \in Request
  BY <1>1, ActiveType
<1>3. /\ next \in Request /\ next.at = "write_entry"
      /\ next.cur = req[r].cur /\ next.todo = req[r].todo /\ next.reply = req[r].reply
      /\ next.op = req[r].op /\ next.found = req[r].found
      /\ next.tenant = req[r].tenant /\ next.bucket = req[r].bucket
  BY <1>2 DEF Request, Active, Uploading
<1>4. Call(r, req[r], metadata, entries, chunks \cup {r}, next)
  BY DEF WriteChunks
<1> HIDE DEF next
<1> QED BY <1>1, <1>2, <1>3, <1>4, CallEffect DEF At, Same, Went

LEMMA WriteEntryEffect ==
  ASSUME TypeOK, NEW r \in Requests, WriteEntry(r)
  PROVE  /\ At(r, {"write_entry"})
         /\ UNCHANGED <<metadata, chunks>>
         /\ \/ /\ Went(r, "insert", req[r].cur, req[r].todo, req[r].reply)
               /\ entries' = entries \cup {r}
            \/ Raised(r) /\ entries' \in {entries, entries \cup {r}}
<1> DEFINE next == [req[r] EXCEPT !.at = "insert"]
<1>1. req[r].at = "write_entry" /\ req[r].at \in Active
  BY DEF WriteEntry, Active, Uploading
<1>2. req[r] \in Request
  BY <1>1, ActiveType
<1>3. /\ next \in Request /\ next.at = "insert"
      /\ next.cur = req[r].cur /\ next.todo = req[r].todo /\ next.reply = req[r].reply
      /\ next.op = req[r].op /\ next.found = req[r].found
      /\ next.tenant = req[r].tenant /\ next.bucket = req[r].bucket
  BY <1>2 DEF Request, Active, Uploading
<1>4. Call(r, req[r], metadata, entries \cup {r}, chunks, next)
  BY DEF WriteEntry
<1> HIDE DEF next
<1> QED BY <1>1, <1>2, <1>3, <1>4, CallEffect DEF At, Same, Went

\* A reply ends a request.
LEMMA RepliedType ==
  ASSUME NEW q \in Request, NEW s \in Replies
  PROVE  /\ Replied(q, s) \in Request
         /\ Replied(q, s).at = "done" /\ Replied(q, s).reply = s
         /\ Replied(q, s).cur = q.cur /\ Replied(q, s).todo = q.todo
         /\ Replied(q, s).op = q.op /\ Replied(q, s).found = q.found
         /\ Replied(q, s).tenant = q.tenant /\ Replied(q, s).bucket = q.bucket
  BY DEF Replied, Request

LEMMA InsertEffect ==
  ASSUME TypeOK, NEW r \in Requests, Insert(r)
  PROVE  /\ At(r, {"insert"})
         /\ UNCHANGED <<entries, chunks>>
         /\ \/ /\ Went(r, "done", req[r].cur, req[r].todo, "201")
               /\ metadata' = metadata \cup {req[r].cur}
            \/ Raised(r) /\ metadata' \in {metadata, metadata \cup {req[r].cur}}
<1> DEFINE next == Replied(req[r], "201")
<1>1. req[r].at = "insert" /\ req[r].at \in Active
  BY DEF Insert, Active, Uploading
<1>2. req[r] \in Request
  BY <1>1, ActiveType
<1>3. /\ next \in Request /\ next.at = "done"
      /\ next.cur = req[r].cur /\ next.todo = req[r].todo /\ next.reply = "201"
      /\ next.op = req[r].op /\ next.found = req[r].found
      /\ next.tenant = req[r].tenant /\ next.bucket = req[r].bucket
  BY <1>2, RepliedType DEF Replies
<1>4. Call(r, req[r], metadata \cup {req[r].cur}, entries, chunks, next)
  BY DEF Insert
<1> HIDE DEF next
<1> QED BY <1>1, <1>2, <1>3, <1>4, CallEffect DEF At, Same, Went

LEMMA OpenEffect ==
  ASSUME TypeOK, NEW r \in Requests, Open(r)
  PROVE  /\ At(r, {"open"})
         /\ UNCHANGED <<metadata, entries, chunks>>
         /\ \/ Went(r, "stream", req[r].cur, req[r].todo, req[r].reply)
            \/ /\ Went(r, "done", req[r].cur, req[r].todo, "500")
               /\ req[r].cur.blob \notin entries
            \/ Raised(r)
<1> DEFINE more == [req[r] EXCEPT !.at = "stream"]
           none == Replied(req[r], "500")
           next == IF req[r].cur.blob \in entries THEN more ELSE none
<1>1. req[r].at = "open" /\ req[r].at \in Active
  BY DEF Open, Active, Downloading
<1>2. req[r] \in Request
  BY <1>1, ActiveType
<1>3. /\ more \in Request /\ more.at = "stream"
      /\ more.cur = req[r].cur /\ more.todo = req[r].todo /\ more.reply = req[r].reply
      /\ more.op = req[r].op /\ more.found = req[r].found
      /\ more.tenant = req[r].tenant /\ more.bucket = req[r].bucket
  BY <1>2 DEF Request, Active, Downloading
<1>4. /\ none \in Request /\ none.at = "done"
      /\ none.cur = req[r].cur /\ none.todo = req[r].todo /\ none.reply = "500"
      /\ none.op = req[r].op /\ none.found = req[r].found
      /\ none.tenant = req[r].tenant /\ none.bucket = req[r].bucket
  BY <1>2, RepliedType DEF Replies
<1>5. Call(r, req[r], metadata, entries, chunks, next)
  BY DEF Open, Query
<1> HIDE DEF more, none
<1>6. next \in Request
  BY <1>3, <1>4
<1> HIDE DEF next
<1>7. next = more \/ (next = none /\ req[r].cur.blob \notin entries)
  BY DEF next
<1> QED BY <1>1, <1>2, <1>3, <1>4, <1>5, <1>6, <1>7, CallEffect DEF At, Same, Went

LEMMA StreamEffect ==
  ASSUME TypeOK, NEW r \in Requests, Stream(r)
  PROVE  /\ At(r, {"stream"})
         /\ UNCHANGED <<metadata, entries, chunks>>
         /\ req'[r].at = "done" /\ req'[r].cur = req[r].cur /\ req'[r].todo = req[r].todo
         /\ \/ req'[r].reply = "200" /\ faults' = faults /\ req[r].cur.blob \in chunks
            \/ req'[r].reply = "cut" /\ faults' = faults /\ req[r].cur.blob \notin chunks
            \/ req'[r].reply = "cut" /\ faults' = faults + 1
<1>1. req[r].at = "stream" /\ req[r].at \in Active
  BY DEF Stream, Active, Downloading
<1>2. req[r] \in Request
  BY <1>1, ActiveType
<1>3. faults' \in 0 .. MaxFaults /\ crashes' = crashes
  BY ConstantsAssumption DEF Stream, TypeOK
<1>4. PICK s \in {"200", "cut"} :
         /\ req' = [req EXCEPT ![r] = Replied(req[r], s)]
         /\ \/ s = "200" /\ faults' = faults /\ req[r].cur.blob \in chunks
            \/ s = "cut" /\ faults' = faults /\ req[r].cur.blob \notin chunks
            \/ s = "cut" /\ faults' = faults + 1
  BY DEF Stream
<1>5. req'[r] = Replied(req[r], s) /\ s \in Replies
  BY <1>4 DEF TypeOK, Replies
<1>6. Alone(r)
  BY <1>2, <1>3, <1>4, <1>5, RepliedType DEF Alone, TypeOK
<1> QED BY <1>1, <1>2, <1>4, <1>5, <1>6, RepliedType DEF At, Same, Stream, store

LEMMA UnlinkEffect ==
  ASSUME TypeOK, NEW r \in Requests, Unlink(r)
  PROVE  /\ At(r, {"unlink"})
         /\ UNCHANGED <<metadata, chunks>>
         /\ \E d \in req[r].todo :
               \/ /\ entries' = entries \ {d.blob}
                  /\ \/ /\ d.blob \in entries
                        /\ Went(r, "purge", d, req[r].todo, req[r].reply)
                     \/ /\ d.blob \notin entries
                        /\ Went(r, "purge_missing", d, req[r].todo, req[r].reply)
               \/ Raised(r) /\ entries' \in {entries, entries \ {d.blob}}
<1>1. req[r].at = "unlink" /\ req[r].at \in Active
  BY DEF Unlink, Active, Deleting
<1>2. req[r] \in Request
  BY <1>1, ActiveType
<1>3. PICK d \in req[r].todo :
         Call(r, req[r], metadata, entries \ {d.blob}, chunks,
             [req[r] EXCEPT !.cur = d,
                            !.at = IF d.blob \in entries THEN "purge"
                                   ELSE "purge_missing"])
  BY DEF Unlink
<1> DEFINE at == IF d.blob \in entries THEN "purge" ELSE "purge_missing"
           next == [req[r] EXCEPT !.cur = d, !.at = at]
<1>4. d \in Doc /\ at \in Active
  BY <1>2 DEF Request, Active, Deleting
<1>5. /\ next \in Request /\ next.at = at
      /\ next.cur = d /\ next.todo = req[r].todo /\ next.reply = req[r].reply
      /\ next.op = req[r].op /\ next.found = req[r].found
      /\ next.tenant = req[r].tenant /\ next.bucket = req[r].bucket
  <2> HIDE DEF at
  <2> QED BY <1>2, <1>4 DEF Request
<1>6. Call(r, req[r], metadata, entries \ {d.blob}, chunks, next)
  BY <1>3
<1> HIDE DEF next
<1> QED BY <1>1, <1>2, <1>5, <1>6, CallEffect DEF At, Same, Went

LEMMA PurgeEffect ==
  ASSUME TypeOK, NEW r \in Requests, Purge(r)
  PROVE  /\ At(r, {"purge", "purge_missing"})
         /\ UNCHANGED <<metadata, entries>>
         /\ \/ /\ chunks' = chunks \ {req[r].cur.blob}
               /\ \/ /\ req[r].at = "purge"
                     /\ Went(r, "forget", req[r].cur, req[r].todo, req[r].reply)
                  \/ /\ req[r].at = "purge_missing"
                     /\ Went(r, "done", req[r].cur, req[r].todo, "500")
            \/ Raised(r) /\ chunks' \in {chunks, chunks \ {req[r].cur.blob}}
<1> DEFINE more == [req[r] EXCEPT !.at = "forget"]
           none == Replied(req[r], "500")
           next == IF req[r].at = "purge" THEN more ELSE none
<1>1. req[r].at \in {"purge", "purge_missing"} /\ req[r].at \in Active
  BY DEF Purge, Active, Deleting
<1>2. req[r] \in Request
  BY <1>1, ActiveType
<1>3. /\ more \in Request /\ more.at = "forget"
      /\ more.cur = req[r].cur /\ more.todo = req[r].todo /\ more.reply = req[r].reply
      /\ more.op = req[r].op /\ more.found = req[r].found
      /\ more.tenant = req[r].tenant /\ more.bucket = req[r].bucket
  BY <1>2 DEF Request, Active, Deleting
<1>4. /\ none \in Request /\ none.at = "done"
      /\ none.cur = req[r].cur /\ none.todo = req[r].todo /\ none.reply = "500"
      /\ none.op = req[r].op /\ none.found = req[r].found
      /\ none.tenant = req[r].tenant /\ none.bucket = req[r].bucket
  BY <1>2, RepliedType DEF Replies
<1>5. Call(r, req[r], metadata, entries, chunks \ {req[r].cur.blob}, next)
  BY DEF Purge
<1> HIDE DEF more, none
<1>6. next \in Request
  BY <1>3, <1>4
<1> HIDE DEF next
<1>7. \/ next = more /\ req[r].at = "purge"
      \/ next = none /\ req[r].at = "purge_missing"
  BY <1>1 DEF next
<1> QED BY <1>1, <1>2, <1>3, <1>4, <1>5, <1>6, <1>7, CallEffect DEF At, Same, Went

\* The loop goes on with the rest, or answers 204.
LEMMA DeleteRestType ==
  ASSUME NEW q \in Request, NEW todo \in SUBSET Doc
  PROVE  LET next == DeleteRest(q, todo)
         IN  /\ next \in Request
             /\ next.cur = q.cur /\ next.todo = todo
             /\ next.op = q.op /\ next.found = q.found
             /\ next.tenant = q.tenant /\ next.bucket = q.bucket
             /\ IF todo = {} THEN next.at = "done" /\ next.reply = "204"
                             ELSE next.at = "unlink" /\ next.reply = q.reply
  BY DEF DeleteRest, Replied, Request, Replies, Active, Deleting

LEMMA ForgetEffect ==
  ASSUME TypeOK, NEW r \in Requests, Forget(r)
  PROVE  /\ At(r, {"forget"})
         /\ UNCHANGED <<entries, chunks>>
         /\ \/ /\ metadata' = metadata \ {req[r].cur}
               /\ LET rest == req[r].todo \ {req[r].cur}
                  IN  \/ rest = {} /\ Went(r, "done", req[r].cur, rest, "204")
                      \/ rest # {} /\ Went(r, "unlink", req[r].cur, rest, req[r].reply)
            \/ Raised(r) /\ metadata' \in {metadata, metadata \ {req[r].cur}}
<1> DEFINE rest == req[r].todo \ {req[r].cur}
           next == DeleteRest(req[r], rest)
<1>1. req[r].at = "forget" /\ req[r].at \in Active
  BY DEF Forget, Active, Deleting
<1>2. req[r] \in Request /\ rest \in SUBSET Doc
  BY <1>1, ActiveType DEF Request
<1> HIDE DEF rest
<1>3. /\ next \in Request
      /\ next.cur = req[r].cur /\ next.todo = rest
      /\ next.op = req[r].op /\ next.found = req[r].found
      /\ next.tenant = req[r].tenant /\ next.bucket = req[r].bucket
      /\ IF rest = {} THEN next.at = "done" /\ next.reply = "204"
                      ELSE next.at = "unlink" /\ next.reply = req[r].reply
  BY <1>2, DeleteRestType
<1>4. Call(r, req[r], metadata \ {req[r].cur}, entries, chunks, next)
  BY DEF Forget, rest
<1> HIDE DEF next
<1>5. /\ Alone(r)
      /\ \/ /\ req'[r] = next /\ faults' = faults
            /\ metadata' = metadata \ {req[r].cur} /\ entries' = entries /\ chunks' = chunks
         \/ /\ Raised(r) /\ Same(r)
            /\ metadata' \in {metadata, metadata \ {req[r].cur}}
            /\ UNCHANGED <<entries, chunks>>
  BY <1>1, <1>3, <1>4, CallEffect
<1>6. Same(r) /\ At(r, {"forget"})
  BY <1>1, <1>2, <1>3, <1>5 DEF At, Same
<1>7. CASE req'[r] = next /\ faults' = faults
  <2>1. IF rest = {} THEN Went(r, "done", req[r].cur, rest, "204")
                     ELSE Went(r, "unlink", req[r].cur, rest, req[r].reply)
    BY <1>3, <1>7 DEF Went
  <2> QED BY <1>5, <1>6, <1>7, <2>1 DEF rest, Raised
<1>8. CASE Raised(r)
  BY <1>5, <1>6, <1>8
<1> QED BY <1>5, <1>7, <1>8

\* A request that arrives: what its first call makes of it.
Begun(r) ==
  /\ req'[r].op = "upload" /\ req'[r].at = "write_chunks" /\ req'[r].found = {}
  /\ req'[r].cur \in Doc /\ req'[r].cur.blob = r /\ req'[r].reply = "none"
  /\ req'[r].cur.tenant = req'[r].tenant /\ req'[r].cur.bucket = req'[r].bucket
  /\ faults' = faults
Looked(r) ==
  /\ req'[r].op = "download" /\ req'[r].at = "open"
  /\ req'[r].cur \in metadata /\ req'[r].found = {req'[r].cur} /\ req'[r].reply = "none"
  /\ faults' = faults
Listed(r) ==
  /\ req'[r].op \in Deletions /\ req'[r].at = "unlink"
  /\ req'[r].todo = req'[r].found /\ req'[r].found \subseteq metadata
  /\ \A d \in req'[r].found : d.tenant = req'[r].tenant /\ d.bucket = req'[r].bucket
  /\ req'[r].reply = "none"
  /\ faults' = faults
Answered(r) ==
  /\ req'[r].at = "done" /\ req'[r].found \subseteq metadata
  /\ \/ req'[r].reply \in {"304", "404", "409"}
     \/ req'[r].reply = "204" /\ req'[r].found = {}
  /\ faults' = faults
Refused(r) ==
  /\ req'[r].at = "done" /\ req'[r].found = {} /\ req'[r].cur = NoDoc
  /\ req'[r].reply = "500"
  /\ faults' = faults + 1

LEMMA ReceivedFields ==
  ASSUME NEW op, NEW t, NEW b
  PROVE  LET q == Received(op, t, b)
         IN  /\ q.op = op /\ q.at = "new" /\ q.tenant = t /\ q.bucket = b
             /\ q.found = {} /\ q.todo = {} /\ q.cur = NoDoc /\ q.reply = "none"
  BY DEF Received

\* What the request goes on as, with the document cur, the documents found.
LEMMA QueryEffect ==
  ASSUME TypeOK, NEW r \in Requests,
         NEW op \in {"upload", "download", "delete", "delete_bucket"},
         NEW t \in Tenants, NEW b \in Buckets,
         NEW next \in Request, Query(r, Received(op, t, b), next)
  PROVE  /\ Alone(r) /\ UNCHANGED <<metadata, entries, chunks>>
         /\ req'[r] \in Request
         /\ (req'[r] = next /\ faults' = faults) \/ Refused(r)
<1> DEFINE q == Replied(Received(op, t, b), "500")
<1>1. q \in Request /\ q.at = "done" /\ q.found = {} /\ q.cur = NoDoc /\ q.reply = "500"
  BY DEF Received, Replied, Request, Replies
<1>2. /\ UNCHANGED <<metadata, entries, chunks, crashes>>
      /\ \/ req' = [req EXCEPT ![r] = next] /\ faults' = faults
         \/ /\ req' = [req EXCEPT ![r] = q] /\ faults < MaxFaults /\ faults' = faults + 1
  BY DEF Query, Call, store
<1> HIDE DEF q
<1> QED BY <1>1, <1>2, ConstantsAssumption DEF Alone, TypeOK, Refused

LEMMA UploadEffect ==
  ASSUME TypeOK, NEW r \in Requests, NEW t \in Tenants, NEW b \in Buckets,
         NEW n \in Names, Upload(r, t, b, n)
  PROVE  /\ req[r] = NotReceived /\ Alone(r) /\ req'[r] \in Request
         /\ UNCHANGED <<metadata, entries, chunks>>
         /\ Begun(r) \/ Answered(r) \/ Refused(r)
<1> DEFINE q == Received("upload", t, b)
           doc == [tenant |-> t, bucket |-> b, name |-> n, blob |-> r]
           more == [q EXCEPT !.at = "write_chunks", !.cur = doc]
           none == Replied(q, "409")
           next == IF Named(t, b, n) # {} THEN none ELSE more
<1>1. /\ more \in Request /\ more.op = "upload" /\ more.at = "write_chunks"
      /\ more.found = {} /\ more.cur \in Doc /\ more.cur.blob = r /\ more.reply = "none"
      /\ more.cur.tenant = more.tenant /\ more.cur.bucket = more.bucket
  BY DEF Received, Request, Active, Uploading, Doc
<1>2. none \in Request /\ none.at = "done" /\ none.found = {} /\ none.reply = "409"
  BY DEF Received, Replied, Request, Replies
<1>3. req[r] = NotReceived /\ Query(r, q, next)
  BY DEF Upload
<1> HIDE DEF more, none
<1>4. next \in Request /\ next \in {more, none}
  BY <1>1, <1>2
<1> HIDE DEF next
<1>5. /\ Alone(r) /\ UNCHANGED <<metadata, entries, chunks>> /\ req'[r] \in Request
      /\ (req'[r] = next /\ faults' = faults) \/ Refused(r)
  BY <1>3, <1>4, QueryEffect
<1> QED BY <1>1, <1>2, <1>3, <1>4, <1>5 DEF Begun, Answered

LEMMA DownloadEffect ==
  ASSUME TypeOK, NEW r \in Requests, NEW t \in Tenants, NEW b \in Buckets,
         NEW n \in Names, Download(r, t, b, n)
  PROVE  /\ req[r] = NotReceived /\ Alone(r) /\ req'[r] \in Request
         /\ UNCHANGED <<metadata, entries, chunks>>
         /\ Looked(r) \/ Answered(r) \/ Refused(r)
<1> DEFINE q == Received("download", t, b)
<1>0. req[r] = NotReceived
  BY DEF Download
<1>1. CASE Query(r, q, Replied(q, "404"))
  <2> DEFINE next == Replied(q, "404")
  <2>1. next \in Request /\ next.at = "done" /\ next.found = {} /\ next.reply = "404"
    BY DEF Received, Replied, Request, Replies
  <2> HIDE DEF next
  <2>2. Query(r, q, next)
    BY <1>1 DEF next
  <2> QED BY <1>0, <2>1, <2>2, QueryEffect DEF Answered
<1>2. ASSUME NEW d \in Named(t, b, n),
             LET known == [q EXCEPT !.found = {d}, !.cur = d]
             IN  \/ Query(r, q, Replied(known, "304"))
                 \/ Query(r, q, [known EXCEPT !.at = "open"])
      PROVE  /\ Alone(r) /\ req'[r] \in Request /\ UNCHANGED <<metadata, entries, chunks>>
             /\ Looked(r) \/ Answered(r) \/ Refused(r)
  <2> DEFINE known == [q EXCEPT !.found = {d}, !.cur = d]
             same == Replied(known, "304")
             more == [known EXCEPT !.at = "open"]
  <2>1. d \in metadata /\ d \in Doc
    BY DEF Named, InBucket, TypeOK
  <2>2. same \in Request /\ same.at = "done" /\ same.found = {d} /\ same.reply = "304"
    BY <2>1 DEF Received, Replied, Request, Replies
  <2>3. /\ more \in Request /\ more.at = "open" /\ more.found = {d} /\ more.cur = d
        /\ more.reply = "none" /\ more.op = "download"
    BY <2>1 DEF Received, Request, Active, Downloading
  <2>4. Query(r, q, same) \/ Query(r, q, more)
    BY <1>2
  <2> HIDE DEF same, more
  <2> QED BY <2>1, <2>2, <2>3, <2>4, QueryEffect DEF Answered, Looked
<1> QED BY <1>0, <1>1, <1>2 DEF Download

\* A deletion that has found the documents docs of its bucket.
LEMMA DeletionEffect ==
  ASSUME TypeOK, NEW r \in Requests, NEW t \in Tenants, NEW b \in Buckets,
         NEW op \in Deletions, NEW docs \in SUBSET InBucket(t, b),
         Query(r, Received(op, t, b),
               DeleteRest([Received(op, t, b) EXCEPT !.found = docs], docs))
  PROVE  /\ Alone(r) /\ req'[r] \in Request /\ UNCHANGED <<metadata, entries, chunks>>
         /\ Listed(r) \/ Answered(r) \/ Refused(r)
<1> DEFINE q == Received(op, t, b)
           listed == [q EXCEPT !.found = docs]
           next == DeleteRest(listed, docs)
<1>1. docs \subseteq metadata /\ docs \subseteq Doc
  BY DEF InBucket, TypeOK
<1>2. \A d \in docs : d.tenant = t /\ d.bucket = b
  BY DEF InBucket
<1>3. op \in {"upload", "download", "delete", "delete_bucket"}
  BY DEF Deletions
<1>4. CASE docs = {}
  <2>1. next = Replied([listed EXCEPT !.todo = {}], "204")
    BY <1>4 DEF DeleteRest
  <2>2. next \in Request /\ next.at = "done" /\ next.found = {} /\ next.reply = "204"
    BY <1>1, <1>3, <1>4, <2>1 DEF Received, Replied, Request, Replies
  <2> HIDE DEF next
  <2>3. Query(r, q, next)
    BY DEF next
  <2> QED BY <1>3, <2>2, <2>3, QueryEffect DEF Answered
<1>5. CASE docs # {}
  <2>1. next = [listed EXCEPT !.at = "unlink", !.todo = docs]
    BY <1>5 DEF DeleteRest
  <2>2. /\ next \in Request /\ next.at = "unlink" /\ next.found = docs /\ next.todo = docs
        /\ next.reply = "none" /\ next.op = op /\ next.tenant = t /\ next.bucket = b
    BY <1>1, <1>3, <2>1 DEF Received, Request, Active, Deleting
  <2> HIDE DEF next
  <2>3. Query(r, q, next)
    BY DEF next
  <2> QED BY <1>1, <1>2, <1>3, <2>2, <2>3, QueryEffect DEF Listed
<1> QED BY <1>4, <1>5

LEMMA ReceiveEffect ==
  ASSUME TypeOK, NEW r \in Requests, Receive(r)
  PROVE  /\ req[r] = NotReceived /\ Alone(r) /\ req'[r] \in Request
         /\ UNCHANGED <<metadata, entries, chunks>>
         /\ Begun(r) \/ Looked(r) \/ Listed(r) \/ Answered(r) \/ Refused(r)
<1>1. PICK t \in Tenants, b \in Buckets :
         \/ \E n \in Names : Upload(r, t, b, n) \/ Download(r, t, b, n) \/ Delete(r, t, b, n)
         \/ \E force \in BOOLEAN : DeleteBucket(r, t, b, force)
  BY DEF Receive
<1>2. ASSUME NEW n \in Names, Delete(r, t, b, n)
      PROVE  /\ req[r] = NotReceived /\ Alone(r) /\ req'[r] \in Request
             /\ UNCHANGED <<metadata, entries, chunks>>
             /\ Listed(r) \/ Answered(r) \/ Refused(r)
  <2> DEFINE q == Received("delete", t, b)
  <2>1. req[r] = NotReceived
    BY <1>2 DEF Delete
  <2>2. CASE Query(r, q, Replied(q, "204"))
    <3> DEFINE next == Replied(q, "204")
    <3>1. next \in Request /\ next.at = "done" /\ next.found = {} /\ next.reply = "204"
      BY DEF Received, Replied, Request, Replies
    <3> HIDE DEF next
    <3>2. Query(r, q, next)
      BY <2>2 DEF next
    <3> QED BY <2>1, <3>1, <3>2, QueryEffect DEF Answered
  <2>3. ASSUME NEW d \in Named(t, b, n), Query(r, q, DeleteRest([q EXCEPT !.found = {d}], {d}))
        PROVE  /\ Alone(r) /\ req'[r] \in Request /\ UNCHANGED <<metadata, entries, chunks>>
               /\ Listed(r) \/ Answered(r) \/ Refused(r)
    <3>1. {d} \in SUBSET InBucket(t, b) /\ "delete" \in Deletions
      BY DEF Named, Deletions
    <3> QED BY <2>3, <3>1, DeletionEffect
  <2> QED BY <1>2, <2>1, <2>2, <2>3 DEF Delete
<1>3. ASSUME NEW force \in BOOLEAN, DeleteBucket(r, t, b, force)
      PROVE  /\ req[r] = NotReceived /\ Alone(r) /\ req'[r] \in Request
             /\ UNCHANGED <<metadata, entries, chunks>>
             /\ Listed(r) \/ Answered(r) \/ Refused(r)
  <2> DEFINE q == Received("delete_bucket", t, b)
             docs == InBucket(t, b)
             next == Replied([q EXCEPT !.found = docs], "409")
  <2>1. req[r] = NotReceived
    BY <1>3 DEF DeleteBucket
  <2>2. CASE Query(r, q, next)
    <3>1. docs \subseteq metadata /\ docs \subseteq Doc
      BY DEF InBucket, TypeOK
    <3> HIDE DEF docs
    <3>2. next \in Request /\ next.at = "done" /\ next.found = docs /\ next.reply = "409"
      BY <3>1 DEF Received, Replied, Request, Replies
    <3> HIDE DEF next
    <3> QED BY <2>1, <2>2, <3>1, <3>2, QueryEffect DEF Answered
  <2>3. CASE Query(r, q, DeleteRest([q EXCEPT !.found = docs], docs))
    <3>1. docs \in SUBSET InBucket(t, b) /\ "delete_bucket" \in Deletions
      BY DEF Deletions
    <3> HIDE DEF docs
    <3> QED BY <2>1, <2>3, <3>1, DeletionEffect
  <2> QED BY <1>3, <2>1, <2>2, <2>3 DEF DeleteBucket
<1> QED BY <1>1, <1>2, <1>3, UploadEffect, DownloadEffect

LEMMA CrashEffect ==
  ASSUME TypeOK, Crash
  PROVE  /\ req' \in [Requests -> Request \cup {NotReceived}]
         /\ UNCHANGED <<metadata, entries, chunks, faults>>
         /\ crashes' \in 0 .. MaxCrashes /\ crashes' = crashes + 1
         /\ \A r \in Requests :
               \/ req[r].at \notin Active /\ req'[r] = req[r]
               \/ /\ req[r].at \in Active /\ Same(r)
                  /\ req'[r].at = "lost" /\ req'[r].cur = req[r].cur
                  /\ req'[r].todo = req[r].todo /\ req'[r].reply = req[r].reply
<1>1. ASSUME NEW r \in Requests, req[r].at \in Active
      PROVE  LET next == [req[r] EXCEPT !.at = "lost"]
             IN  /\ next \in Request /\ next.at = "lost"
                 /\ next.cur = req[r].cur /\ next.todo = req[r].todo /\ next.reply = req[r].reply
                 /\ next.op = req[r].op /\ next.found = req[r].found
                 /\ next.tenant = req[r].tenant /\ next.bucket = req[r].bucket
  BY <1>1, ActiveType DEF Request
<1>2. \A r \in Requests : req'[r] = IF req[r].at \in Active
                                    THEN [req[r] EXCEPT !.at = "lost"] ELSE req[r]
  BY DEF Crash
<1>3. req' \in [Requests -> Request \cup {NotReceived}]
  BY <1>1 DEF Crash, TypeOK
<1>4. /\ UNCHANGED <<metadata, entries, chunks, faults>>
      /\ crashes' \in 0 .. MaxCrashes /\ crashes' = crashes + 1
  BY ConstantsAssumption DEF Crash, store, TypeOK
<1> QED BY <1>1, <1>2, <1>3, <1>4 DEF Same

----------------------------------------------------------------------------
(* What a step keeps.                                                      *)

\* A request stays as it is, is cut off by a crash, or makes its own step.
LEMMA Mover ==
  ASSUME TypeOK, Next, NEW r \in Requests
  PROVE  \/ req'[r] = req[r]
         \/ Crash /\ req[r].at \in Active
         \/ Receive(r)
         \/ WriteChunks(r) \/ WriteEntry(r) \/ Insert(r) \/ Open(r) \/ Stream(r)
         \/ Unlink(r) \/ Purge(r) \/ Forget(r)
<1>1. CASE Crash
  BY <1>1, CrashEffect
<1>2. ASSUME NEW u \in Requests, u # r, Receive(u) \/ Handle(u) PROVE req'[r] = req[r]
  BY <1>2, ReceiveEffect, WriteChunksEffect, WriteEntryEffect, InsertEffect, OpenEffect,
     StreamEffect, UnlinkEffect, PurgeEffect, ForgetEffect DEF Handle, Alone, At
<1> QED BY <1>1, <1>2 DEF Next, Handle

\* Who adds to the stores, and who takes away from them.
LEMMA StoreEffect ==
  ASSUME TypeOK, Requested, Next
  PROVE  /\ \A d \in metadata' : d \in metadata \/
               \E r \in Requests : /\ At(r, {"insert"}) /\ d = req[r].cur
                                   /\ req'[r].at = "done" /\ req'[r].cur = d
                                   /\ UNCHANGED <<entries, chunks>>
         /\ \A b \in entries' : b \in entries \/ (b \in Requests /\ At(b, {"write_entry"}))
         /\ \A b \in chunks' : b \in chunks \/ (b \in Requests /\ At(b, {"write_chunks"}))
         /\ \A d \in metadata : d \in metadata' \/
               \E r \in Requests : At(r, {"forget"}) /\ d = req[r].cur
         /\ \A b \in entries : b \in entries' \/
               \E r \in Requests : At(r, {"unlink"}) /\ \E d \in req[r].todo :
                  /\ d.blob = b /\ req'[r].reply # "409"
                  /\ \/ req'[r].at = "purge" /\ req'[r].cur = d
                     \/ Raised(r)
         /\ \A b \in chunks : b \in chunks' \/
               \E r \in Requests : /\ At(r, {"purge", "purge_missing"})
                                   /\ req[r].cur.blob = b
<1>1. CASE UNCHANGED <<metadata, entries, chunks>>
  BY <1>1
<1>2. CASE Crash
  BY <1>1, <1>2, CrashEffect
<1>3. ASSUME NEW r \in Requests, Receive(r) \/ Open(r) \/ Stream(r)
      PROVE  UNCHANGED <<metadata, entries, chunks>>
  BY <1>3, ReceiveEffect, OpenEffect, StreamEffect
<1>4. ASSUME NEW r \in Requests, WriteChunks(r)
      PROVE  /\ UNCHANGED <<metadata, entries>> /\ chunks \subseteq chunks'
             /\ \A b \in chunks' : b \in chunks \/ (b \in Requests /\ At(b, {"write_chunks"}))
  BY <1>4, WriteChunksEffect
<1>5. ASSUME NEW r \in Requests, WriteEntry(r)
      PROVE  /\ UNCHANGED <<metadata, chunks>> /\ entries \subseteq entries'
             /\ \A b \in entries' : b \in entries \/ (b \in Requests /\ At(b, {"write_entry"}))
  BY <1>5, WriteEntryEffect
<1>6. ASSUME NEW r \in Requests, Insert(r)
      PROVE  /\ At(r, {"insert"}) /\ UNCHANGED <<entries, chunks>>
             /\ metadata \subseteq metadata'
             /\ req'[r].at = "done" /\ req'[r].cur = req[r].cur
             /\ \A d \in metadata' : d \in metadata \/ d = req[r].cur
  BY <1>6, InsertEffect DEF Went, Raised
<1>7. ASSUME NEW r \in Requests, Unlink(r)
      PROVE  /\ At(r, {"unlink"}) /\ UNCHANGED <<metadata, chunks>>
             /\ entries' \subseteq entries
             /\ \A b \in entries : b \in entries' \/ \E d \in req[r].todo :
                  /\ d.blob = b /\ req'[r].reply # "409"
                  /\ \/ req'[r].at = "purge" /\ req'[r].cur = d
                     \/ Raised(r)
  <2>1. req[r].reply = "none"
    BY <1>7 DEF Unlink, Requested, Stage, Active, Deleting
  <2> QED BY <1>7, <2>1, UnlinkEffect DEF Went, Raised
<1>8. ASSUME NEW r \in Requests, Purge(r)
      PROVE  /\ At(r, {"purge", "purge_missing"}) /\ UNCHANGED <<metadata, entries>>
             /\ chunks' \subseteq chunks
             /\ \A b \in chunks : b \in chunks' \/ req[r].cur.blob = b
  BY <1>8, PurgeEffect
<1>9. ASSUME NEW r \in Requests, Forget(r)
      PROVE  /\ At(r, {"forget"}) /\ UNCHANGED <<entries, chunks>>
             /\ metadata' \subseteq metadata
             /\ \A d \in metadata : d \in metadata' \/ d = req[r].cur
  BY <1>9, ForgetEffect
<1> QED BY <1>1, <1>2, <1>3, <1>4, <1>5, <1>6, <1>7, <1>8, <1>9 DEF Next, Handle

\* What a request is about never changes, once it is over nothing does, and a
\* deletion that set about its work never answers 409.
LEMMA Kept ==
  ASSUME TypeOK, Requested, Next, NEW r \in Requests
  PROVE  /\ req[r] = NotReceived \/ Same(r)
         /\ req[r].at \in {"done", "lost"} => req'[r] = req[r]
         /\ req'[r].reply = "409" => req[r].reply = "409" \/ req[r] = NotReceived
<1> USE DEF Active, Uploading, Downloading, Deleting
<1>1. CASE req'[r] = req[r]
  BY <1>1 DEF Same
<1>2. CASE Crash /\ req[r].at \in Active
  BY <1>2, CrashEffect
<1>3. CASE Receive(r)
  BY <1>3, ReceiveEffect DEF NotReceived
<1>4. CASE \/ WriteChunks(r) \/ WriteEntry(r) \/ Insert(r) \/ Open(r) \/ Stream(r)
           \/ Unlink(r) \/ Purge(r) \/ Forget(r)
  BY <1>4, WriteChunksEffect, WriteEntryEffect, InsertEffect, OpenEffect, StreamEffect,
     UnlinkEffect, PurgeEffect, ForgetEffect DEF At, Went, Raised
<1> QED BY <1>1, <1>2, <1>3, <1>4, Mover

\* Faults and crashes are counted.
LEMMA Counted ==
  ASSUME TypeOK, Next
  PROVE  /\ faults' \in 0 .. MaxFaults
         /\ crashes' \in 0 .. MaxCrashes
         /\ faults' = 0 => faults = 0
         /\ crashes' = 0 => crashes = 0 /\ ~Crash
         /\ req' \in [Requests -> Request \cup {NotReceived}]
<1>1. CASE Crash
  BY <1>1, CrashEffect, ConstantsAssumption DEF TypeOK
<1>2. ASSUME NEW r \in Requests, Receive(r) \/ Handle(r)
      PROVE  /\ Alone(r) /\ (faults' = faults \/ faults' = faults + 1)
             /\ ~Crash
  <2>1. Alone(r) /\ (faults' = faults \/ faults' = faults + 1)
    BY <1>2, ReceiveEffect, WriteChunksEffect, WriteEntryEffect, InsertEffect, OpenEffect,
       StreamEffect, UnlinkEffect, PurgeEffect, ForgetEffect
    DEF Handle, At, Went, Raised, Begun, Looked, Listed, Answered, Refused
  <2>2. crashes' # crashes + 1
    BY <2>1 DEF Alone, TypeOK
  <2> QED BY <2>1, <2>2 DEF Crash
<1>3. ASSUME NEW r \in Requests, Receive(r) \/ Handle(r)
      PROVE  /\ faults' \in 0 .. MaxFaults
             /\ crashes' \in 0 .. MaxCrashes
             /\ faults' = 0 => faults = 0
             /\ crashes' = 0 => crashes = 0 /\ ~Crash
             /\ req' \in [Requests -> Request \cup {NotReceived}]
  <2>1. faults \in Nat /\ crashes \in 0 .. MaxCrashes
    BY ConstantsAssumption DEF TypeOK
  <2> QED BY <1>2, <1>3, <2>1 DEF Alone
<1> QED BY <1>1, <1>3 DEF Next

\* A deletion of a file stays one, and past its unlink of it.
LEMMA DeletersKept ==
  ASSUME TypeOK, Requested, Next, NEW d \in Doc, NEW r \in Deleters(d)
  PROVE  /\ r \in Deleters(d)'
         /\ Unlinked(r, d) => Unlinked(r, d)'
<1> USE DEF Active, Uploading, Downloading, Deleting
<1>0. /\ r \in Requests /\ req[r].op \in Deletions /\ req[r].reply # "409"
      /\ d \in req[r].found /\ req[r] # NotReceived
  BY DEF Deleters, Deletions, NotReceived
<1>1. r \in Deleters(d)'
  BY <1>0, Kept DEF Deleters, Same
<1>2. CASE req'[r] = req[r]
  BY <1>1, <1>2 DEF Unlinked
<1>3. CASE Crash /\ req[r].at \in Active
  BY <1>0, <1>1, <1>3, CrashEffect DEF Unlinked
<1>4. CASE WriteChunks(r) \/ WriteEntry(r) \/ Insert(r) \/ Open(r) \/ Stream(r)
  <2>1. req[r].at \in Uploading \cup Downloading
    BY <1>4 DEF WriteChunks, WriteEntry, Insert, Open, Stream
  <2> QED BY <1>0, <2>1 DEF Requested, Stage, Deletions
<1>5. CASE Unlink(r)
  BY <1>0, <1>1, <1>5, UnlinkEffect DEF At, Went, Raised, Unlinked, PastUnlink
<1>6. CASE Purge(r)
  BY <1>0, <1>1, <1>6, PurgeEffect DEF At, Went, Raised, Unlinked, PastUnlink
<1>7. CASE Forget(r)
  BY <1>0, <1>1, <1>7, ForgetEffect DEF At, Went, Raised, Unlinked, PastUnlink
<1> QED BY <1>0, <1>2, <1>3, <1>4, <1>5, <1>6, <1>7, Mover, ReceiveEffect

\* What is gone of a file whose upload is over stays gone.
LEMMA OverKept ==
  ASSUME TypeOK, Requested, Next, NEW d \in Doc, Over(d)
  PROVE  /\ Over(d)'
         /\ d \notin metadata => d \notin metadata'
         /\ d.blob \notin entries => d.blob \notin entries'
         /\ d.blob \notin chunks => d.blob \notin chunks'
<1>1. d.blob \in Requests /\ req[d.blob].at = "done"
  BY DEF Doc, Over
<1>2. req'[d.blob] = req[d.blob]
  BY <1>1, Kept
<1>3. ASSUME NEW r \in Requests, At(r, {"insert"}), d = req[r].cur PROVE FALSE
  <2>1. req[r].cur.blob = r /\ req[r].at = "insert"
    BY <1>3 DEF At, Requested, Stage, Uploading
  <2> QED BY <1>1, <1>3, <2>1
<1>4. ~At(d.blob, {"write_entry"}) /\ ~At(d.blob, {"write_chunks"})
  BY <1>1 DEF At
<1> QED BY <1>2, <1>3, <1>4, StoreEffect DEF Over

----------------------------------------------------------------------------
(* Each part of the invariant is kept.                                     *)

LEMMA StepType ==
  ASSUME TypeOK, Requested, Next
  PROVE  TypeOK'
<1>1. metadata' \in SUBSET Doc
  <2>1. ASSUME NEW r \in Requests, At(r, {"insert"}) PROVE req[r].cur \in Doc
    BY <2>1 DEF At, Requested, Stage, Uploading
  <2> QED BY <2>1, StoreEffect DEF TypeOK
<1>2. entries' \in SUBSET Requests /\ chunks' \in SUBSET Requests
  BY StoreEffect DEF TypeOK
<1> QED BY <1>1, <1>2, Counted DEF TypeOK

LEMMA StepStage ==
  ASSUME TypeOK, Requested, Next, NEW r \in Requests
  PROVE  Stage(r)'
<1> USE DEF Active, Uploading, Downloading, Deleting, PastUnlink
<1>0. Stage(r)
  BY DEF Requested
<1>1. CASE req'[r] = req[r]
  BY <1>0, <1>1 DEF Stage
<1>2. CASE Crash /\ req[r].at \in Active
  BY <1>2, CrashEffect DEF Stage
<1>3. CASE Receive(r)
  BY <1>3, ReceiveEffect DEF Stage, Begun, Looked, Listed, Answered, Refused
<1>4. CASE WriteChunks(r)
  BY <1>0, <1>4, WriteChunksEffect DEF Stage, At, Same, Went, Raised
<1>5. CASE WriteEntry(r)
  BY <1>0, <1>5, WriteEntryEffect DEF Stage, At, Same, Went, Raised
<1>6. CASE Insert(r)
  BY <1>6, InsertEffect DEF Stage, Went, Raised
<1>7. CASE Open(r)
  BY <1>0, <1>7, OpenEffect DEF Stage, At, Same, Went, Raised
<1>8. CASE Stream(r)
  BY <1>8, StreamEffect DEF Stage
<1>9. CASE Unlink(r)
  BY <1>0, <1>9, UnlinkEffect DEF Stage, At, Same, Went, Raised
<1>10. CASE Purge(r)
  BY <1>0, <1>10, PurgeEffect DEF Stage, At, Same, Went, Raised
<1>11. CASE Forget(r)
  BY <1>0, <1>11, ForgetEffect DEF Stage, At, Same, Went, Raised
<1> QED BY <1>1, <1>2, <1>3, <1>4, <1>5, <1>6, <1>7, <1>8, <1>9, <1>10, <1>11, Mover

\* A document a request has found or is about is a known one.
LEMMA FoundIsKnown ==
  ASSUME TypeOK, Requested, Documented, NEW r \in Requests, NEW d \in req[r].found,
         req[r] # NotReceived
  PROVE  d \in Doc /\ Known(d) /\ Over(d) /\ Whole(d)
<1>1. d \in Doc
  BY DEF TypeOK, Request
<1> QED BY <1>1 DEF Documented, Known

LEMMA StepWritten ==
  ASSUME TypeOK, Requested, Documented, Next, NEW r \in Requests
  PROVE  Written(r)'
<1> USE DEF Active, Uploading, Downloading, Deleting, PastUnlink
<1>0. Written(r)
  BY DEF Requested
\* Nobody takes the chunks or the entry of an upload at work.
<1>1. ASSUME req[r].at # "done"
      PROVE  (r \in chunks => r \in chunks') /\ (r \in entries => r \in entries')
  <2>1. ASSUME NEW u \in Requests, At(u, {"unlink", "purge", "purge_missing"}),
               NEW d \in req[u].todo
        PROVE  d.blob # r
    <3>1. d \in req[u].found /\ req[u] # NotReceived
      BY <2>1 DEF At, Requested, Stage, NotReceived
    <3> QED BY <1>1, <3>1, FoundIsKnown DEF Over
  <2>2. ASSUME NEW u \in Requests, At(u, {"purge", "purge_missing"})
        PROVE  req[u].cur \in req[u].todo /\ At(u, {"unlink", "purge", "purge_missing"})
    BY <2>2 DEF At, Requested, Stage
  <2>3. ASSUME NEW u \in Requests, At(u, {"unlink"})
        PROVE  At(u, {"unlink", "purge", "purge_missing"})
    BY <2>3 DEF At
  <2> QED BY <2>1, <2>2, <2>3, StoreEffect
<1>2. CASE req'[r] = req[r]
  BY <1>0, <1>1, <1>2 DEF Written
<1>3. CASE WriteChunks(r)
  BY <1>3, WriteChunksEffect DEF Written, Went, Raised
<1>4. CASE WriteEntry(r)
  BY <1>0, <1>4, WriteEntryEffect DEF Written, At, Went, Raised
<1>5. CASE \/ Crash /\ req[r].at \in Active
           \/ Receive(r) \/ Insert(r) \/ Open(r) \/ Stream(r) \/ Unlink(r) \/ Purge(r)
           \/ Forget(r)
  <2>1. req'[r].at \notin {"write_entry", "insert"}
    BY <1>5, CrashEffect, ReceiveEffect, InsertEffect, OpenEffect, StreamEffect,
       UnlinkEffect, PurgeEffect, ForgetEffect
    DEF Begun, Looked, Listed, Answered, Refused, Went, Raised
  <2> QED BY <2>1 DEF Written
<1> QED BY <1>2, <1>3, <1>4, <1>5, Mover

LEMMA StepProgress ==
  ASSUME TypeOK, Requested, Documented, Next, NEW r \in Requests
  PROVE  Progress(r)'
<1> USE DEF Active, Uploading, Downloading, Deleting, PastUnlink
<1>0. Stage(r) /\ Progress(r)
  BY DEF Requested
\* What is gone of the files found stays gone.
<1>1. ASSUME req[r] # NotReceived
      PROVE  \A d \in req[r].found :
                /\ d \in Doc /\ d.blob \in Requests
                /\ Over(d)
                /\ Gone(d) => Gone(d)'
                /\ d.blob \notin entries => d.blob \notin entries'
                /\ d.blob \notin chunks => d.blob \notin chunks'
  BY <1>1, FoundIsKnown, OverKept DEF Gone, Doc
<1>2. CASE req'[r] = req[r]
  <2>1. CASE req[r] = NotReceived
    BY <1>2, <2>1 DEF Progress, NotReceived, Deletions
  <2>2. CASE req[r] # NotReceived
    <3>1. req[r].at \in PastUnlink => req[r].cur \in req[r].found
      BY <1>0 DEF Stage
    <3>2. req[r].at = "purge_missing" =>
             \E u \in Deleters(req[r].cur)' : u # r
      <4>1. \A u \in Deleters(req[r].cur) : req[r].cur \in Doc => u \in Deleters(req[r].cur)'
        <5> SUFFICES ASSUME NEW d \in Doc, d = req[r].cur, NEW u \in Deleters(d)
                     PROVE  u \in Deleters(d)'
          BY <1>2
        <5> QED BY DeletersKept
      <4> QED BY <1>0, <1>1, <2>2, <3>1, <4>1 DEF Progress
    <3> QED BY <1>0, <1>1, <1>2, <2>2, <3>1, <3>2 DEF Progress
  <2> QED BY <2>1, <2>2
<1>3. CASE Receive(r)
  BY <1>3, ReceiveEffect DEF Progress, Begun, Looked, Listed, Answered, Refused
<1>4. CASE Unlink(r)
  <2>1. /\ req[r] # NotReceived /\ Same(r) /\ req[r].at = "unlink"
        /\ req[r].reply = "none" /\ req[r].op \in Deletions /\ req[r].todo \subseteq req[r].found
    BY <1>0, <1>4, UnlinkEffect DEF At, Stage, NotReceived
  <2>2. PICK d \in req[r].todo :
           \/ /\ entries' = entries \ {d.blob}
              /\ \/ /\ d.blob \in entries
                    /\ Went(r, "purge", d, req[r].todo, req[r].reply)
                 \/ /\ d.blob \notin entries
                    /\ Went(r, "purge_missing", d, req[r].todo, req[r].reply)
           \/ Raised(r)
    BY <1>4, UnlinkEffect
  <2>3. CASE Raised(r)
    BY <2>3 DEF Progress, Raised
  <2>4. CASE /\ entries' = entries \ {d.blob}
             /\ d.blob \in entries
             /\ Went(r, "purge", d, req[r].todo, req[r].reply)
    BY <1>0, <1>1, <2>1, <2>4 DEF Progress, Went, Same
  <2>5. CASE /\ entries' = entries \ {d.blob}
             /\ d.blob \notin entries
             /\ Went(r, "purge_missing", d, req[r].todo, req[r].reply)
    <3>1. PICK u \in Deleters(d) : Unlinked(u, d)
      BY <2>1, <2>5, FoundIsKnown DEF Whole
    <3>2. u # r /\ u \in Deleters(d)'
      BY <1>1, <2>1, <3>1, DeletersKept DEF Unlinked
    <3>3. req'[r].cur = d
      BY <2>5 DEF Went
    <3>4. \E v \in Deleters(req[r].cur)' : v # r
      BY <3>2, <3>3
    <3> QED BY <1>0, <1>1, <2>1, <2>5, <3>4 DEF Progress, Went, Same
  <2> QED BY <2>2, <2>3, <2>4, <2>5
<1>5. CASE Purge(r)
  <2>1. /\ req[r] # NotReceived /\ Same(r) /\ req[r].at \in {"purge", "purge_missing"}
        /\ req[r].reply = "none" /\ req[r].cur \in req[r].found
    BY <1>0, <1>5, PurgeEffect DEF At, Stage, NotReceived
  <2>2. CASE req'[r].at = "done" /\ req'[r].reply = "500"
    BY <2>2 DEF Progress
  <2>3. CASE /\ chunks' = chunks \ {req[r].cur.blob}
             /\ Went(r, "forget", req[r].cur, req[r].todo, req[r].reply)
    BY <1>0, <1>1, <2>1, <2>3 DEF Progress, Went, Same
  <2> QED BY <1>5, <2>2, <2>3, PurgeEffect DEF Went, Raised
<1>6. CASE Forget(r)
  <2>1. /\ req[r] # NotReceived /\ Same(r) /\ req[r].at = "forget"
        /\ req[r].reply = "none" /\ req[r].cur \in req[r].found
        /\ UNCHANGED <<entries, chunks>>
    <3>1. At(r, {"forget"}) /\ UNCHANGED <<entries, chunks>>
      BY <1>6, ForgetEffect
    <3> QED BY <1>0, <3>1 DEF At, Stage, NotReceived
  <2>2. CASE Raised(r)
    BY <2>2 DEF Progress, Raised
  <2>3. CASE /\ metadata' = metadata \ {req[r].cur}
             /\ req'[r].todo = req[r].todo \ {req[r].cur}
             /\ \/ req'[r].todo = {} /\ req'[r].at = "done" /\ req'[r].reply = "204"
                \/ req'[r].at = "unlink" /\ req'[r].reply = "none"
    <3>1. ASSUME NEW d \in req[r].found, d \notin req'[r].todo PROVE Gone(d)'
      <4>1. CASE d = req[r].cur
        BY <1>0, <2>1, <2>3, <4>1 DEF Progress, Gone
      <4>2. CASE d # req[r].cur
        BY <1>0, <1>1, <2>1, <2>3, <3>1, <4>2 DEF Progress
      <4> QED BY <4>1, <4>2
    <3> QED BY <2>1, <2>3, <3>1 DEF Progress, Same
  <2> QED BY <1>6, <2>1, <2>2, <2>3, ForgetEffect DEF Went
<1>7. CASE \/ Crash /\ req[r].at \in Active
           \/ WriteChunks(r) \/ WriteEntry(r) \/ Insert(r) \/ Open(r) \/ Stream(r)
  <2>1. req'[r].at \notin Deleting /\ req'[r].reply # "204"
    BY <1>0, <1>7, CrashEffect, WriteChunksEffect, WriteEntryEffect, InsertEffect,
       OpenEffect, StreamEffect DEF Stage, At, Went, Raised
  <2> QED BY <2>1 DEF Progress
<1> QED BY <1>2, <1>3, <1>4, <1>5, <1>6, <1>7, Mover

LEMMA StepDurable ==
  ASSUME TypeOK, Requested, Documented, Next, NEW r \in Requests
  PROVE  Durable(r)'
<1> USE DEF Active, Uploading, Downloading, Deleting
<1>0. Stage(r) /\ Durable(r)
  BY DEF Requested
<1>1. CASE req'[r] = req[r] /\ req[r].op = "upload" /\ req[r].reply = "201"
  <2>1. PICK d \in Doc : d = req[r].cur
    BY <1>0, <1>1 DEF Durable
  <2>2. Over(d)'
    BY <1>0, <1>1, <2>1, OverKept DEF Durable
  <2>3. (\E u \in Deleters(d) : TRUE) => \E u \in Deleters(d)' : TRUE
    BY DeletersKept
  <2>4. d \in metadata => d \in metadata' \/ \E u \in Deleters(d) : TRUE
    <3>1. ASSUME NEW u \in Requests, At(u, {"forget"}), d = req[u].cur
          PROVE  u \in Deleters(d)
      BY <3>1 DEF At, Requested, Stage, PastUnlink, Deleters, Deletions
    <3> QED BY <3>1, StoreEffect
  <2>5. d \in metadata' \/ \E u \in Deleters(d)' : TRUE
    BY <1>0, <1>1, <2>1, <2>3, <2>4 DEF Durable
  <2>6. req'[r].cur = d
    BY <1>1, <2>1
  <2> QED BY <2>2, <2>5, <2>6 DEF Durable
<1>2. CASE Insert(r)
  <2>1. PICK d \in Doc : d = req[r].cur /\ d.blob = r
    BY <1>0, <1>2, InsertEffect DEF At, Stage
  <2>2. /\ req'[r].cur = d /\ req'[r].at = "done"
        /\ req'[r].op = "upload"
        /\ req'[r].reply = "201" => d \in metadata'
    BY <1>0, <1>2, <2>1, InsertEffect DEF At, Same, Went, Raised, Stage
  <2> QED BY <2>1, <2>2 DEF Durable, Over
<1>3. CASE \/ Crash /\ req[r].at \in Active
           \/ Receive(r) \/ WriteChunks(r) \/ WriteEntry(r) \/ Open(r) \/ Stream(r)
           \/ Unlink(r) \/ Purge(r) \/ Forget(r)
  <2>1. req'[r].reply # "201"
    <3>1. req[r].at \in Active => req[r].reply = "none"
      BY <1>0 DEF Stage
    <3> QED BY <1>3, <3>1, CrashEffect, ReceiveEffect, WriteChunksEffect, WriteEntryEffect,
       OpenEffect, StreamEffect, UnlinkEffect, PurgeEffect, ForgetEffect
       DEF At, Begun, Looked, Listed, Answered, Refused, Went, Raised
  <2> QED BY <2>1 DEF Durable
<1> QED BY <1>1, <1>2, <1>3, Mover DEF Durable

LEMMA StepBlamed ==
  ASSUME TypeOK, Requested, Documented, Next, NEW r \in Requests
  PROVE  Blamed(r)'
<1> USE DEF Active, Uploading, Downloading, Deleting
<1>0. Stage(r) /\ Progress(r) /\ Blamed(r) /\ faults \in Nat
  BY ConstantsAssumption DEF Requested, TypeOK
<1>1. SUFFICES ASSUME faults' = 0, req'[r].reply \in {"500", "cut"}, req'[r].cur # NoDoc
               PROVE  \E u \in Deleters(req[r].cur)' : u # r
  BY DEF Blamed
<1>2. faults = 0 /\ ~Raised(r) /\ ~Refused(r) /\ faults' # faults + 1
  BY <1>0, <1>1, Counted DEF Raised, Refused
\* It is enough that somebody else was already deleting the file.
<1>3. ASSUME NEW d \in Doc, NEW u \in Deleters(d), u # r, req'[r].cur = d
      PROVE  \E v \in Deleters(req[r].cur)' : v # r
  <2>1. u \in Deleters(d)'
    BY DeletersKept
  <2> QED BY <1>3, <2>1
<1>4. ASSUME req[r].at \in Downloading, req[r].cur.blob \notin chunks \/ req[r].cur.blob \notin entries,
             req'[r].cur = req[r].cur
      PROVE  \E v \in Deleters(req[r].cur)' : v # r
  <2>1. req[r].cur \in req[r].found /\ req[r].op = "download" /\ req[r] # NotReceived
    BY <1>0, <1>4 DEF Stage, NotReceived
  <2>2. PICK d \in Doc : d = req[r].cur /\ Whole(d)
    BY <2>1, FoundIsKnown
  <2>3. PICK u \in Deleters(d) : TRUE
    BY <1>4, <2>2 DEF Whole
  <2>4. u # r
    BY <2>1, <2>3 DEF Deleters
  <2> QED BY <1>3, <1>4, <2>2, <2>3, <2>4
<1>5. CASE req'[r] = req[r]
  <2>1. PICK u \in Deleters(req[r].cur) : u # r
    BY <1>0, <1>1, <1>2, <1>5 DEF Blamed
  <2>2. req[r].cur \in Doc
    <3>1. req[r] # NotReceived
      BY <1>1, <1>5 DEF NotReceived
    <3> QED BY <1>1, <1>5, <3>1 DEF TypeOK, Request
  <2> QED BY <1>3, <1>5, <2>1, <2>2
<1>6. CASE Open(r)
  BY <1>0, <1>1, <1>2, <1>4, <1>6, OpenEffect DEF At, Went, Stage
<1>7. CASE Stream(r)
  BY <1>1, <1>2, <1>4, <1>7, StreamEffect DEF At
<1>8. CASE Purge(r)
  <2>1. req[r].at = "purge_missing" /\ req'[r].cur = req[r].cur
    BY <1>0, <1>1, <1>2, <1>8, PurgeEffect DEF At, Went, Stage
  <2>2. PICK u \in Deleters(req[r].cur) : u # r
    BY <1>0, <2>1 DEF Progress
  <2>3. req[r].cur \in Doc
    BY <1>1, <1>8, <2>1, PurgeEffect DEF At, Request
  <2> QED BY <1>3, <2>1, <2>2, <2>3
<1>9. CASE \/ Crash /\ req[r].at \in Active
           \/ Receive(r) \/ WriteChunks(r) \/ WriteEntry(r) \/ Insert(r)
           \/ Unlink(r) \/ Forget(r)
  <2>1. req[r].at \in Active => req[r].reply = "none"
    BY <1>0 DEF Stage
  <2>2. req'[r].reply \notin {"500", "cut"}
    BY <1>2, <1>9, <2>1, CrashEffect, ReceiveEffect, WriteChunksEffect, WriteEntryEffect,
       InsertEffect, UnlinkEffect, ForgetEffect
    DEF At, Begun, Looked, Listed, Answered, Went
  <2> QED BY <1>1, <2>2
<1> QED BY <1>5, <1>6, <1>7, <1>8, <1>9, Mover

LEMMA StepDocumented ==
  ASSUME TypeOK, Requested, Documented, Next
  PROVE  Documented'
<1> USE DEF Active, Uploading, Downloading, Deleting
<1>1. ASSUME NEW d \in Doc, Known(d) PROVE Over(d)' /\ Whole(d)'
  <2>0. Over(d) /\ Whole(d) /\ d.blob \in Requests
    BY <1>1 DEF Documented, Doc
  <2>1. Over(d)'
    BY <2>0, OverKept
  \* The deletion at this step is past its unlink when it takes the entry.
  <2>2. ASSUME NEW u \in Requests, At(u, {"unlink"}), NEW e \in req[u].todo,
               e.blob = d.blob, req'[u].reply # "409",
               \/ req'[u].at = "purge" /\ req'[u].cur = e
               \/ Raised(u)
        PROVE  \E v \in Deleters(d)' : Unlinked(v, d)'
    <3>1. e \in req[u].found /\ req[u] # NotReceived /\ req[u].op \in Deletions
      BY <2>2 DEF At, Requested, Stage, NotReceived
    <3>2. e = d
      BY <2>0, <2>2, <3>1, FoundIsKnown DEF Over
    <3>3. u \in Deleters(d)'
      BY <2>2, <3>1, <3>2 DEF Deleters, Deletions, At, Same
    <3>4. Unlinked(u, d)'
      BY <2>2, <3>2 DEF Unlinked, Raised, PastUnlink
    <3> QED BY <3>3, <3>4
  <2>3. CASE d.blob \in entries'
    <3>1. d.blob \in entries /\ d.blob \in chunks
      BY <2>0, <2>3, OverKept DEF Whole
    <3>2. ASSUME NEW u \in Requests, At(u, {"purge", "purge_missing"}),
                 req[u].cur.blob = d.blob
          PROVE  FALSE
      BY <3>1, <3>2 DEF At, Requested, Progress, PastUnlink
    <3>3. d.blob \in chunks'
      BY <3>1, <3>2, StoreEffect
    <3> QED BY <2>1, <2>3, <3>3 DEF Whole
  <2>4. CASE d.blob \notin entries'
    <3>1. CASE d.blob \notin entries
      <4>1. PICK v \in Deleters(d) : Unlinked(v, d)
        BY <2>0, <3>1 DEF Whole
      <4>2. v \in Deleters(d)' /\ Unlinked(v, d)'
        BY <4>1, DeletersKept
      <4> QED BY <2>1, <2>4, <4>2 DEF Whole
    <3>2. CASE d.blob \in entries
      <4>1. PICK u \in Requests : At(u, {"unlink"}) /\ \E e \in req[u].todo :
                  /\ e.blob = d.blob /\ req'[u].reply # "409"
                  /\ \/ req'[u].at = "purge" /\ req'[u].cur = e
                     \/ Raised(u)
        BY <2>4, <3>2, StoreEffect
      <4>2. \E v \in Deleters(d)' : Unlinked(v, d)'
        BY <2>2, <4>1
      <4> QED BY <2>1, <2>4, <4>2 DEF Whole
    <3> QED BY <3>1, <3>2
  <2> QED BY <2>3, <2>4, <2>1
\* The document an upload inserts: its bytes are there, its upload is over.
<1>2. ASSUME NEW d \in Doc, NEW r \in Requests, At(r, {"insert"}), d = req[r].cur,
             req'[r].at = "done", req'[r].cur = d, UNCHANGED <<entries, chunks>>
      PROVE  Over(d)' /\ Whole(d)'
  <2>1. d.blob = r /\ req'[r].op = "upload" /\ r \in entries /\ r \in chunks
    BY <1>2 DEF At, Same, Requested, Stage, Written
  <2> QED BY <1>2, <2>1 DEF Over, Whole
<1>3. ASSUME NEW d \in Doc, Known(d)', ~Known(d)
      PROVE  Over(d)' /\ Whole(d)'
  <2>1. CASE d \in metadata'
    <3>1. d \notin metadata
      BY <1>3 DEF Known
    <3> QED BY <1>2, <2>1, <3>1, StoreEffect
  <2>2. ASSUME NEW r \in Requests, d \in req'[r].found PROVE FALSE
    <3>1. req'[r].found # req[r].found
      BY <1>3, <2>2 DEF Known
    <3>2. req[r] = NotReceived
      BY <3>1, Kept DEF Same
    <3>3. Receive(r)
      <4>1. req[r].at = "new"
        BY <3>2 DEF NotReceived
      <4> QED BY <3>1, <4>1, Mover DEF WriteChunks, WriteEntry, Insert, Open, Stream,
                                       Unlink, Purge, Forget
    <3>4. req'[r].found \subseteq metadata
      BY <3>3, ReceiveEffect DEF Begun, Looked, Listed, Answered, Refused
    <3> QED BY <1>3, <2>2, <3>4 DEF Known
  <2> QED BY <1>3, <2>1, <2>2 DEF Known
<1> QED BY <1>1, <1>3 DEF Documented

LEMMA StepClean ==
  ASSUME TypeOK, Requested, Documented, Clean, Next
  PROVE  Clean'
<1> USE DEF Active, Uploading, Downloading, Deleting
<1>0. SUFFICES ASSUME faults' = 0, crashes' = 0
               PROVE  /\ \A b \in Requests : b \in entries' \/ b \in chunks' =>
                            HasName(b)' \/ req'[b].at \in Uploading
                      /\ \A d \in metadata' : d.blob \notin entries' =>
                            \E r \in Deleters(d)' : /\ req'[r].at \in {"purge", "forget"}
                                                    /\ req'[r].cur = d
  BY DEF Clean
<1>1. /\ faults = 0 /\ crashes = 0 /\ ~Crash /\ faults' # faults + 1
      /\ \A r \in Requests : ~Raised(r)
  BY <1>0, Counted DEF Raised, TypeOK
<1>2. ASSUME NEW b \in Requests, b \in entries' \/ b \in chunks'
      PROVE  HasName(b)' \/ req'[b].at \in Uploading
  <2>1. CASE HasName(b)
    <3>1. PICK d \in metadata : d.blob = b
      BY <2>1 DEF HasName
    <3>2. ASSUME NEW u \in Requests, At(u, {"forget"}), d = req[u].cur PROVE FALSE
      <4>1. b \notin entries /\ b \notin chunks
        BY <3>1, <3>2 DEF At, Requested, Progress, PastUnlink
      <4>2. d \in Doc /\ Over(d)
        BY DEF TypeOK, Documented, Known
      <4> QED BY <1>2, <3>1, <4>1, <4>2, OverKept
    <3>3. d \in metadata'
      BY <3>2, StoreEffect
    <3> QED BY <3>1, <3>3 DEF HasName
  <2>2. CASE ~HasName(b)
    <3>1. req[b].at \in Uploading
      BY <1>1, <1>2, <2>2, StoreEffect DEF Clean, At
    <3>2. CASE req'[b] = req[b]
      BY <3>1, <3>2
    <3>3. CASE WriteChunks(b) \/ WriteEntry(b)
      BY <1>1, <3>3, WriteChunksEffect, WriteEntryEffect DEF Went
    <3>4. CASE Insert(b)
      <4>1. req[b].cur.blob = b /\ req[b].cur \in metadata'
        BY <1>1, <3>4, InsertEffect DEF At, Requested, Stage
      <4> QED BY <4>1 DEF HasName
    <3>5. ~Receive(b)
      <4>1. req[b] # NotReceived
        BY <3>1 DEF NotReceived
      <4> QED BY <4>1, ReceiveEffect
    <3> QED BY <1>1, <3>1, <3>2, <3>3, <3>4, <3>5, Mover
            DEF Open, Stream, Unlink, Purge, Forget
  <2> QED BY <2>1, <2>2
<1>3. ASSUME NEW d \in metadata', d.blob \notin entries'
      PROVE  \E r \in Deleters(d)' : req'[r].at \in {"purge", "forget"} /\ req'[r].cur = d
  <2>1. d \in metadata
    <3>1. ASSUME NEW r \in Requests, At(r, {"insert"}), d = req[r].cur,
                 UNCHANGED <<entries, chunks>>
          PROVE  FALSE
      BY <1>3, <3>1 DEF At, Requested, Stage, Written
    <3> QED BY <3>1, StoreEffect
  <2>2. d \in Doc /\ Over(d)
    BY <2>1 DEF TypeOK, Documented, Known
  <2>3. CASE d.blob \notin entries
    <3>1. PICK r \in Deleters(d) : req[r].at \in {"purge", "forget"} /\ req[r].cur = d
      BY <1>1, <2>1, <2>3 DEF Clean
    <3>2. r \in Requests /\ r \in Deleters(d)'
      BY <2>2, DeletersKept DEF Deleters
    <3>3. CASE Purge(r)
      BY <1>1, <3>1, <3>2, <3>3, PurgeEffect DEF Went
    <3>4. CASE Forget(r)
      BY <1>1, <1>3, <3>1, <3>2, <3>4, ForgetEffect
    <3>5. CASE req'[r] = req[r]
      BY <3>1, <3>2, <3>5
    <3>6. ~Receive(r)
      <4>1. req[r] # NotReceived
        BY <3>1 DEF NotReceived
      <4> QED BY <3>2, <4>1, ReceiveEffect
    <3> QED BY <1>1, <3>1, <3>2, <3>3, <3>4, <3>5, <3>6, Mover
            DEF WriteChunks, WriteEntry, Insert, Open, Stream, Unlink
  <2>4. CASE d.blob \in entries
    <3>1. PICK u \in Requests : At(u, {"unlink"}) /\ \E e \in req[u].todo :
                  /\ e.blob = d.blob /\ req'[u].reply # "409"
                  /\ req'[u].at = "purge" /\ req'[u].cur = e
      BY <1>1, <1>3, <2>4, StoreEffect
    <3>2. PICK e \in req[u].todo : /\ e.blob = d.blob /\ req'[u].reply # "409"
                                   /\ req'[u].at = "purge" /\ req'[u].cur = e
      BY <3>1
    <3>3. e \in req[u].found /\ req[u] # NotReceived /\ req[u].op \in Deletions
      BY <3>1 DEF At, Requested, Stage, NotReceived
    <3>4. e = d
      BY <2>2, <3>2, <3>3, FoundIsKnown DEF Over
    <3>5. u \in Deleters(d)'
      BY <3>1, <3>2, <3>3, <3>4 DEF Deleters, Deletions, At, Same
    <3> QED BY <3>2, <3>4, <3>5
  <2> QED BY <2>3, <2>4
<1> QED BY <1>2, <1>3

----------------------------------------------------------------------------
(* The theorems.                                                           *)

LEMMA InitInv == Init => IInv
<1> SUFFICES ASSUME Init PROVE IInv
  OBVIOUS
<1>1. \A r \in Requests : req[r] = NotReceived
  BY DEF Init
<1>2. TypeOK
  BY ConstantsAssumption DEF Init, TypeOK
<1>3. Requested
  <2>1. NotReceived.at = "new" /\ NotReceived.op = "none" /\ NotReceived.reply = "none"
    BY DEF NotReceived
  <2> QED BY <1>1, <2>1 DEF Requested, Stage, Written, Progress, Durable, Blamed, Active,
              Uploading, Downloading, Deleting, PastUnlink, Deletions
<1>4. Documented /\ Clean
  BY <1>1 DEF Init, Documented, Known, Clean, NotReceived
<1> QED BY <1>2, <1>3, <1>4 DEF IInv

LEMMA StepInv == IInv /\ [Next]_vars => IInv'
<1>1. ASSUME IInv, UNCHANGED vars PROVE IInv'
  BY <1>1 DEF IInv, vars, store, TypeOK, Requested, Stage, Written, Progress, Durable,
     Blamed, Documented, Known, Over, Whole, Unlinked, Deleters, Gone, Clean, HasName
<1>2. ASSUME IInv, Next PROVE IInv'
  <2>1. TypeOK /\ Requested /\ Documented /\ Clean
    BY <1>2 DEF IInv
  <2>2. Requested'
    BY <1>2, <2>1, StepStage, StepWritten, StepProgress, StepDurable, StepBlamed
       DEF Requested
  <2> QED BY <1>2, <2>1, <2>2, StepType, StepDocumented, StepClean DEF IInv
<1> QED BY <1>1, <1>2

LEMMA Invariant == Spec => []IInv
<1> QED BY InitInv, StepInv, PTL DEF Spec

\* Every variable keeps its type: an upload inserts nothing but documents.
THEOREM TypeCorrect == Spec => []TypeOK
<1>1. IInv => TypeOK
  BY DEF IInv
<1> QED BY <1>1, Invariant, PTL

\* A name has its bytes, or a deletion has found it.
LEMMA NamedIsStored ==
  ASSUME IInv, NEW d \in metadata
  PROVE  Stored(d) \/ \E r \in Deleters(d) : TRUE
  BY DEF IInv, TypeOK, Documented, Known, Whole, Stored

\* An upload that answered 201 stays, name, entry and chunks, until a deletion
\* finds the file.
THEOREM UploadsAreDurable == Spec => []UploadedIsDurable
<1>1. IInv => UploadedIsDurable
  BY NamedIsStored DEF IInv, Requested, Durable, UploadedIsDurable
<1> QED BY <1>1, Invariant, PTL

\* A deletion that answered 204 has left nothing of the files it found, and
\* nothing of them comes back.
THEOREM DeletionsAreFinal == Spec => []DeletedIsGone
<1>1. IInv => DeletedIsGone
  BY DEF IInv, Requested, Progress, Gone, DeletedIsGone, Deletions
<1> QED BY <1>1, Invariant, PTL

\* No name without its bytes, but for the deletions that found the file.
THEOREM NoNameWithoutFile == Spec => []NamesHaveFiles
<1>1. IInv => NamesHaveFiles
  BY NamedIsStored DEF NamesHaveFiles
<1> QED BY <1>1, Invariant, PTL

\* Without failed calls only another deletion of the same file makes a request
\* that found it fail.
THEOREM FailuresHaveRivals == Spec => []FailsOnlyByDelete
<1>1. IInv => FailsOnlyByDelete
  BY DEF IInv, Requested, Blamed, FailsOnlyByDelete
<1> QED BY <1>1, Invariant, PTL

\* Without failed calls and crashes the metadata and GridFS agree, but for the
\* requests at work.
THEOREM TheStoresAgree == Spec => []StoresAgree
<1>1. ASSUME IInv, faults = 0, crashes = 0, NEW b \in entries \cup chunks
      PROVE  \/ \E d \in metadata : d.blob = b
             \/ req[b].at \in Uploading
  BY <1>1 DEF IInv, TypeOK, Clean, HasName
<1>2. ASSUME IInv, faults = 0, crashes = 0, NEW d \in metadata, ~Stored(d)
      PROVE  \E r \in Deleters(d) : req[r].at \in Deleting /\ req[r].cur = d
  <2>1. d.blob \notin entries
    BY <1>2 DEF IInv, TypeOK, Documented, Known, Whole, Stored
  <2> QED BY <1>2, <2>1 DEF IInv, Clean, Deleting
<1>3. IInv => StoresAgree
  BY <1>1, <1>2 DEF StoresAgree
<1> QED BY <1>3, Invariant, PTL

\* What belongs to a tenant and a bucket goes away only in a step of a deletion
\* by that tenant, of that bucket.
THEOREM TenantsApart == Spec => TenantsIsolated
<1> DEFINE Apart ==
      /\ \A d \in metadata \ metadata' : Owners(d) # {}
      /\ \A b \in (entries \cup chunks) \ (entries' \cup chunks') :
            Owners(req[b].cur) # {}
<1>1. ASSUME IInv, Next PROVE Apart
  <2>0. TypeOK /\ Requested /\ Documented
    BY <1>1 DEF IInv
  <2>1. ASSUME NEW r \in Requests, NEW d \in req[r].todo, req[r].at \in Deleting
        PROVE  Owners(d) # {} /\ req[d.blob].cur = d
    <3>1. d \in req[r].found /\ req[r] # NotReceived
      BY <2>0, <2>1 DEF Requested, Stage, NotReceived, Deleting
    <3>2. r \in Owners(d)
      BY <2>0, <2>1, <3>1 DEF Requested, Stage, Owners
    <3>3. Over(d)
      BY <2>0, <3>1, FoundIsKnown
    <3> QED BY <3>2, <3>3 DEF Over
  <2>2. ASSUME NEW r \in Requests, At(r, PastUnlink)
        PROVE  req[r].cur \in req[r].todo /\ req[r].at \in Deleting
    BY <2>0, <2>2 DEF At, Requested, Stage, PastUnlink, Deleting
  <2>3. ASSUME NEW d \in metadata \ metadata' PROVE Owners(d) # {}
    <3>1. PICK r \in Requests : At(r, {"forget"}) /\ d = req[r].cur
      BY <1>1, <2>0, <2>3, StoreEffect
    <3>2. At(r, PastUnlink)
      BY <3>1 DEF At, PastUnlink
    <3> QED BY <2>1, <2>2, <3>1, <3>2
  <2>4. ASSUME NEW b \in entries, b \notin entries' PROVE Owners(req[b].cur) # {}
    <3>1. PICK r \in Requests : At(r, {"unlink"}) /\ \E d \in req[r].todo : d.blob = b
      BY <1>1, <2>0, <2>4, StoreEffect
    <3>2. req[r].at \in Deleting
      BY <3>1 DEF At, Deleting
    <3> QED BY <2>1, <3>1, <3>2
  <2>5. ASSUME NEW b \in chunks, b \notin chunks' PROVE Owners(req[b].cur) # {}
    <3>1. PICK r \in Requests : At(r, {"purge", "purge_missing"}) /\ req[r].cur.blob = b
      BY <1>1, <2>0, <2>5, StoreEffect
    <3>2. At(r, PastUnlink)
      BY <3>1 DEF At, PastUnlink
    <3> QED BY <2>1, <2>2, <3>1, <3>2
  <2> QED BY <2>3, <2>4, <2>5
<1>2. IInv /\ [Next]_vars => [Apart]_vars
  BY <1>1
<1> QED BY <1>2, Invariant, PTL DEF Spec, TenantsIsolated
============================================================================
