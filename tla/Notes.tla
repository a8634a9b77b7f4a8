------------------------------- MODULE Notes -------------------------------
(***************************************************************************)
(* apps/sample, features/notes: documents of a title and a description,    *)
(* created, updated and deleted by concurrent requests.  An update reads   *)
(* the document, sets attributes and saves the whole of it, with other     *)
(* requests between the two calls.                                         *)
(*                                                                         *)
(* An action is one awaited call of one request with the code up to the    *)
(* next one.  A crash is a request that stops for good, which Spec allows  *)
(* at any point.  The GETs change nothing and are left out.                *)
(*                                                                         *)
(* Every Note(...) raises: its validator convert_id (mode before, written  *)
(* as a method) is given the data as self and pydantic's ValidationInfo as *)
(* values, and `in` is no operator of that.                                *)
(***************************************************************************)
EXTENDS Naturals

CONSTANTS
  Requests,   \* requests; also the ids of the notes they create
  NoNote,     \* no document
  Unset,      \* None
  MaxFaults   \* bound: calls to MongoDB that fail

ASSUME ConstantsAssumption ==
  /\ Unset \notin Requests
  /\ MaxFaults \in Nat

VARIABLES
  notes,      \* the notes collection, by id
  req,        \* the requests
  faults      \* failed calls so far

vars == <<notes, req, faults>>

----------------------------------------------------------------------------
\* The value of a field is the request that gave it.
Fields == {"title", "description"}
Note == [title : Requests, description : Requests \cup {Unset}]

ASSUME NoteAssumption == NoNote \notin Note

\* note: the id in the URL, for a creation the new one.  sets: the fields of
\* the body that are not null.  doc: the request's copy of the document.
\* before: history, the requests that had ended when this one read its
\* document (a creation: when it wrote it).
Request ==
  [op : {"create", "update", "delete"}, at : {"save", "remove", "done"},
   note : Requests, sets : SUBSET Fields, doc : Note \cup {NoNote},
   before : SUBSET Requests, reply : {"none", "204", "404", "500"}]

NotReceived == [op |-> "none", at |-> "new"]

Ended == {q \in Requests : req[q].at = "done"}

Received(op, n, sets, doc) ==
  [op |-> op, at |-> "new", note |-> n, sets |-> sets, doc |-> doc,
   before |-> Ended, reply |-> "none"]

Replied(q, status) == [q EXCEPT !.at = "done", !.reply = status]

\* An id in a URL is of interest once a note has it.
Known(n) == req[n].op = "create"

Init ==
  /\ notes = [n \in Requests |-> NoNote]
  /\ req = [r \in Requests |-> NotReceived]
  /\ faults = 0

\* A call of the request q, in r, makes the collection m and q goes on as
\* next; or it raises, before MongoDB did it or after.
Call(r, q, m, next) ==
  \/ /\ notes' = m
     /\ req' = [req EXCEPT ![r] = next]
     /\ UNCHANGED faults
  \/ /\ faults < MaxFaults
     /\ faults' = faults + 1
     /\ notes' \in {notes, m}
     /\ req' = [req EXCEPT ![r] = Replied(q, "500")]

\* setattr of the fields in sets, on behalf of r.
Overwritten(doc, r, sets) == [f \in Fields |-> IF f \in sets THEN r ELSE Unset]

Assigned(doc, r, sets) == [f \in Fields |-> IF f \in sets THEN r ELSE doc[f]]

----------------------------------------------------------------------------
\* Note(**document.model_dump()) raises.
TypeError == "500"

\* create_note; NoteCreate has no default for the title.  The document is
\* inserted, and the answer is an error whether the insert fails or not.
Create(r, sets) ==
  LET doc == [f \in Fields |-> IF f \in sets THEN r ELSE Unset]
      q == Received("create", r, sets, doc)
  IN  /\ req[r] = NotReceived
      /\ "title" \in sets
      /\ Call(r, q, [notes EXCEPT ![r] = doc], Replied(q, TypeError))

\* update_note_by_id: NoteModel.get and the loop over the updates.
Update(r, n, sets) ==
  LET q == Received("update", n, sets, NoNote)
  IN  /\ req[r] = NotReceived
      /\ Known(n)
      /\ Call(r, q, notes, IF notes[n] = NoNote THEN Replied(q, "404")
                           ELSE [q EXCEPT !.at = "save",
                                          !.doc = Assigned(notes[n], r, sets)])

\* document.save() writes every field, and inserts a document that is gone.
Save(r) ==
  /\ req[r].at = "save"
  /\ Call(r, req[r], [notes EXCEPT ![req[r].note] = req[r].doc],
          Replied(req[r], "204"))

\* delete_note_by_id.
Delete(r, n) ==
  LET q == Received("delete", n, {}, NoNote)
  IN  /\ req[r] = NotReceived
      /\ Known(n)
      /\ Call(r, q, notes, IF notes[n] = NoNote THEN Replied(q, "204")
                           ELSE [q EXCEPT !.at = "remove", !.doc = notes[n]])

RemoveUnawaited(r) ==
  /\ req[r].at = "remove"
  /\ Call(r, req[r], notes, Replied(req[r], "204"))

Remove(r) ==
  /\ req[r].at = "remove"
  /\ Call(r, req[r], [notes EXCEPT ![req[r].note] = NoNote],
          Replied(req[r], "204"))

Next ==
  \E r \in Requests :
     \/ \E sets \in SUBSET Fields : Create(r, sets)
     \/ \E n \in Requests, sets \in SUBSET Fields : Update(r, n, sets)
     \/ \E n \in Requests : Delete(r, n)
     \/ Save(r) \/ Remove(r)

Spec == Init /\ [][Next]_vars

----------------------------------------------------------------------------
(* Properties.                                                             *)

\* Every variable keeps its type; a stored note always has a title.
TypeOK ==
  /\ notes \in [Requests -> Note \cup {NoNote}]
  /\ req \in [Requests -> Request \cup {NotReceived}]
  /\ faults \in 0 .. MaxFaults

\* The requests that read their document before r ended and of which r did not
\* see the end.
Overlapping(r) ==
  {q \in Requests \ {r} : /\ req[q].at # "new"
                         /\ r \notin req[q].before /\ q \notin req[r].before}

\* Of them, those that do op to the note n.
Rivals(r, op, n) ==
  {q \in Overlapping(r) : req[q].op = op /\ req[q].note = n /\ req[q].doc # NoNote}

\* What an update answered to have written stays, and so does what a creation
\* wrote although it answered 500, as long as the note exists and no update of
\* it ran at the same time, until a later update gives the field another value:
\* a body without a field never clears it, and an error never leaves half a note.
UpdatesLostOnlyToRivals ==
  \A r \in Requests :
     LET n == req[r].note IN
     req[r].op = "create" \/ (req[r].op = "update" /\ req[r].reply = "204") =>
       \/ notes[n] = NoNote
       \/ Rivals(r, "update", n) # {}
       \/ \A f \in req[r].sets :
             \/ notes[n][f] = r
             \/ \E q \in Requests : /\ notes[n][f] = q
                                  /\ r \in req[q].before
                                  /\ req[q].note = n /\ f \in req[q].sets

\* A deleted note comes back only through an update that had read it before
\* the deletion was answered.
RevivedOnlyByRivals ==
  \A r \in Requests :
     req[r].op = "delete" /\ req[r].reply = "204" /\ notes[req[r].note] # NoNote
     => Rivals(r, "update", req[r].note) # {}

============================================================================
