----------------------------- MODULE NotesProofs -----------------------------
(***************************************************************************)
(* Theorems of Notes, for any number of requests and failing calls.        *)
(***************************************************************************)
EXTENDS Notes, TLAPS

----------------------------------------------------------------------------
(* The inductive invariant, request by request.                            *)

Changes == {"create", "update", "delete"}

\* What s answered says that it changed its note; a creation may have whatever
\* it answers.
Success(s) ==
  req[s].op = "create" \/ (req[s].op \in Changes /\ req[s].reply = "204")

\* doc has in f what s gave it, or what a later update did.
Current(s, doc, f) ==
  \/ doc[f] = s
  \/ \E q \in Requests : /\ doc[f] = q /\ req[q].op = "update"
                         /\ s \in req[q].before
                         /\ req[q].note = req[s].note /\ f \in req[q].sets

\* A document of the note of s, seen after s had succeeded: unless an update
\* overlapped, s was no deletion and its fields are there.
Reflects(s, doc) ==
  \/ Rivals(s, "update", req[s].note) # {}
  \/ req[s].op # "delete" /\ \A f \in req[s].sets : Current(s, doc, f)

\* Requests go to notes that were created.
Named(s) ==
  req[s].op \in Changes =>
    /\ req[req[s].note].op = "create"
    /\ req[s].op = "create" => req[s].note = s

Seen(s) == req[s].op # "none" => req[s].before \subseteq Ended

\* What the next call of a request will do.
Writes(s) ==
  /\ req[s].at = "save" =>
       /\ req[s].op = "update" /\ req[s].doc \in Note
       /\ \A f \in req[s].sets : req[s].doc[f] = s
  /\ req[s].at = "remove" => req[s].op = "delete" /\ req[s].doc # NoNote

\* The copy an update is about to save reflects what had ended when it read.
Draft(u) ==
  req[u].at = "save" =>
    \A s \in req[u].before :
       Success(s) /\ req[s].note = req[u].note => Reflects(s, req[u].doc)

\* So does the collection.
Kept(s) ==
  Success(s) => notes[req[s].note] = NoNote \/ Reflects(s, notes[req[s].note])

\* A stored note was created.
Origin(n) == notes[n] # NoNote => req[n].op = "create"

Good(s) ==
  Named(s) /\ Seen(s) /\ Writes(s) /\ Draft(s) /\ Kept(s) /\ Origin(s)

IInv == TypeOK /\ \A s \in Requests : Good(s)

----------------------------------------------------------------------------
(* Records.                                                                *)

Statuses == {"none", "204", "404", "500"}

\* What kind of record the field op tells.
LEMMA Kinds ==
  ASSUME TypeOK, NEW s \in Requests
  PROVE  /\ req[s].op \in Changes => req[s] \in Request
         /\ req[s].op = "none" => req[s] = NotReceived
         /\ req[s].op \in Changes \cup {"none"}
         /\ req[s].op = "none" <=> req[s].at = "new"
         /\ req[s].at \in {"save", "remove"} => req[s] \in Request /\ req[s].op \in Changes
<1>1. req[s] \in Request \/ req[s] = NotReceived
  BY DEF TypeOK
<1>2. CASE req[s] \in Request
  BY <1>2 DEF Request, Changes
<1>3. CASE req[s] = NotReceived
  BY <1>3 DEF NotReceived, Changes
<1> QED BY <1>1, <1>2, <1>3

LEMMA RepliedRequest ==
  ASSUME NEW q \in Request, NEW st \in Statuses
  PROVE  /\ Replied(q, st) \in Request
         /\ Replied(q, st).op = q.op /\ Replied(q, st).note = q.note
         /\ Replied(q, st).sets = q.sets /\ Replied(q, st).doc = q.doc
         /\ Replied(q, st).before = q.before
         /\ Replied(q, st).at = "done" /\ Replied(q, st).reply = st
BY DEF Replied, Request, Statuses

LEMMA RepliedReceived ==
  ASSUME NEW op \in Changes, NEW n \in Requests, NEW sets \in SUBSET Fields,
         NEW doc \in Note \cup {NoNote}, NEW st \in Statuses,
         NEW q, q = Replied(Received(op, n, sets, doc), st)
  PROVE  /\ q \in Request
         /\ q.op = op /\ q.note = n /\ q.sets = sets /\ q.doc = doc
         /\ q.before = Ended /\ q.at = "done" /\ q.reply = st
<1>1. q = [op |-> op, at |-> "done", note |-> n, sets |-> sets, doc |-> doc,
           before |-> Ended, reply |-> st]
  BY DEF Replied, Received
<1>2. Ended \in SUBSET Requests
  BY DEF Ended
<1> QED BY <1>1, <1>2 DEF Request, Statuses, Changes

LEMMA NotesOf ==
  ASSUME NEW r \in Requests, NEW sets \in SUBSET Fields, NEW doc \in Note
  PROVE  /\ Assigned(doc, r, sets) \in Note
         /\ \A f \in Fields : Assigned(doc, r, sets)[f] = IF f \in sets THEN r ELSE doc[f]
<1>1. Assigned(doc, r, sets) = [title |-> IF "title" \in sets THEN r ELSE doc.title,
                description |-> IF "description" \in sets THEN r ELSE doc.description]
  BY DEF Assigned, Fields
<1>2. doc.title \in Requests /\ doc.description \in Requests \cup {Unset}
  BY DEF Note
<1>3. Assigned(doc, r, sets) \in Note
  BY <1>1, <1>2 DEF Note
<1>4. \A f \in Fields : Assigned(doc, r, sets)[f] = IF f \in sets THEN r ELSE doc[f]
  BY DEF Assigned
<1> QED BY <1>3, <1>4

LEMMA NewNotesOf ==
  ASSUME NEW r \in Requests, NEW sets \in SUBSET Fields, "title" \in sets,
         NEW doc, doc = [f \in Fields |-> IF f \in sets THEN r ELSE Unset]
  PROVE  doc \in Note /\ \A f \in sets : doc[f] = r
<1>1. doc = [title |-> r, description |-> IF "description" \in sets THEN r ELSE Unset]
  BY DEF Fields
<1> QED BY <1>1 DEF Note, Fields

LEMMA Initially == Init => IInv
<1> SUFFICES ASSUME Init PROVE IInv
  OBVIOUS
<1>1. \A s \in Requests : /\ req[s] = NotReceived
                          /\ req[s].op = "none" /\ req[s].at = "new" /\ notes[s] = NoNote
  BY DEF Init, NotReceived
<1>2. TypeOK
  BY ConstantsAssumption DEF Init, TypeOK
<1>3. ASSUME NEW s \in Requests PROVE Good(s)
  BY <1>1 DEF Good, Named, Seen, Writes, Draft, Kept, Success, Changes, Origin
<1> QED BY <1>2, <1>3 DEF IInv

----------------------------------------------------------------------------
(* A step: r takes the record x, the others keep theirs.                   *)

Did(r, x) == req' = [req EXCEPT ![r] = x]

\* A call succeeds or fails; it changes the collection to m or not at all.
LEMMA CallCases ==
  ASSUME TypeOK, NEW r, NEW q, NEW m, NEW next, Call(r, q, m, next)
  PROVE  /\ faults' \in 0 .. MaxFaults
         /\ \/ notes' = m /\ Did(r, next)
            \/ notes' \in {notes, m} /\ Did(r, Replied(q, "500"))
<1>1. faults \in 0 .. MaxFaults /\ MaxFaults \in Nat
  BY ConstantsAssumption DEF TypeOK
<1> QED BY <1>1 DEF Call, Did

\* r arrives, or goes on.
Goes(r, x) ==
  /\ x \in Request
  /\ req[r].at # "done"
  /\ req[r].op # "none" =>
       /\ x.op = req[r].op /\ x.before = req[r].before
       /\ x.note = req[r].note /\ x.sets = req[r].sets /\ x.doc = req[r].doc

\* What stays for good.
Steady ==
  \A p \in Requests : req[p].op # "none" =>
    /\ req'[p].op = req[p].op /\ req'[p].before = req[p].before
    /\ req'[p].note = req[p].note /\ req'[p].sets = req[p].sets
    /\ req'[p].doc = req[p].doc
    /\ req[p].at = "done" => req'[p].at = "done"

Others(r) == \A p \in Requests \ {r} : req'[p] = req[p]

LEMMA Frame ==
  ASSUME TypeOK, NEW r \in Requests, NEW x, Goes(r, x), Did(r, x),
         notes' \in [Requests -> Note \cup {NoNote}], faults' \in 0 .. MaxFaults
  PROVE  TypeOK' /\ Steady /\ Others(r) /\ req'[r] = x
<1>1. req'[r] = x /\ Others(r)
  BY DEF Did, TypeOK, Others
<1>2. TypeOK'
  BY DEF TypeOK, Goes, Did
<1>3. Steady
  BY <1>1 DEF Steady, Others, Goes
<1> QED BY <1>1, <1>2, <1>3

----------------------------------------------------------------------------
(* What a steady step keeps.                                               *)

LEMMA EndedStay ==
  ASSUME TypeOK, Steady
  PROVE  Ended \subseteq Ended'
<1>1. \A p \in Requests : req[p].at = "done" => req[p].op # "none"
  BY Kinds
<1> QED BY <1>1 DEF Ended, Steady

LEMMA RivalsStay ==
  ASSUME TypeOK, TypeOK', Steady, NEW s \in Requests, req[s].op # "none",
         NEW o \in {"update", "delete"}, NEW n
  PROVE  Rivals(s, o, n) \subseteq Rivals(s, o, n)'
<1> SUFFICES ASSUME NEW q \in Rivals(s, o, n) PROVE q \in Rivals(s, o, n)'
  OBVIOUS
<1>1. /\ q \in Requests \ {s} /\ req[q].at # "new"
      /\ s \notin req[q].before /\ q \notin req[s].before
      /\ req[q].op = o /\ req[q].note = n /\ req[q].doc # NoNote
  BY DEF Rivals, Overlapping
<1>2. /\ req'[q].op = o /\ req'[q].note = n /\ req'[q].doc # NoNote
      /\ req'[q].before = req[q].before /\ req'[s].before = req[s].before
  BY <1>1 DEF Steady, Changes
<1>3. req'[q].at # "new"
  <2>1. req'[q] \in Request \/ req'[q] = NotReceived
    BY <1>1 DEF TypeOK
  <2> QED BY <1>2, <2>1 DEF Request, NotReceived
<1> QED BY <1>1, <1>2, <1>3 DEF Rivals, Overlapping

\* A change that has not ended is a rival of those it has not seen end.
LEMMA Rivalry ==
  ASSUME TypeOK, TypeOK', Steady, NEW r \in Requests, r \notin Ended,
         NEW o \in {"update", "delete"}, req[r].op = o,
         NEW n, req[r].note = n, req[r].doc # NoNote,
         NEW s \in Requests, s # r, req[s].op # "none", Seen(s), s \notin req[r].before
  PROVE  r \in Rivals(s, o, n)'
<1>1. r \notin req[s].before /\ req[r].at # "new"
  BY Kinds DEF Seen, Changes
<1>2. r \in Rivals(s, o, n)
  BY <1>1 DEF Rivals, Overlapping
<1> QED BY <1>2, RivalsStay

LEMMA CurrentStays ==
  ASSUME Steady, NEW s \in Requests, req[s].op \in Changes, NEW doc, NEW f, Current(s, doc, f)
  PROVE  Current(s, doc, f)'
<1>1. CASE doc[f] = s
  BY <1>1 DEF Current
<1>2. ASSUME NEW q \in Requests, doc[f] = q, req[q].op = "update", s \in req[q].before,
             req[q].note = req[s].note, f \in req[q].sets
      PROVE  Current(s, doc, f)'
  <2>1. /\ req'[q].op = "update" /\ s \in req'[q].before
        /\ req'[q].note = req'[s].note /\ f \in req'[q].sets
    BY <1>2 DEF Steady, Changes
  <2> QED BY <1>2, <2>1 DEF Current
<1> QED BY <1>1, <1>2 DEF Current

LEMMA ReflectsStays ==
  ASSUME TypeOK, TypeOK', Steady, NEW s \in Requests, req[s].op \in Changes, NEW doc,
         Reflects(s, doc)
  PROVE  Reflects(s, doc)'
<1>1. req'[s].op = req[s].op /\ req'[s].note = req[s].note /\ req'[s].sets = req[s].sets
  BY DEF Steady, Changes
<1>2. CASE Rivals(s, "update", req[s].note) # {}
  <2> DEFINE n == req[s].note
  <2>1. PICK c : c = req[s].note
    OBVIOUS
  <2>2. Rivals(s, "update", c) \subseteq Rivals(s, "update", c)'
    BY RivalsStay DEF Changes
  <2>3. Rivals(s, "update", c)' # {} /\ c = req'[s].note
    BY <1>1, <1>2, <2>1, <2>2
  <2> QED BY <2>3 DEF Reflects
<1>3. CASE req[s].op # "delete" /\ \A f \in req[s].sets : Current(s, doc, f)
  <2>1. \A f \in req[s].sets : Current(s, doc, f)'
    BY <1>3, CurrentStays
  <2> QED BY <1>1, <1>3, <2>1 DEF Reflects
<1> QED BY <1>2, <1>3 DEF Reflects

----------------------------------------------------------------------------
(* What a step of r does to the other requests.                            *)

\* The ways in which r, which becomes x, changes the collection.
Creates(r, x) ==
  /\ req[r].op = "none" /\ x.op = "create" /\ x.note = r /\ x.doc \in Note
  /\ notes' = [notes EXCEPT ![r] = x.doc]

Saves(r) ==
  req[r].at = "save" /\ notes' = [notes EXCEPT ![req[r].note] = req[r].doc]

Drops(r) ==
  req[r].at = "remove" /\ notes' = [notes EXCEPT ![req[r].note] = NoNote]

Step(r, x) ==
  /\ Goes(r, x) /\ Did(r, x) /\ faults' \in 0 .. MaxFaults
  /\ notes' = notes \/ Creates(r, x) \/ Saves(r) \/ Drops(r)

LEMMA StepFrame ==
  ASSUME IInv, NEW r \in Requests, NEW x, Step(r, x)
  PROVE  TypeOK' /\ Steady /\ Others(r) /\ req'[r] = x
<1>1. notes \in [Requests -> Note \cup {NoNote}]
  BY DEF IInv, TypeOK
<1>2. CASE notes' = notes
  BY <1>1, <1>2, Frame DEF IInv, Step
<1>3. CASE Creates(r, x)
  <2>1. notes' \in [Requests -> Note \cup {NoNote}]
    BY <1>1, <1>3 DEF Creates
  <2> QED BY <2>1, Frame DEF IInv, Step
<1>4. CASE Saves(r)
  <2>1. req[r].doc \in Note
    BY <1>4 DEF IInv, Good, Writes, Saves
  <2>2. notes' \in [Requests -> Note \cup {NoNote}]
    BY <1>1, <1>4, <2>1 DEF Saves
  <2> QED BY <2>2, Frame DEF IInv, Step
<1>5. CASE Drops(r)
  <2>1. notes' \in [Requests -> Note \cup {NoNote}]
    BY <1>1, <1>5 DEF Drops
  <2> QED BY <2>1, Frame DEF IInv, Step
<1> QED BY <1>2, <1>3, <1>4, <1>5 DEF Step

\* Who changes a note, and what he has seen.
LEMMA Changed ==
  ASSUME IInv, NEW r \in Requests, NEW x, Step(r, x), NEW n \in Requests,
         notes'[n] # notes[n]
  PROVE  \/ Creates(r, x) /\ n = r /\ req[n].op = "none" /\ notes'[n] = x.doc
         \/ /\ req[r].at = "save" /\ req[r].op = "update" /\ req[r].note = n
            /\ req[r].doc \in Note /\ req[r].doc # NoNote /\ notes'[n] = req[r].doc
         \/ /\ req[r].at = "remove" /\ req[r].op = "delete" /\ req[r].note = n
            /\ req[r].doc # NoNote /\ notes'[n] = NoNote
<1>1. notes \in [Requests -> Note \cup {NoNote}] /\ Writes(r)
  BY DEF IInv, TypeOK, Good
<1>2. CASE Creates(r, x)
  BY <1>1, <1>2 DEF Creates
<1>3. CASE Saves(r)
  BY <1>1, <1>3, NoteAssumption DEF Saves, Writes
<1>4. CASE Drops(r)
  BY <1>1, <1>4 DEF Drops, Writes
<1> QED BY <1>2, <1>3, <1>4 DEF Step

LEMMA OthersNamed ==
  ASSUME IInv, NEW r \in Requests, NEW x, Step(r, x), NEW s \in Requests, s # r
  PROVE  Named(s)' /\ Seen(s)' /\ Writes(s)'
<1>1. TypeOK /\ TypeOK' /\ Steady /\ Others(r) /\ Named(s) /\ Seen(s) /\ Writes(s)
  BY StepFrame DEF IInv, Good
<1>2. req'[s] = req[s]
  BY <1>1 DEF Others
<1>3. Writes(s)'
  BY <1>1, <1>2 DEF Writes
<1>4. Seen(s)'
  BY <1>1, <1>2, EndedStay DEF Seen
<1>5. Named(s)'
  <2>1. ASSUME req[s].op \in Changes PROVE req[s].note \in Requests
    BY <1>1, <2>1, Kinds DEF Request
  <2>2. ASSUME req[s].op \in Changes
        PROVE  req'[req[s].note].op = req[req[s].note].op
    BY <1>1, <2>1, <2>2 DEF Named, Steady, Changes
  <2> QED BY <1>1, <1>2, <2>2 DEF Named
<1> QED BY <1>3, <1>4, <1>5

\* Who has ended is not r, and a success stays one.
LEMMA EndedOthers ==
  ASSUME IInv, NEW r \in Requests, NEW x, Step(r, x), NEW s \in Ended
  PROVE  /\ s \in Requests /\ s # r
         /\ Success(s)' => Success(s) /\ req'[s] = req[s] /\ req[s].op \in Changes
<1>1. Others(r) /\ s \in Requests /\ s # r
  BY StepFrame DEF Step, Goes, Ended
<1> QED BY <1>1 DEF Others, Success, Changes

LEMMA OthersDraft ==
  ASSUME IInv, NEW r \in Requests, NEW x, Step(r, x), NEW u \in Requests, u # r
  PROVE  Draft(u)'
<1>1. TypeOK /\ TypeOK' /\ Steady /\ Others(r) /\ Draft(u) /\ Seen(u)
  BY StepFrame DEF IInv, Good
<1> SUFFICES ASSUME req'[u].at = "save", NEW s \in req'[u].before, Success(s)',
                    req'[s].note = req'[u].note, NEW doc, doc = req'[u].doc
             PROVE  Reflects(s, doc)'
  BY DEF Draft
<1>3. req'[u] = req[u] /\ req[u].op # "none"
  BY <1>1, Kinds DEF Others, Changes
<1>4. s \in Ended
  BY <1>1, <1>3 DEF Seen
<1>5. s \in Requests /\ Success(s) /\ req'[s] = req[s] /\ req[s].op \in Changes
  BY <1>4, EndedOthers
<1>6. Reflects(s, req[u].doc)
  BY <1>1, <1>3, <1>5 DEF Draft
<1> QED BY <1>1, <1>3, <1>5, <1>6, ReflectsStays

LEMMA OthersKept ==
  ASSUME IInv, NEW r \in Requests, NEW x, Step(r, x), NEW s \in Requests, s # r
  PROVE  Kept(s)'
<1>1. /\ TypeOK /\ TypeOK' /\ Steady /\ Others(r)
      /\ Kept(s) /\ Named(s) /\ Seen(s) /\ Draft(r)
  BY StepFrame DEF IInv, Good
<1> SUFFICES ASSUME Success(s)', NEW new, new = notes'[req'[s].note]
             PROVE  new = NoNote \/ Reflects(s, new)'
  BY DEF Kept
<1>2. req'[s] = req[s] /\ Success(s) /\ req[s].op \in Changes
  BY <1>1 DEF Others, Success, Changes
<1>3. PICK n \in Requests : n = req[s].note
  BY <1>1, <1>2, Kinds DEF Request
<1>4. req[n].op = "create"
  BY <1>1, <1>2, <1>3 DEF Named
<1>5. PICK old : old = notes[n]
  OBVIOUS
<1>6. old = NoNote \/ Reflects(s, old)
  BY <1>1, <1>2, <1>3, <1>5 DEF Kept
<1>7. CASE new = old
  BY <1>1, <1>2, <1>6, <1>7, ReflectsStays
<1>8. CASE /\ req[r].at = "save" /\ req[r].op = "update" /\ req[r].note = n
           /\ req[r].doc # NoNote /\ new = req[r].doc
  <2>1. CASE s \in req[r].before
    <3>1. Reflects(s, new)
      BY <1>1, <1>2, <1>3, <1>8, <2>1 DEF Draft
    <3> QED BY <1>1, <1>2, <3>1, ReflectsStays
  <2>2. CASE s \notin req[r].before
    <3>1. r \notin Ended
      BY <1>8 DEF Ended
    <3>2. r \in Rivals(s, "update", n)'
      BY <1>1, <1>2, <1>8, <2>2, <3>1, Rivalry DEF Changes
    <3>3. Reflects(s, new)'
      BY <1>2, <1>3, <3>2 DEF Reflects
    <3> QED BY <3>3
  <2> QED BY <2>1, <2>2
<1>9. CASE new = NoNote
  BY <1>9
<1> QED BY <1>2, <1>3, <1>4, <1>5, <1>7, <1>8, <1>9, Changed

LEMMA OthersOrigin ==
  ASSUME IInv, NEW r \in Requests, NEW x, Step(r, x), NEW n \in Requests,
         n # r \/ x.op # "create"
  PROVE  Origin(n)'
<1>1. /\ TypeOK /\ TypeOK' /\ Steady /\ Others(r) /\ req'[r] = x
      /\ Origin(n) /\ Named(r) /\ Goes(r, x)
  BY StepFrame DEF IInv, Good, Step
<1>2. ASSUME notes'[n] # NoNote PROVE req'[n].op = "create"
  <2>1. CASE notes[n] # NoNote
    BY <1>1, <2>1 DEF Origin, Steady
  <2>2. CASE notes[n] = NoNote
    <3>1. req[n].op = "create" \/ Creates(r, x)
      BY <1>1, <1>2, <2>2, Changed DEF Named, Changes
    <3>2. ~Creates(r, x)
      <4>1. CASE n = r
        BY <4>1 DEF Creates
      <4>2. CASE n # r
        BY <1>2, <2>2, <4>2 DEF Creates, IInv, TypeOK
      <4> QED BY <4>1, <4>2
    <3> QED BY <1>1, <3>1, <3>2 DEF Steady
  <2> QED BY <2>1, <2>2
<1> QED BY <1>2 DEF Origin

\* All that a step has to show is about the request that takes it.
LEMMA OthersGood ==
  ASSUME IInv, NEW r \in Requests, NEW x, Step(r, x)
  PROVE  \A s \in Requests \ {r} : Good(s)'
<1> SUFFICES ASSUME NEW s \in Requests, s # r PROVE Good(s)'
  OBVIOUS
<1> QED BY OthersNamed, OthersDraft, OthersKept, OthersOrigin DEF Good

----------------------------------------------------------------------------
(* What a step of r does to r.                                             *)

LEMMA OwnNamed ==
  ASSUME IInv, NEW r \in Requests, NEW x, Step(r, x),
         x \in Request, x.op # "create", req[x.note].op = "create"
  PROVE  Named(r)' /\ Origin(r)'
<1>1. Steady /\ req'[r] = x /\ x.note \in Requests
  BY StepFrame DEF Request
<1>2. req'[x.note].op = "create"
  BY <1>1 DEF Steady
<1>3. Named(r)'
  BY <1>1, <1>2 DEF Named
<1> QED BY <1>3, OthersOrigin

LEMMA OwnSeen ==
  ASSUME IInv, NEW r \in Requests, NEW x, Step(r, x), req[r].op = "none" => x.before = Ended
  PROVE  Seen(r)'
<1>1. req'[r] = x /\ Ended \subseteq Ended'
  BY StepFrame, EndedStay DEF IInv
<1>2. CASE req[r].op = "none"
  BY <1>1, <1>2 DEF Seen
<1>3. CASE req[r].op # "none"
  BY <1>1, <1>3 DEF Seen, Step, Goes, IInv, Good
<1> QED BY <1>2, <1>3

\* A change that is answered: what is left to show is what the answer says.
LEMMA Answered ==
  ASSUME IInv, NEW r \in Requests, NEW x, Step(r, x),
         x \in Request, x.op # "create", req[x.note].op = "create",
         req[r].op = "none" => x.before = Ended, x.at = "done", Kept(r)'
  PROVE  IInv'
<1>1. TypeOK' /\ req'[r] = x
  BY StepFrame
<1>2. Writes(r)' /\ Draft(r)'
  BY <1>1 DEF Writes, Draft, Request
<1>3. Good(r)'
  BY <1>2, OwnNamed, OwnSeen DEF Good
<1> QED BY <1>1, <1>3, OthersGood DEF IInv

LEMMA Unsuccessful ==
  ASSUME NEW r, req'[r].op # "create", req'[r].reply # "204"
  PROVE  Kept(r)'
BY DEF Kept, Success

LEMMA CreateStep ==
  ASSUME IInv, NEW r \in Requests, NEW sets \in SUBSET Fields, Create(r, sets)
  PROVE  IInv'
<1>1. PICK doc, q, m : /\ doc = [f \in Fields |-> IF f \in sets THEN r ELSE Unset]
                       /\ q = Received("create", r, sets, doc)
                       /\ m = [notes EXCEPT ![r] = doc]
  OBVIOUS
<1>2. /\ req[r] = NotReceived /\ "title" \in sets
      /\ Call(r, q, m, Replied(q, "500"))
  BY <1>1 DEF Create, TypeError
<1>3. doc \in Note /\ doc # NoNote /\ \A f \in sets : doc[f] = r
  BY <1>1, <1>2, NewNotesOf, NoteAssumption
<1>4. req[r].op = "none" /\ req[r].at = "new"
  BY <1>2 DEF NotReceived
<1>5. faults' \in 0 .. MaxFaults
  BY <1>2, CallCases DEF IInv
<1>6. PICK x : x = Replied(q, "500")
  OBVIOUS
<1>7. Did(r, x) /\ notes' \in {notes, m}
  BY <1>2, <1>6, CallCases DEF IInv
<1>8. /\ x \in Request /\ x.op = "create" /\ x.note = r /\ x.sets = sets
      /\ x.doc = doc /\ x.before = Ended /\ x.at = "done"
  BY <1>1, <1>3, <1>6, RepliedReceived DEF Changes, Statuses
<1>9. Step(r, x)
  BY <1>1, <1>3, <1>4, <1>5, <1>7, <1>8 DEF Step, Goes, Creates
<1>10. TypeOK' /\ req'[r] = x
  BY <1>9, StepFrame
<1>11. Named(r)' /\ Writes(r)' /\ Draft(r)' /\ Origin(r)'
  BY <1>8, <1>10 DEF Named, Writes, Draft, Origin
<1>12. Seen(r)'
  BY <1>8, <1>9, OwnSeen
<1>13. notes'[r] \in {NoNote, doc}
  <2>1. notes[r] = NoNote
    BY <1>4 DEF IInv, Good, Origin
  <2> QED BY <1>1, <1>7, <2>1 DEF IInv, TypeOK
<1>14. Kept(r)'
  <2>1. Reflects(r, doc)'
    BY <1>3, <1>8, <1>10 DEF Reflects, Current
  <2> QED BY <1>8, <1>10, <1>13, <2>1 DEF Kept
<1>15. Good(r)'
  BY <1>11, <1>12, <1>14 DEF Good
<1> QED BY <1>9, <1>10, <1>15, OthersGood DEF IInv

LEMMA UpdateStep ==
  ASSUME IInv, NEW r \in Requests, NEW n \in Requests, NEW sets \in SUBSET Fields,
         Update(r, n, sets)
  PROVE  IInv'
<1>1. PICK q, doc : q = Received("update", n, sets, NoNote) /\ doc = Assigned(notes[n], r, sets)
  OBVIOUS
<1>2. PICK saving : saving = [q EXCEPT !.at = "save", !.doc = doc]
  OBVIOUS
<1>3. /\ req[r] = NotReceived /\ req[n].op = "create"
      /\ Call(r, q, notes, IF notes[n] = NoNote THEN Replied(q, "404") ELSE saving)
  BY <1>1, <1>2 DEF Update, Known
<1>4. req[r].op = "none" /\ req[r].at = "new"
  BY <1>3 DEF NotReceived
<1>6. faults' \in 0 .. MaxFaults /\ notes' = notes
  BY <1>3, CallCases DEF IInv
<1>7. \/ Did(r, Replied(q, "404")) \/ Did(r, Replied(q, "500"))
      \/ notes[n] # NoNote /\ Did(r, saving)
  BY <1>3, CallCases DEF IInv
<1>8. ASSUME NEW st \in {"404", "500"}, Did(r, Replied(q, st)) PROVE IInv'
  <2>1. PICK x : x = Replied(q, st)
    OBVIOUS
  <2>2. /\ x \in Request /\ x.op = "update" /\ x.note = n /\ x.before = Ended
        /\ x.at = "done" /\ x.reply = st
    BY <1>1, <2>1, RepliedReceived DEF Changes, Statuses
  <2>3. Step(r, x)
    BY <1>4, <1>6, <1>8, <2>1, <2>2 DEF Step, Goes
  <2>4. Kept(r)'
    BY <2>2, <2>3, StepFrame, Unsuccessful
  <2> QED BY <1>3, <2>2, <2>3, <2>4, Answered
<1>9. CASE notes[n] # NoNote /\ Did(r, saving)
  <2>1. /\ notes[n] \in Note /\ doc \in Note
        /\ \A f \in Fields : doc[f] = IF f \in sets THEN r ELSE notes[n][f]
    BY <1>1, <1>9, NotesOf DEF IInv, TypeOK
  <2>2. saving = [op |-> "update", at |-> "save", note |-> n, sets |-> sets, doc |-> doc,
                  before |-> Ended, reply |-> "none"]
    BY <1>1, <1>2 DEF Received
  <2>3. Ended \in SUBSET Requests
    BY DEF Ended
  <2>4. /\ saving \in Request /\ saving.op = "update" /\ saving.note = n
        /\ saving.before = Ended /\ saving.at = "save" /\ saving.reply = "none"
        /\ saving.sets = sets /\ saving.doc = doc
    BY <2>1, <2>2, <2>3 DEF Request
  <2>5. Step(r, saving)
    BY <1>4, <1>6, <1>9, <2>4 DEF Step, Goes
  <2>6. TypeOK /\ TypeOK' /\ Steady /\ req'[r] = saving
    BY <2>5, StepFrame DEF IInv
  <2>7. Named(r)' /\ Origin(r)' /\ Seen(r)'
    BY <1>3, <2>4, <2>5, OwnNamed, OwnSeen
  <2>8. Writes(r)'
    BY <2>1, <2>4, <2>6 DEF Writes
  <2>9. Kept(r)'
    BY <2>4, <2>6, Unsuccessful
  <2>10. Draft(r)'
    <3> SUFFICES ASSUME NEW s \in Ended, Success(s)', req'[s].note = n
                 PROVE  Reflects(s, doc)'
      BY <2>4, <2>6 DEF Draft
    <3>1. s \in Requests /\ Success(s) /\ req'[s] = req[s] /\ req[s].op \in Changes
      BY <2>5, EndedOthers
    <3>2. PICK old : old = notes[n]
      OBVIOUS
    <3>3. Reflects(s, old)
      BY <1>9, <3>1, <3>2 DEF IInv, Good, Kept
    <3>4. CASE Rivals(s, "update", n) # {}
      <4>1. (Rivals(s, "update", n) # {})'
        BY <2>6, <3>1, <3>4, RivalsStay DEF Changes
      <4> QED BY <4>1 DEF Reflects
    <3>5. CASE req[s].op # "delete" /\ \A f \in req[s].sets : Current(s, old, f)
      <4>1. req[s].sets \subseteq Fields
        BY <2>6, <3>1, Kinds DEF Request
      <4>2. ASSUME NEW f \in req[s].sets PROVE Current(s, doc, f)'
        <5>1. CASE f \in sets
          BY <2>1, <2>4, <2>6, <4>1, <5>1 DEF Current
        <5>2. CASE f \notin sets
          <6>1. Current(s, old, f)' /\ doc[f] = old[f]
            BY <2>1, <2>6, <3>1, <3>2, <3>5, <4>1, <5>2, CurrentStays
          <6> QED BY <6>1 DEF Current
        <5> QED BY <5>1, <5>2
      <4> QED BY <3>1, <3>5, <4>2 DEF Reflects
    <3> QED BY <3>1, <3>3, <3>4, <3>5 DEF Reflects
  <2>11. Good(r)'
    BY <2>7, <2>8, <2>9, <2>10 DEF Good
  <2> QED BY <2>5, <2>6, <2>11, OthersGood DEF IInv
<1> QED BY <1>7, <1>8, <1>9

LEMMA DeleteStep ==
  ASSUME IInv, NEW r \in Requests, NEW n \in Requests, Delete(r, n)
  PROVE  IInv'
<1>1. PICK q, removing : /\ q = Received("delete", n, {}, NoNote)
                         /\ removing = [q EXCEPT !.at = "remove", !.doc = notes[n]]
  OBVIOUS
<1>2. /\ req[r] = NotReceived /\ req[n].op = "create"
      /\ Call(r, q, notes, IF notes[n] = NoNote THEN Replied(q, "204") ELSE removing)
  BY <1>1 DEF Delete, Known
<1>3. req[r].op = "none" /\ req[r].at = "new"
  BY <1>2 DEF NotReceived
<1>5. faults' \in 0 .. MaxFaults /\ notes' = notes
  BY <1>2, CallCases DEF IInv
<1>6. \/ notes[n] = NoNote /\ Did(r, Replied(q, "204"))
      \/ Did(r, Replied(q, "500"))
      \/ notes[n] # NoNote /\ Did(r, removing)
  BY <1>2, CallCases DEF IInv
<1>7. ASSUME NEW st \in {"204", "500"}, Did(r, Replied(q, st)),
             st = "204" => notes[n] = NoNote
      PROVE  IInv'
  <2>1. PICK x : x = Replied(q, st)
    OBVIOUS
  <2>2. /\ x \in Request /\ x.op = "delete" /\ x.note = n /\ x.before = Ended
        /\ x.at = "done" /\ x.reply = st
    BY <1>1, <2>1, RepliedReceived DEF Changes, Statuses
  <2>3. Step(r, x)
    BY <1>3, <1>5, <1>7, <2>1, <2>2 DEF Step, Goes
  <2>4. req'[r] = x
    BY <2>3, StepFrame
  <2>5. Kept(r)'
    BY <1>5, <1>7, <2>2, <2>4 DEF Kept, Success
  <2> QED BY <1>2, <2>2, <2>3, <2>5, Answered
<1>8. CASE notes[n] # NoNote /\ Did(r, removing)
  <2>1. notes[n] \in Note
    BY <1>8 DEF IInv, TypeOK
  <2>2. removing = [op |-> "delete", at |-> "remove", note |-> n, sets |-> {},
                    doc |-> notes[n], before |-> Ended, reply |-> "none"]
    BY <1>1 DEF Received
  <2>3. Ended \in SUBSET Requests
    BY DEF Ended
  <2>4. /\ removing \in Request /\ removing.op = "delete" /\ removing.note = n
        /\ removing.before = Ended /\ removing.at = "remove" /\ removing.reply = "none"
        /\ removing.doc = notes[n]
    BY <2>1, <2>2, <2>3 DEF Request
  <2>5. Step(r, removing)
    BY <1>3, <1>5, <1>8, <2>4 DEF Step, Goes
  <2>6. TypeOK' /\ req'[r] = removing
    BY <2>5, StepFrame
  <2>7. Named(r)' /\ Origin(r)' /\ Seen(r)'
    BY <1>2, <2>4, <2>5, OwnNamed, OwnSeen
  <2>8. Writes(r)' /\ Draft(r)'
    BY <1>8, <2>4, <2>6 DEF Writes, Draft
  <2>9. Kept(r)'
    BY <2>4, <2>6, Unsuccessful
  <2>10. Good(r)'
    BY <2>7, <2>8, <2>9 DEF Good
  <2> QED BY <2>5, <2>6, <2>10, OthersGood DEF IInv
<1> QED BY <1>6, <1>7, <1>8

\* The second call of an update or of a deletion writes d into its note.
LEMMA SecondCall ==
  ASSUME IInv, NEW r \in Requests, req[r].at \in {"save", "remove"}, NEW d,
         req[r].at = "save" => d = req[r].doc, req[r].at = "remove" => d = NoNote,
         Call(r, req[r], [notes EXCEPT ![req[r].note] = d], Replied(req[r], "204"))
  PROVE  IInv'
<1>1. PICK q, m : q = req[r] /\ m = [notes EXCEPT ![req[r].note] = d]
  OBVIOUS
<1>2. /\ q \in Request /\ q.op \in {"update", "delete"} /\ Named(r) /\ Writes(r)
      /\ q.note \in Requests /\ req[q.note].op = "create"
  <2>1. q \in Request /\ q.op \in Changes /\ q.note \in Requests
    BY <1>1, Kinds DEF IInv, Request
  <2>2. Named(r) /\ Writes(r)
    BY DEF IInv, Good
  <2> QED BY <1>1, <2>1, <2>2 DEF Named, Writes
<1>4. faults' \in 0 .. MaxFaults
  BY <1>1, CallCases DEF IInv
<1>5. PICK st \in {"204", "500"} : /\ Did(r, Replied(q, st))
                                   /\ notes' \in {notes, m}
                                   /\ st = "204" => notes' = m
  BY <1>1, CallCases DEF IInv
<1>6. PICK x : x = Replied(q, st)
  OBVIOUS
<1>7. /\ x \in Request /\ x.op = q.op /\ x.note = q.note /\ x.sets = q.sets
      /\ x.doc = q.doc /\ x.before = q.before /\ x.at = "done" /\ x.reply = st
  BY <1>2, <1>6, RepliedRequest DEF Statuses
<1>8. Step(r, x)
  <2>1. Goes(r, x)
    BY <1>1, <1>7 DEF Goes
  <2>2. notes' = notes \/ Saves(r) \/ Drops(r)
    BY <1>1, <1>5 DEF Saves, Drops
  <2> QED BY <1>4, <1>5, <1>6, <2>1, <2>2 DEF Step
<1>9. req'[r] = x
  BY <1>8, StepFrame
<1>10. Kept(r)'
  <2>1. CASE st = "500"
    BY <1>2, <1>7, <1>9, <2>1, Unsuccessful
  <2>2. CASE st = "204"
    <3>1. notes'[x.note] = d
      BY <1>1, <1>2, <1>5, <1>7, <2>2 DEF IInv, TypeOK
    <3>2. CASE req[r].at = "remove"
      BY <1>9, <3>1, <3>2 DEF Kept
    <3>3. CASE req[r].at = "save"
      <4>1. x.op # "delete" /\ \A f \in x.sets : d[f] = r
        BY <1>1, <1>2, <1>7, <3>3 DEF Writes
      <4>2. Reflects(r, d)'
        BY <1>9, <4>1 DEF Reflects, Current
      <4> QED BY <1>9, <3>1, <4>2 DEF Kept
    <3> QED BY <3>2, <3>3
  <2> QED BY <2>1, <2>2
<1> QED BY <1>1, <1>2, <1>7, <1>8, <1>10, Answered, Kinds DEF IInv, Changes

----------------------------------------------------------------------------
LEMMA Stutter ==
  ASSUME IInv, UNCHANGED vars
  PROVE  IInv'
BY DEF vars, IInv, TypeOK, Good, Named, Seen, Writes, Draft, Kept, Origin, Success,
       Reflects, Current, Rivals, Overlapping, Ended

LEMMA Inductive == IInv /\ [Next]_vars => IInv'
<1> SUFFICES ASSUME IInv, [Next]_vars PROVE IInv'
  OBVIOUS
<1>1. ASSUME NEW r \in Requests, NEW sets \in SUBSET Fields, Create(r, sets) PROVE IInv'
  BY <1>1, CreateStep
<1>2. ASSUME NEW r \in Requests, NEW n \in Requests, NEW sets \in SUBSET Fields,
             Update(r, n, sets)
      PROVE  IInv'
  BY <1>2, UpdateStep
<1>3. ASSUME NEW r \in Requests, NEW n \in Requests, Delete(r, n) PROVE IInv'
  BY <1>3, DeleteStep
<1>4. ASSUME NEW r \in Requests, Save(r) PROVE IInv'
  <2>1. PICK d : d = req[r].doc
    OBVIOUS
  <2> QED BY <1>4, <2>1, SecondCall DEF Save
<1>5. ASSUME NEW r \in Requests, Remove(r) PROVE IInv'
  BY <1>5, SecondCall DEF Remove
<1>6. CASE UNCHANGED vars
  BY <1>6, Stutter
<1> QED BY <1>1, <1>2, <1>3, <1>4, <1>5, <1>6 DEF Next

LEMMA Invariant == Spec => []IInv
BY Initially, Inductive, PTL DEF Spec

----------------------------------------------------------------------------
(* The theorems.                                                           *)

\* Every variable keeps its type: no interleaving of read-modify-writes stores
\* a note without a title.
THEOREM TypeCorrect == Spec => []TypeOK
<1>1. IInv => TypeOK
  BY DEF IInv
<1> QED BY <1>1, Invariant, PTL

\* A field that an update answered to have written, or that a creation wrote, is
\* lost only to an update that ran at the same time, for any number of updates,
\* deletions and failing calls.
THEOREM OnlyRivalsLose == Spec => []UpdatesLostOnlyToRivals
<1>1. IInv => UpdatesLostOnlyToRivals
  <2> SUFFICES ASSUME IInv, NEW r \in Requests,
                      \/ req[r].op = "create"
                      \/ req[r].op = "update" /\ req[r].reply = "204"
               PROVE  \/ notes[req[r].note] = NoNote
                      \/ Rivals(r, "update", req[r].note) # {}
                      \/ \A f \in req[r].sets :
                            \/ notes[req[r].note][f] = r
                            \/ \E q \in Requests : /\ notes[req[r].note][f] = q
                                                 /\ r \in req[q].before
                                                 /\ req[q].note = req[r].note
                                                 /\ f \in req[q].sets
    BY DEF UpdatesLostOnlyToRivals
  <2>1. notes[req[r].note] = NoNote \/ Reflects(r, notes[req[r].note])
    BY DEF IInv, Good, Kept, Success, Changes
  <2> QED BY <2>1 DEF Reflects, Current
<1> QED BY <1>1, Invariant, PTL

\* A deletion is undone only by an update that had read the note before.
THEOREM OnlyRivalsRevive == Spec => []RevivedOnlyByRivals
<1>1. IInv => RevivedOnlyByRivals
  BY DEF IInv, Good, Kept, Success, Changes, Reflects, RevivedOnlyByRivals
<1> QED BY <1>1, Invariant, PTL

============================================================================
