----------------------------- MODULE FileStore -----------------------------
(***************************************************************************)
(* What simple_storage promises about a file, as if it were one thing and  *)
(* not a document, an entry and chunks in three collections: when it comes *)
(* to be, who may take it away, and what an answer says of it.  Calls may  *)
(* fail and the service may crash at any time.  FileStorage, the module of *)
(* the program, implements it.                                             *)
(***************************************************************************)
CONSTANTS
  Requests,   \* the requests; the file of an upload has its name
  Places      \* a tenant and a bucket

VARIABLES
  file,       \* the file of each request: see FileState
  asked       \* what was asked, what was found then, what was answered

\* absent: not uploaded.  stored: a name with all its bytes.  damaged: the name
\* of a file whose bytes are being deleted.  removed: deleted.
FileState == {"absent", "stored", "damaged", "removed"}

NotAsked == [op |-> "none", found |-> {}, reply |-> "none"]

Init ==
  /\ file = [f \in Requests |-> "absent"]
  /\ asked = [r \in Requests |-> NotAsked]

\* The files of a place.
Listed(p) == {f \in Requests : file[f] \in {"stored", "damaged"} /\ asked[f].place = p}

\* What is found when the request comes, all being there, and answered at once.
Finds(op, all, found, reply) ==
  \/ op = "upload" /\ found = {} /\ reply \in {"none", "409", "500"}
  \/ op = "download" /\ found = {} /\ reply \in {"404", "500"}
  \/ op = "delete" /\ found = {} /\ reply \in {"204", "500"}
  \/ op = "download" /\ (\E f \in all : found = {f}) /\ reply \in {"none", "304"}
  \/ op = "delete" /\ (\E f \in all : found = {f}) /\ reply = "none"
  \/ op = "delete_bucket" /\ found = {} /\ reply = "500"
  \/ op = "delete_bucket" /\ found = {} /\ all = {} /\ reply = "204"
  \/ op = "delete_bucket" /\ found = all /\ all # {} /\ reply \in {"none", "409"}

Ask(r) ==
  /\ asked[r] = NotAsked
  /\ \E op \in {"upload", "download", "delete", "delete_bucket"}, p \in Places :
        \E found \in SUBSET Listed(p),
           reply \in {"none", "204", "304", "404", "409", "500"} :
           /\ Finds(op, Listed(p), found, reply)
           /\ asked' = [asked EXCEPT ![r] = [op |-> op, place |-> p, found |-> found,
                                             reply |-> reply]]
  /\ UNCHANGED file

Pending(r, ops) == asked[r].op \in ops /\ asked[r].reply = "none"
Deleting(r) == Pending(r, {"delete", "delete_bucket"})

\* r moves the file f on and answers, or does not yet.
Move(r, f, from, to, replies) ==
  /\ file[f] = from
  /\ file' = [file EXCEPT ![f] = to]
  /\ \E reply \in replies : asked' = [asked EXCEPT ![r].reply = reply]

\* A file comes to be whole, in the step that answers its upload; also when
\* that answer is an error.
Publish(r) == Pending(r, {"upload"}) /\ Move(r, r, "absent", "stored", {"201", "500"})

\* Only a deletion that found a file harms it.
Damage(r) ==
  /\ Deleting(r)
  /\ \E f \in asked[r].found : Move(r, f, "stored", "damaged", {"none", "500"})

AllRemoved(r) == \A f \in asked[r].found : file[f] = "removed"

Remove(r) ==
  /\ Deleting(r)
  /\ \E f \in asked[r].found : Move(r, f, "damaged", "removed", {"none", "204", "500"})
  /\ asked'[r].reply = "204" => AllRemoved(r)'

\* An answer while the files stay as they are: 200 with the bytes of a file not
\* removed yet, 204 only when nothing is left.
Answer(r) ==
  /\ \E reply \in {"200", "204", "500", "cut"} :
        /\ \/ /\ reply = "500"
              /\ Pending(r, {"upload", "download", "delete", "delete_bucket"})
           \/ reply = "cut" /\ Pending(r, {"download"})
           \/ /\ reply = "200" /\ Pending(r, {"download"})
              /\ \A f \in asked[r].found : file[f] # "removed"
           \/ reply = "204" /\ Deleting(r) /\ AllRemoved(r)
        /\ asked' = [asked EXCEPT ![r].reply = reply]
  /\ UNCHANGED file

Next ==
  \E r \in Requests : Ask(r) \/ Publish(r) \/ Damage(r) \/ Remove(r) \/ Answer(r)

Spec == Init /\ [][Next]_<<file, asked>>

============================================================================
