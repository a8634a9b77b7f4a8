--------------------------- MODULE BackgroundJobs ---------------------------
(***************************************************************************)
(* apps/sample, features/background_tasks: a dictionary of Job objects that *)
(* the event loop fills and a worker thread updates.  The lifespan sets the *)
(* limiter of the thread pool to one thread, which the synchronous health  *)
(* endpoint needs as well, and twice: for the call of health() and, in a   *)
(* turn of its own, for FastAPI's conversion of what it returned.          *)
(*                                                                         *)
(* The event loop and the thread run at the same time, so every read of    *)
(* the dictionary and every assignment to a Job in the thread is an action *)
(* of its own.  GET /status changes nothing.                               *)
(***************************************************************************)
EXTENDS Naturals, Sequences

CONSTANTS
  Posts,       \* POST requests; also the Job objects they create
  Checks,      \* GET requests of /health
  Uids,        \* uids in the URL, chosen by the client
  NoJob,       \* no object
  MaxCrashes   \* bound: crashes of the process

ASSUME ConstantsAssumption ==
  /\ Posts \cap Checks = {}
  /\ NoJob \notin Posts \cup Uids
  /\ MaxCrashes \in Nat

VARIABLES
  jobs,        \* the dictionary: the object of each uid
  status,      \* the status of each object
  req,         \* the requests, with what they do after the handler
  thread,      \* who has the thread of the pool, if anybody
  queue,       \* who waits for it, oldest first
  checked,     \* checks whose health() has returned
  crashes      \* crashes so far

vars == <<jobs, status, req, thread, queue, checked, crashes>>

----------------------------------------------------------------------------
Requests == Posts \cup Checks

Statuses == {"none", "in_queue", "in_progress", "complete"}

\* calling: about to ask for the thread.  queued: waits for it.  started: has
\* it.  mark, finish: has fetched obj from the dictionary, to set its status.
\* sleeping: in mock_function.  done: ended.  lost: the process died.
Steps == {"new", "calling", "queued", "started", "mark", "sleeping", "finish",
          "done", "lost"}

Request == [at : Steps, uid : Uids \cup {NoJob}, obj : Posts \cup {NoJob}]

NotReceived == [at |-> "new", uid |-> NoJob, obj |-> NoJob]

Init ==
  /\ jobs = [u \in Uids |-> NoJob]
  /\ status = [p \in Posts |-> "none"]
  /\ req = [r \in Requests |-> NotReceived]
  /\ thread = {}
  /\ queue = <<>>
  /\ checked = {}
  /\ crashes = 0

----------------------------------------------------------------------------
(* The thread pool's limiter (anyio.CapacityLimiter, first come first      *)
(* served, one token).                                                     *)

WaitForNobody(r) ==
  /\ req[r].at = "calling"
  /\ thread' = thread \cup {r}
  /\ req' = [req EXCEPT ![r].at = "started"]
  /\ UNCHANGED <<jobs, status, queue, checked, crashes>>

Wait(r) ==
  /\ req[r].at = "calling"
  /\ IF thread = {} /\ queue = <<>>
     THEN /\ thread' = {r}
          /\ req' = [req EXCEPT ![r].at = "started"]
          /\ UNCHANGED queue
     ELSE /\ queue' = Append(queue, r)
          /\ req' = [req EXCEPT ![r].at = "queued"]
          /\ UNCHANGED thread
  /\ UNCHANGED <<jobs, status, checked, crashes>>

\* r gives the thread back and goes on at next; so does the oldest in the queue.
LeaveUnnoticed(r, next) ==
  /\ thread' = {}
  /\ req' = [req EXCEPT ![r].at = next]
  /\ UNCHANGED queue

Leave(r, next) ==
  IF queue = <<>>
  THEN /\ thread' = {}
       /\ req' = [req EXCEPT ![r].at = next]
       /\ UNCHANGED queue
  ELSE /\ thread' = {Head(queue)}
       /\ req' = [req EXCEPT ![r].at = next, ![Head(queue)].at = "started"]
       /\ queue' = Tail(queue)

----------------------------------------------------------------------------
\* request_enqueue: a new object replaces the one of an earlier POST; the
\* background task starts when the response is sent.
EnqueueOnce(p, u) ==
  /\ req[p] = NotReceived
  /\ jobs' = [jobs EXCEPT ![u] = p]
  /\ status' = [status EXCEPT ![p] = "in_queue"]
  /\ LET at == IF jobs[u] = NoJob THEN "calling" ELSE "done"
     IN  req' = [req EXCEPT ![p] = [at |-> at, uid |-> u, obj |-> NoJob]]
  /\ UNCHANGED <<thread, queue, checked, crashes>>

Enqueue(p, u) ==
  /\ req[p] = NotReceived
  /\ jobs' = [jobs EXCEPT ![u] = p]
  /\ status' = [status EXCEPT ![p] = "in_queue"]
  /\ req' = [req EXCEPT ![p] = [at |-> "calling", uid |-> u, obj |-> NoJob]]
  /\ UNCHANGED <<thread, queue, checked, crashes>>

\* process_request in the thread: mock_function looks the uid up ...
Fetch(p) ==
  /\ req[p].at = "started"
  /\ req' = [req EXCEPT ![p].obj = jobs[req[p].uid], ![p].at = "mark"]
  /\ UNCHANGED <<jobs, status, thread, queue, checked, crashes>>

\* ... sets the object it found IN_PROGRESS and sleeps ...
CompleteBeforeWork(p) ==
  /\ req[p].at = "mark"
  /\ status' = [status EXCEPT ![req[p].obj] = "complete"]
  /\ req' = [req EXCEPT ![p].at = "sleeping"]
  /\ UNCHANGED <<jobs, thread, queue, checked, crashes>>

Mark(p) ==
  /\ req[p].at = "mark"
  /\ status' = [status EXCEPT ![req[p].obj] = "in_progress"]
  /\ req' = [req EXCEPT ![p].at = "sleeping"]
  /\ UNCHANGED <<jobs, thread, queue, checked, crashes>>

\* ... process_request looks the uid up again ...
FetchAgain(p) ==
  /\ req[p].at = "sleeping"
  /\ req' = [req EXCEPT ![p].obj = jobs[req[p].uid], ![p].at = "finish"]
  /\ UNCHANGED <<jobs, status, thread, queue, checked, crashes>>

\* ... and sets that object's status.
FinishQuietly(p) ==
  /\ req[p].at = "finish"
  /\ Leave(p, "done")
  /\ UNCHANGED <<jobs, status, checked, crashes>>

Finish(p) ==
  /\ req[p].at = "finish"
  /\ status' = [status EXCEPT ![req[p].obj] = "complete"]
  /\ Leave(p, "done")
  /\ UNCHANGED <<jobs, checked, crashes>>

\* GET /health.
Check(h) ==
  /\ req[h] = NotReceived
  /\ req' = [req EXCEPT ![h].at = "calling"]
  /\ UNCHANGED <<jobs, status, thread, queue, checked, crashes>>

\* health() has run in the thread; whoever queued behind it goes first.
Healthy(h) ==
  /\ req[h].at = "started" /\ h \notin checked
  /\ checked' = checked \cup {h}
  /\ Leave(h, "calling")
  /\ UNCHANGED <<jobs, status, crashes>>

\* Its result is converted in the thread, and the request is answered.
Serialise(h) ==
  /\ req[h].at = "started" /\ h \in checked
  /\ Leave(h, "done")
  /\ UNCHANGED <<jobs, status, checked, crashes>>

\* The process dies and starts again: the dictionary is empty.
Crash ==
  /\ crashes < MaxCrashes
  /\ crashes' = crashes + 1
  /\ jobs' = [u \in Uids |-> NoJob]
  /\ req' = [r \in Requests |-> IF req[r].at \in {"new", "done"} THEN req[r]
                                ELSE [req[r] EXCEPT !.at = "lost"]]
  /\ thread' = {}
  /\ queue' = <<>>
  /\ UNCHANGED <<status, checked>>

Run(p) == Fetch(p) \/ Mark(p) \/ FetchAgain(p) \/ Finish(p)

Next ==
  \/ Crash
  \/ \E r \in Requests : Wait(r)
  \/ \E p \in Posts : Run(p) \/ \E u \in Uids : Enqueue(p, u)
  \/ \E h \in Checks : Check(h) \/ Healthy(h) \/ Serialise(h)

Spec == Init /\ [][Next]_vars

\* The event loop and the thread run; requests and crashes may never come.
FairSpec ==
  /\ Spec
  /\ \A r \in Requests : WF_vars(Wait(r))
  /\ \A p \in Posts : WF_vars(Run(p))
  /\ \A h \in Checks : WF_vars(Healthy(h)) /\ WF_vars(Serialise(h))

----------------------------------------------------------------------------
(* Properties.                                                             *)

\* Every variable keeps its type; at most one request has the thread.
TypeOK ==
  /\ jobs \in [Uids -> Posts \cup {NoJob}]
  /\ status \in [Posts -> Statuses]
  /\ req \in [Requests -> Request]
  /\ thread \in {{}} \cup {{r} : r \in Requests}
  /\ queue \in Seq(Requests)
  /\ checked \in SUBSET Checks
  /\ crashes \in 0 .. MaxCrashes

\* A job whose uid no other request of this process has posted reports where
\* its run is, although thread and event loop share the object unlocked.
Alone(p) == \A q \in Posts \ {p} : req[q].uid = req[p].uid => req[q].at = "lost"
StatusTellsTheRun ==
  \A u \in Uids, p \in Posts :
     jobs[u] = p /\ Alone(p) =>
       /\ status[p] = "in_progress" <=> req[p].at \in {"sleeping", "finish"}
       /\ status[p] = "complete" <=> req[p].at = "done"

\* Whoever posts what and when, a uid is complete only after a run of that uid
\* has slept its five seconds, and the Job shown was posted for that uid.
CompleteMeansRun ==
  \A u \in Uids, p \in Posts :
     jobs[u] = p =>
       /\ req[p].uid = u
       /\ status[p] = "complete" =>
             \E q \in Posts : req[q].uid = u /\ req[q].at = "done"

\* The run of p will set o COMPLETE, if o is still the object of its uid then.
Completes(p, o) ==
  \/ req[p].at \in {"calling", "queued", "started", "mark", "sleeping"}
  \/ req[p].at = "finish" /\ req[p].obj = o

\* A job shown as not complete has a run of its uid under way that will make it
\* so, also when POSTs of the uid replace each other's objects while a run has
\* fetched one.
NoJobAbandoned ==
  \A u \in Uids, o \in Posts :
     jobs[u] = o /\ status[o] # "complete" =>
        \E p \in Posts : req[p].uid = u /\ Completes(p, o)

\* A uid that was posted is complete in the end, also when it is posted again
\* while its first run is at work, unless the process dies.
JobsComplete ==
  \A u \in Uids :
     jobs[u] # NoJob ~> jobs[u] = NoJob \/ status[jobs[u]] = "complete"

\* The health endpoint answers in the end, although it queues for the one thread
\* twice: behind the jobs posted before it, each five seconds, and again behind
\* those posted until health() returned.
HealthAnswers ==
  \A h \in Checks : req[h].at = "calling" ~> req[h].at \in {"done", "lost"}

============================================================================
