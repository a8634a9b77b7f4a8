----------------------------- MODULE SessionPool -----------------------------
(***************************************************************************)
(* The connection pool of simple_worker.  A session takes a connection at  *)
(* its first query and gives it back at a commit or when it is closed; all *)
(* but the closing is done on the event loop's thread, so a query that     *)
(* finds the pool empty freezes the loop until a thread returns one or     *)
(* pool_timeout is over.                                                   *)
(*                                                                         *)
(* Who holds a connection across which await is kept exactly; the order of *)
(* the stream and of the semaphore is left to TaskWorker.  run_cleanup     *)
(* gives back what it takes within one step and is left out.               *)
(***************************************************************************)
EXTENDS Naturals, FiniteSets

CONSTANTS
  Gets,        \* GET requests
  Posts,       \* POST requests; also their tasks' coroutines' ids
  Unfinished,  \* tasks recover_tasks finds
  Recovery,    \* recover_tasks
  Nobody,
  PoolSize,    \* pool_size + max_overflow (15)
  MaxRetries,  \* RetryConfig.max_retries
  MaxFaults    \* bound: database errors in a behaviour

ASSUME PoolAssumption ==
  /\ Gets \cap Posts = {} /\ Posts \cap Unfinished = {}
  /\ Recovery \notin Gets \cup Posts
  /\ \A t \in Posts \cup Unfinished :
        <<"task", t>> \notin Gets \cup Posts \cup {Recovery, Nobody}
  /\ PoolSize \in Nat \ {0}
  /\ MaxRetries \in Nat \ {0}
  /\ MaxFaults \in Nat

VARIABLES
  request,     \* the stage of every request
  task,        \* the stage of every process_task coroutine
  retries,     \* their retries
  recovery,    \* the stage of recover_tasks
  inUse,       \* sessions that hold a connection
  frozen,      \* whose query has the event loop wait for a connection
  last,        \* the coroutine whose session task_worker still refers to
  faults       \* database errors so far

vars == <<request, task, retries, recovery, inUse, frozen, last, faults>>

----------------------------------------------------------------------------
Requests == Gets \cup Posts
Tasks == Posts \cup Unfinished

\* The session of a coroutine, told from that of the request.
Of(t) == <<"task", t>>
Sessions == Requests \cup {Recovery} \cup {Of(t) : t \in Tasks}

\* sending: in task_send_stream.send.  leaving: answered, about to hand the
\* session to a thread (get_session is a synchronous generator).  closing:
\* the thread closes it.
RequestStages == {"new", "sending", "leaving", "closing", "done"}

\* As the steps of TaskWorker, spawned and waiting taken together.
TaskStages == {"idle", "waiting", "granted", "working", "backoff", "done"}

Owning == {"granted", "working", "backoff"}

Init ==
  /\ request = [r \in Requests |-> "new"]
  /\ task = [t \in Tasks |-> "idle"]
  /\ retries = [t \in Tasks |-> 0]
  /\ recovery = "new"
  /\ inUse = {}
  /\ frozen = Nobody
  /\ last = Nobody
  /\ faults = 0

----------------------------------------------------------------------------
\* The loop's thread is free to run any coroutine.
LoopRuns == frozen = Nobody

Full == Cardinality(inUse) >= PoolSize

QueryAnyway(s) ==
  /\ frozen \in {Nobody, s}
  /\ inUse' = inUse \cup {s}
  /\ frozen' = Nobody

\* The query of session s gets a connection, if s has none, at once or when a
\* thread has returned one.
Query(s) ==
  /\ frozen \in {Nobody, s}
  /\ s \in inUse \/ ~Full
  /\ inUse' = inUse \cup {s}
  /\ frozen' = Nobody

Return(s) == inUse' = inUse \ {s}

Fails == faults < MaxFaults /\ faults' = faults + 1

\* Sessions of requests not yet served and of an attempt about to start.
Asking == {r \in Requests : request[r] = "new" /\ recovery # "new"}
            \cup {Of(t) : t \in {u \in Tasks : task[u] = "granted"}}

Freeze(s) ==
  /\ LoopRuns
  /\ s \in Asking \ inUse
  /\ Full
  /\ frozen' = s
  /\ UNCHANGED <<request, task, retries, recovery, inUse, last, faults>>

NeverTimeOut == UNCHANGED vars

\* pool_timeout: the request answers 500, the attempt ends in its handler.
TimeOut ==
  /\ frozen # Nobody
  /\ Full
  /\ frozen' = Nobody
  /\ request' = [r \in Requests |-> IF r = frozen THEN "leaving" ELSE request[r]]
  /\ task' = [t \in Tasks |-> IF Of(t) = frozen THEN "backoff" ELSE task[t]]
  /\ UNCHANGED <<retries, recovery, inUse, last, faults>>

----------------------------------------------------------------------------
\* The query of recover_tasks, the first thing that runs.
Recover ==
  /\ recovery = "new"
  /\ Query(Recovery)
  /\ \/ recovery' = "sending" /\ UNCHANGED faults
     \/ recovery' = "raised" /\ Fails
  /\ UNCHANGED <<request, task, retries, last>>

\* task_worker receives; its variable session is the new coroutine's now.
Spawn(t) ==
  /\ task' = [task EXCEPT ![t] = "waiting"]
  /\ last' = t
  /\ UNCHANGED <<retries, frozen, faults>>

RecoverSend(t) ==
  /\ LoopRuns
  /\ recovery = "sending"
  /\ t \in Unfinished /\ task[t] = "idle"
  /\ Spawn(t)
  /\ UNCHANGED <<request, recovery, inUse>>

\* The with block of recover_tasks ends, or its exception left it (which
\* cancels the whole task group: nothing receives any more).
RecoverEnds ==
  /\ LoopRuns
  /\ \/ /\ recovery = "sending"
        /\ \A t \in Unfinished : task[t] # "idle"
        /\ recovery' = "done"
     \/ recovery = "raised" /\ recovery' = "dead"
  /\ Return(Recovery)
  /\ UNCHANGED <<request, task, retries, frozen, last, faults>>

----------------------------------------------------------------------------
\* get_tasks, get_task: a query, and the answer.
Get(r) ==
  /\ recovery # "new"
  /\ request[r] = "new"
  /\ Query(r)
  /\ request' = [request EXCEPT ![r] = "leaving"]
  /\ UNCHANGED <<task, retries, recovery, last, faults>>

\* enqueue_gpu_task: the commit returns the connection, reading task_id takes
\* one again, which the request keeps in send; or the database raises.
Post(r) ==
  /\ recovery # "new"
  /\ request[r] = "new"
  /\ Query(r)
  /\ \/ request' = [request EXCEPT ![r] = "sending"] /\ UNCHANGED faults
     \/ request' = [request EXCEPT ![r] = "leaving"] /\ Fails
  /\ UNCHANGED <<task, retries, recovery, last>>

Receive(r) ==
  /\ LoopRuns
  /\ recovery \in {"sending", "done"}
  /\ request[r] = "sending"
  /\ request' = [request EXCEPT ![r] = "leaving"]
  /\ Spawn(r)
  /\ UNCHANGED <<recovery, inUse>>

Leave(r) ==
  /\ LoopRuns
  /\ request[r] = "leaving"
  /\ request' = [request EXCEPT ![r] = "closing"]
  /\ UNCHANGED <<task, retries, recovery, inUse, frozen, last, faults>>

\* get_session after its yield, in a thread beside the loop.
Close(r) ==
  /\ request[r] = "closing"
  /\ request' = [request EXCEPT ![r] = "done"]
  /\ Return(r)
  /\ UNCHANGED <<task, retries, recovery, frozen, last, faults>>

----------------------------------------------------------------------------
\* task_semaphore.
GrantAnyway(t) ==
  /\ LoopRuns
  /\ task[t] = "waiting"
  /\ task' = [task EXCEPT ![t] = "granted"]
  /\ UNCHANGED <<request, retries, recovery, inUse, frozen, last, faults>>

Grant(t) ==
  /\ LoopRuns
  /\ task[t] = "waiting"
  /\ \A u \in Tasks : task[u] \notin Owning
  /\ task' = [task EXCEPT ![t] = "granted"]
  /\ UNCHANGED <<request, retries, recovery, inUse, frozen, last, faults>>

\* The first commit returns the connection, do_something takes one again and
\* keeps it asleep.  An attempt that raises keeps it in the backoff and after;
\* with a session left over from an earlier error it may raise again.
Begin(t) ==
  /\ task[t] = "granted"
  /\ Query(Of(t))
  /\ \/ task' = [task EXCEPT ![t] = "working"] /\ UNCHANGED faults
     \/ /\ task' = [task EXCEPT ![t] = "backoff"]
        /\ Fails \/ (Of(t) \in inUse /\ UNCHANGED faults)
  /\ UNCHANGED <<request, retries, recovery, last>>

FinishRefreshed(t) ==
  /\ LoopRuns
  /\ task[t] = "working"
  /\ \/ task' = [task EXCEPT ![t] = "done"] /\ UNCHANGED faults
     \/ task' = [task EXCEPT ![t] = "backoff"] /\ Fails
  /\ UNCHANGED <<request, retries, recovery, inUse, frozen, last>>

Finish(t) ==
  /\ LoopRuns
  /\ task[t] = "working"
  /\ \/ task' = [task EXCEPT ![t] = "done"] /\ Return(Of(t)) /\ UNCHANGED faults
     \/ task' = [task EXCEPT ![t] = "backoff"] /\ Fails /\ UNCHANGED inUse
  /\ UNCHANGED <<request, retries, recovery, frozen, last>>

EndBackoff(t) ==
  /\ LoopRuns
  /\ task[t] = "backoff"
  /\ IF retries[t] + 1 = MaxRetries
     THEN task' = [task EXCEPT ![t] = "done"] /\ UNCHANGED retries
     ELSE /\ task' = [task EXCEPT ![t] = "waiting"]
          /\ retries' = [retries EXCEPT ![t] = @ + 1]
  /\ UNCHANGED <<request, recovery, inUse, frozen, last, faults>>

\* Nothing closes the session of a coroutine that gave up: the garbage
\* collector returns its connection, once task_worker has gone on to another.
Collect(t) ==
  /\ task[t] = "done" /\ t # last
  /\ Of(t) \in inUse
  /\ Return(Of(t))
  /\ UNCHANGED <<request, task, retries, recovery, frozen, last, faults>>

----------------------------------------------------------------------------
ServeRequest(r) ==
  \/ r \in Gets /\ Get(r)
  \/ r \in Posts /\ Post(r)
  \/ r \in Posts /\ Receive(r)
  \/ Leave(r) \/ Close(r)

ProcessTask(t) == RecoverSend(t) \/ Grant(t) \/ Begin(t) \/ Finish(t) \/ EndBackoff(t)

Next ==
  \/ Recover \/ RecoverEnds \/ TimeOut
  \/ \E s \in Sessions : Freeze(s)
  \/ \E r \in Requests : ServeRequest(r)
  \/ \E t \in Tasks : ProcessTask(t) \/ Collect(t)

\* The loop and the threads go on; nothing has to fail, and a session whose
\* coroutine gave up need never be collected.  A request in "new" is one that
\* has come, so it is served.
Fairness ==
  /\ WF_vars(Recover) /\ WF_vars(RecoverEnds) /\ WF_vars(TimeOut)
  /\ \A s \in Sessions : WF_vars(Freeze(s))
  /\ \A r \in Requests : WF_vars(ServeRequest(r))
  /\ \A t \in Tasks : WF_vars(ProcessTask(t))

Spec == Init /\ [][Next]_vars /\ Fairness

----------------------------------------------------------------------------
(* Properties.                                                             *)

\* Every variable keeps its type and the pool never hands out more than it has.
TypeOK ==
  /\ request \in [Requests -> RequestStages]
  /\ task \in [Tasks -> TaskStages]
  /\ retries \in [Tasks -> 0 .. MaxRetries - 1]
  /\ recovery \in {"new", "sending", "done", "raised", "dead"}
  /\ inUse \in SUBSET Sessions /\ Cardinality(inUse) <= PoolSize
  /\ frozen \in Sessions \cup {Nobody}
  /\ last \in Tasks \cup {Nobody}
  /\ faults \in 0 .. MaxFaults

InFlight == {r \in Requests : request[r] \in {"sending", "leaving", "closing"}}

\* The coroutines that met an error: in its backoff, on a later attempt, or
\* given up after the last.
MetAnError(t) ==
  \/ task[t] = "backoff"
  \/ task[t] \in {"waiting", "granted"} /\ retries[t] > 0
  \/ task[t] = "done" /\ retries[t] + 1 = MaxRetries

\* Sessions of coroutines that hold a connection and do not work with it.
Kept == {s \in inUse : \E t \in Tasks : s = Of(t) /\ task[t] # "working"}

\* Whatever failed, every connection in use belongs to a request under way, to
\* recover_tasks, to the coroutine at work, or to one that itself met an error
\* and is still to retry or to be collected; of the last there are no more than
\* errors, so none that succeeds or queues for its first attempt keeps one.
HeldByTheBusy ==
  /\ \A s \in inUse :
        \/ s \in InFlight
        \/ s = Recovery /\ recovery \in {"sending", "raised"}
        \/ \E t \in Tasks : s = Of(t) /\ (task[t] = "working" \/ MetAnError(t))
  /\ Cardinality(Kept) <= faults

\* Of the pool the worker needs two connections, however many tasks are queued:
\* the loop freezes only if the requests under way and one coroutine per
\* database error hold all the others.
FreezeNeedsLoad ==
  frozen # Nobody /\ Full => Cardinality(InFlight) + faults + 2 >= PoolSize

\* A request is answered although the loop that would free the connections it
\* waits for is the one that is frozen: with an error after pool_timeout if
\* not otherwise.  A POST waits for ever only when recover_tasks raised.
RequestsAnswered ==
  \A r \in Requests :
     request[r] = "new" ~> \/ request[r] = "done"
                           \/ recovery = "dead" /\ request[r] = "sending"

============================================================================
