---------------------------- MODULE TaskWorker ----------------------------
(***************************************************************************)
(* apps/simple_worker: a FastAPI service that stores tasks in SQLite, hands *)
(* their ids to a worker through an anyio memory stream, and processes them *)
(* one at a time with retries.                                             *)
(*                                                                         *)
(* Everything runs on one asyncio event loop, so an action below is the    *)
(* code a coroutine executes between two awaits, database calls included   *)
(* (they are synchronous).  A crash may fall between any two actions.      *)
(* The rows survive it; the stream, the semaphore and the coroutines do    *)
(* not.                                                                    *)
(***************************************************************************)
EXTENDS Naturals, Sequences, FiniteSets

CONSTANTS
  Tasks,        \* ids a POST may draw (uuid4: each is drawn at most once)
  Coroutines,   \* process_task coroutines that may be alive together
  NoTask,       \* the task of a coroutine that is not alive
  MaxRetries,   \* RetryConfig.max_retries (3 in the code)
  MaxFaults,    \* bound: database errors in a behaviour
  MaxRestarts   \* bound: crashes and shutdowns in a behaviour

ASSUME ConstantsAssumption ==
  /\ NoTask \notin Tasks
  /\ MaxRetries \in Nat \ {0}
  /\ MaxFaults \in Nat
  /\ MaxRestarts \in Nat

VARIABLES
  rows,        \* the taskpayload table; an absent row has a status of its own
  phase,       \* the server process, see Phases
  recovering,  \* ids recover_tasks selected and has not yet sent
  senders,     \* blocked task_send_stream.send calls, oldest first
  proc,        \* the process_task coroutines
  permit,      \* value of task_semaphore
  waiters,     \* coroutines queued on task_semaphore, oldest first
  faults,      \* database errors so far
  restarts     \* crashes and shutdowns so far

memory == <<recovering, senders, proc, permit, waiters>>
vars == <<rows, phase, memory, faults, restarts>>

----------------------------------------------------------------------------
(* The table: models/task.py and update_task_status.                       *)

TaskStatus == {"in_queue", "in_progress", "success", "failed", "cancelled"}
RowStatus  == TaskStatus \cup {"unissued", "deleted"}

\* result, error and completed say whether the column is set.
Row == [status : RowStatus, result : BOOLEAN, error : BOOLEAN,
        completed : BOOLEAN]

Blank(s) == [status |-> s, result |-> FALSE, error |-> FALSE,
             completed |-> FALSE]

Exists(t) == rows[t].status \in TaskStatus

\* completed_at set for every status that ends the processing.
CompletedOnCancel(row, s, error, result) ==
  [status |-> s, result |-> row.result \/ result, error |-> row.error \/ error,
   completed |-> row.completed \/ s \in {"success", "failed", "cancelled"}]

\* update_task_status: a column it is given no value for keeps its value.
Updated(row, s, error, result) ==
  [status |-> s, result |-> row.result \/ result, error |-> row.error \/ error,
   completed |-> row.completed \/ s \in {"success", "failed"}]

SetStatus(t, s, error, result) ==
  rows' = [rows EXCEPT ![t] = Updated(@, s, error, result)]

\* The rows recover_tasks selects.
QueuedOnly == {"in_queue"}
AnyUnfinishedOrDone == {"in_queue", "in_progress", "success"}
Recoverable == {"in_queue", "in_progress"}

\* The statuses lifespan schedules run_cleanup for.
QueuedToo == {"success", "failed", "in_queue"}
CleanupStatuses == {"success", "failed"}

----------------------------------------------------------------------------
(* Processes.                                                              *)

\* down: no process.  running: serving.  headless: recover_tasks raised,
\* which cancelled the lifespan's task group, worker included, while the
\* server goes on accepting requests.  stopping: the group is cancelled
\* because the application shuts down.
Phases == {"down", "running", "headless", "stopping"}

Serving == phase \in {"running", "headless"}

\* spawned: started by task_worker, has not run.  waiting: queued on the
\* semaphore.  granted: owns it, about to start an attempt.  working: asleep
\* in do_something.  backoff: asleep in handle_database_error, still owning
\* the semaphore.
Steps == {"idle", "spawned", "waiting", "granted", "working", "backoff"}

\* broken: a flush of the coroutine's session failed and nothing rolled the
\* session back.
Proc == [task : Tasks \cup {NoTask}, pc : Steps,
         retries : 0 .. MaxRetries - 1, broken : BOOLEAN]

Idle == [task |-> NoTask, pc |-> "idle", retries |-> 0, broken |-> FALSE]

Holding(c) == proc[c].pc \in {"granted", "working", "backoff"}

\* A blocked send: the id and who sends it.
Sends == [task : Tasks, by : {"request", "recover_tasks"}]

Send(t, by) == senders' = Append(senders, [task |-> t, by |-> by])

\* Everything the process holds in memory is gone.
Forget ==
  /\ recovering' = {}
  /\ senders' = <<>>
  /\ proc' = [c \in Coroutines |-> Idle]
  /\ permit' = 1
  /\ waiters' = <<>>

DatabaseError ==
  /\ faults < MaxFaults
  /\ faults' = faults + 1

Init ==
  /\ rows = [t \in Tasks |-> Blank("unissued")]
  /\ phase = "down"
  /\ recovering = {}
  /\ senders = <<>>
  /\ proc = [c \in Coroutines |-> Idle]
  /\ permit = 1
  /\ waiters = <<>>
  /\ faults = 0
  /\ restarts = 0

----------------------------------------------------------------------------
(* The lifespan and recover_tasks.                                         *)

\* lifespan up to its yield, and the query of recover_tasks: it is the first
\* task of the group, so it runs before the server accepts a request.
Start ==
  /\ phase = "down"
  /\ phase' = "running"
  /\ recovering' = {t \in Tasks : rows[t].status \in Recoverable}
  /\ UNCHANGED <<rows, senders, proc, permit, waiters, faults, restarts>>

\* The query of recover_tasks raises.
StartHeadless ==
  /\ phase = "down"
  /\ phase' = "headless"
  /\ DatabaseError
  /\ UNCHANGED <<rows, memory, restarts>>

\* An iteration of recover_tasks's loop; the next one awaits this send.
ResendWithoutAdvancing ==
  /\ \A i \in DOMAIN senders : senders[i].by # "recover_tasks"
  /\ \E t \in recovering :
        /\ Send(t, "recover_tasks")
        /\ UNCHANGED recovering
  /\ UNCHANGED <<rows, phase, proc, permit, waiters, faults, restarts>>

RecoverSend ==
  /\ \A i \in DOMAIN senders : senders[i].by # "recover_tasks"
  /\ \E t \in recovering :
        /\ Send(t, "recover_tasks")
        /\ recovering' = recovering \ {t}
  /\ UNCHANGED <<rows, phase, proc, permit, waiters, faults, restarts>>

\* Shutdown cancels the task group.  A coroutine whose cancellation is
\* delivered at its acquire or in its backoff ends without touching its row;
\* one that just got the semaphore or is at work goes on to StopWork.  The
\* server answers its pending requests before it stops the lifespan.
Surviving == {"granted", "working"}

Stop ==
  /\ phase = "running"
  /\ restarts < MaxRestarts
  /\ \A i \in DOMAIN senders : senders[i].by # "request"
  /\ phase' = "stopping"
  /\ restarts' = restarts + 1
  /\ recovering' = {}
  /\ senders' = <<>>
  /\ waiters' = <<>>
  /\ proc' = [c \in Coroutines |->
                IF proc[c].pc \in Surviving THEN proc[c] ELSE Idle]
  /\ permit' = IF \E c \in Coroutines : proc[c].pc \in Surviving THEN 0 ELSE 1
  /\ UNCHANGED <<rows, faults>>

ExitCancelling ==
  /\ phase = "stopping"
  /\ \A c \in Coroutines : proc[c].pc = "idle"
  /\ phase' = "down"
  /\ Forget
  /\ rows' = [t \in Tasks |-> IF rows[t].status = "in_queue"
                            THEN Updated(rows[t], "cancelled", TRUE, FALSE) ELSE rows[t]]
  /\ UNCHANGED <<faults, restarts>>

\* The lifespan's task group is empty: the process ends.
Exit ==
  /\ phase = "stopping"
  /\ \A c \in Coroutines : proc[c].pc = "idle"
  /\ phase' = "down"
  /\ Forget
  /\ UNCHANGED <<rows, faults, restarts>>

Crash ==
  /\ phase # "down"
  /\ restarts < MaxRestarts
  /\ restarts' = restarts + 1
  /\ phase' = "down"
  /\ Forget
  /\ UNCHANGED <<rows, faults>>

----------------------------------------------------------------------------
(* The API and the worker's receive loop.                                  *)

\* enqueue_gpu_task: insert, commit, then send on a stream without buffer.
Enqueue(t) ==
  /\ Serving
  /\ rows[t].status = "unissued"
  /\ rows' = [rows EXCEPT ![t] = Blank("in_queue")]
  /\ Send(t, "request")
  /\ UNCHANGED <<phase, recovering, proc, permit, waiters, faults, restarts>>

\* The insert is committed, but task.task_id, expired by the commit, cannot
\* be read back: the request fails and the id is never sent.
EnqueueUnsent(t) ==
  /\ Serving
  /\ rows[t].status = "unissued"
  /\ rows' = [rows EXCEPT ![t] = Blank("in_queue")]
  /\ DatabaseError
  /\ UNCHANGED <<phase, memory, restarts>>

\* task_worker takes the oldest id and starts a coroutine for it.
Receive(c) ==
  /\ phase = "running"
  /\ senders # <<>>
  /\ proc[c] = Idle
  /\ proc' = [proc EXCEPT ![c] = [Idle EXCEPT !.task = Head(senders).task,
                                              !.pc = "spawned"]]
  /\ senders' = Tail(senders)
  /\ UNCHANGED <<rows, phase, recovering, permit, waiters, faults, restarts>>

\* cleanup_database for one status.  There is no clock here: the rows older
\* than the retention are any set of rows.
Cleanup(s) ==
  /\ Serving
  /\ \E old \in SUBSET Tasks :
        rows' = [t \in Tasks |-> IF t \in old /\ rows[t].status = s
                                 THEN Blank("deleted") ELSE rows[t]]
  /\ UNCHANGED <<phase, memory, faults, restarts>>

----------------------------------------------------------------------------
(* task_semaphore (an anyio.Semaphore: first come, first served).          *)

\* Leave the semaphore, with p the coroutines after the step: the oldest
\* waiter, if any, owns it next.
ReleaseUnnoticed(p) ==
  /\ proc' = p
  /\ permit' = IF waiters = <<>> THEN 1 ELSE 0
  /\ waiters' = waiters

Release(p) ==
  IF waiters = <<>>
  THEN /\ proc' = p
       /\ permit' = 1
       /\ UNCHANGED waiters
  ELSE /\ proc' = [p EXCEPT ![Head(waiters)].pc = "granted"]
       /\ waiters' = Tail(waiters)
       /\ UNCHANGED permit

\* A coroutine returns, or ends with an exception, from inside the semaphore.
Return(c) == Release([proc EXCEPT ![c] = Idle])

\* process_task up to its first acquire.
Acquire(c) ==
  /\ proc[c].pc = "spawned"
  /\ IF permit = 1 /\ waiters = <<>>
     THEN /\ permit' = 0
          /\ proc' = [proc EXCEPT ![c].pc = "granted"]
          /\ UNCHANGED waiters
     ELSE /\ proc' = [proc EXCEPT ![c].pc = "waiting"]
          /\ waiters' = Append(waiters, c)
          /\ UNCHANGED permit
  /\ UNCHANGED <<rows, phase, recovering, senders, faults, restarts>>

----------------------------------------------------------------------------
(* An attempt of process_task.                                             *)

\* handle_database_error, whose two branches leave the coroutine at the end
\* of the attempt; brk says whether the session needs a rollback.  r are the
\* rows the attempt has committed.
HandleError(c, r, brk) ==
  LET t == proc[c].task
  IN  /\ rows' = IF proc[c].retries < MaxRetries \/ r[t].status \notin TaskStatus
                 THEN r
                 ELSE [r EXCEPT ![t] = Updated(@, "failed", TRUE, FALSE)]
      /\ proc' = [proc EXCEPT ![c].pc = "backoff", ![c].broken = brk]
      /\ UNCHANGED <<phase, recovering, senders, permit, waiters, restarts>>

InProgress(t) == [rows EXCEPT ![t] = Updated(@, "in_progress", FALSE, FALSE)]

\* get_task_from_db finds no row: log and return.  Otherwise the row is
\* IN_PROGRESS, do_something has read it again and sleeps.
Begin(c) ==
  /\ proc[c].pc = "granted"
  /\ ~proc[c].broken
  /\ IF Exists(proc[c].task)
     THEN /\ rows' = InProgress(proc[c].task)
          /\ proc' = [proc EXCEPT ![c].pc = "working"]
          /\ UNCHANGED <<permit, waiters>>
     ELSE /\ Return(c)
          /\ UNCHANGED rows
  /\ UNCHANGED <<phase, recovering, senders, faults, restarts>>

\* get_task_from_db raises.
LookupFails(c) ==
  /\ proc[c].pc = "granted"
  /\ ~proc[c].broken
  /\ DatabaseError
  /\ HandleError(c, rows, FALSE)

\* The commit of IN_PROGRESS raises; the session now wants a rollback.
BeginCommitFails(c) ==
  /\ proc[c].pc = "granted"
  /\ ~proc[c].broken
  /\ Exists(proc[c].task)
  /\ DatabaseError
  /\ HandleError(c, rows, TRUE)

\* do_something's own get_task_from_db raises after IN_PROGRESS is committed.
WorkLookupFails(c) ==
  /\ proc[c].pc = "granted"
  /\ ~proc[c].broken
  /\ Exists(proc[c].task)
  /\ DatabaseError
  /\ HandleError(c, InProgress(proc[c].task), FALSE)

\* A session whose flush failed raises PendingRollbackError at every query.
SessionRefuses(c) ==
  /\ proc[c].pc = "granted"
  /\ proc[c].broken
  /\ HandleError(c, rows, TRUE)
  /\ UNCHANGED faults

\* do_something is done: store the result.
Finish(c) ==
  /\ proc[c].pc = "working"
  /\ SetStatus(proc[c].task, "success", FALSE, TRUE)
  /\ Return(c)
  /\ UNCHANGED <<phase, recovering, senders, faults, restarts>>

FinishCommitFails(c) ==
  /\ proc[c].pc = "working"
  /\ DatabaseError
  /\ HandleError(c, rows, TRUE)

\* Whether the while loop of process_task ends, and what it goes on with.
OneTooMany(p) == p.retries = MaxRetries
LastAttempt(p) == p.retries + 1 = MaxRetries
SameAttempt(p) == p
NextAttempt(p) == [p EXCEPT !.retries = @ + 1]

\* The backoff is over: leave the semaphore, count the attempt, and queue up
\* again unless it was the last one.
EndBackoff(c) ==
  /\ proc[c].pc = "backoff"
  /\ phase = "running"
  /\ IF LastAttempt(proc[c])
     THEN Return(c)
     ELSE LET again == NextAttempt(proc[c])
          IN  IF waiters = <<>>
              THEN /\ proc' = [proc EXCEPT ![c] = [again EXCEPT !.pc = "granted"]]
                   /\ UNCHANGED <<permit, waiters>>
              ELSE /\ proc' = [proc EXCEPT ![c] = [again EXCEPT !.pc = "waiting"],
                                           ![Head(waiters)].pc = "granted"]
                   /\ waiters' = Append(Tail(waiters), c)
                   /\ UNCHANGED permit
  /\ UNCHANGED <<rows, phase, recovering, senders, faults, restarts>>

\* Cancellation delivered in do_something: record it and end.
StopWork(c) ==
  /\ phase = "stopping"
  /\ proc[c].pc = "working"
  /\ IF Exists(proc[c].task)
     THEN SetStatus(proc[c].task, "cancelled", TRUE, FALSE)
     ELSE UNCHANGED rows
  /\ Return(c)
  /\ UNCHANGED <<phase, recovering, senders, faults, restarts>>

\* The handler of the cancellation meets a database error and ends with it.
StopWorkFails(c) ==
  /\ phase = "stopping"
  /\ proc[c].pc = "working"
  /\ DatabaseError
  /\ Return(c)
  /\ UNCHANGED <<rows, phase, recovering, senders, restarts>>

\* Cancellation delivered in the backoff, outside the try block.
StopBackoff(c) ==
  /\ phase = "stopping"
  /\ proc[c].pc = "backoff"
  /\ Return(c)
  /\ UNCHANGED <<rows, phase, recovering, senders, faults, restarts>>

----------------------------------------------------------------------------
ProcessTask(c) ==
  \/ Acquire(c) \/ Begin(c) \/ Finish(c) \/ EndBackoff(c)
  \/ SessionRefuses(c) \/ LookupFails(c) \/ BeginCommitFails(c)
  \/ WorkLookupFails(c) \/ FinishCommitFails(c)
  \/ StopWork(c) \/ StopWorkFails(c) \/ StopBackoff(c)

Next ==
  \/ Start \/ StartHeadless \/ RecoverSend \/ Stop \/ Exit \/ Crash
  \/ \E t \in Tasks : Enqueue(t) \/ EnqueueUnsent(t)
  \/ \E s \in CleanupStatuses : Cleanup(s)
  \/ \E c \in Coroutines : Receive(c) \/ ProcessTask(c)

Spec == Init /\ [][Next]_vars

\* The event loop runs every coroutine that can run, the operator restarts
\* the service; requests, cleanups, errors, crashes and shutdowns may never
\* come.
Fairness ==
  /\ WF_vars(Start)
  /\ WF_vars(RecoverSend)
  /\ WF_vars(Exit)
  /\ WF_vars(\E c \in Coroutines : Receive(c))
  /\ \A c \in Coroutines : WF_vars(ProcessTask(c))

FairSpec == Spec /\ Fairness

----------------------------------------------------------------------------
(* Properties.                                                             *)

\* Every variable keeps its type; a coroutine never starts an attempt beyond
\* max_retries.
TypeOK ==
  /\ rows \in [Tasks -> Row]
  /\ phase \in Phases
  /\ recovering \in SUBSET Tasks
  /\ senders \in Seq(Sends)
  /\ proc \in [Coroutines -> Proc]
  /\ permit \in {0, 1}
  /\ waiters \in Seq(Coroutines)
  /\ faults \in 0 .. MaxFaults
  /\ restarts \in 0 .. MaxRestarts

Queued  == {senders[i].task : i \in DOMAIN senders}
Running == {proc[c].task : c \in Coroutines} \ {NoTask}
Carried == recovering \cup Queued \cup Running

\* No task is processed twice at the same time, nor on its way to be: across
\* recover_tasks, the stream and the coroutines an id appears at most once,
\* although recovery and requests feed the same stream.
CarriedOnce ==
  /\ recovering \cap Queued = {}
  /\ Running \cap (recovering \cup Queued) = {}
  /\ \A i, j \in DOMAIN senders : senders[i].task = senders[j].task => i = j
  /\ \A c, d \in Coroutines :
        proc[c].task = proc[d].task /\ proc[c].task # NoTask => c = d

\* An id on its way names a row that exists and still has to be done, so
\* neither "Task not found" return of process_task is ever taken and no
\* cleanup removes a row under a coroutine; at work means IN_PROGRESS.
CarriedIsPending ==
  /\ \A t \in Carried : rows[t].status \in {"in_queue", "in_progress"}
  /\ \A c \in Coroutines :
        proc[c].pc = "working" => rows[proc[c].task].status = "in_progress"

\* As long as no database error ever happened, a serving process carries every
\* unfinished task: whatever crashed or was stopped before, none is forgotten.
NothingForgotten ==
  faults = 0 /\ phase = "running"
    => \A t \in Tasks :
          rows[t].status \in {"in_queue", "in_progress"} => t \in Carried

\* A database error costs a serving process at most one of its unfinished tasks,
\* however the error, the retries, crashes and recoveries fall together.
Forgotten ==
  {t \in Tasks : rows[t].status \in {"in_queue", "in_progress"} /\ t \notin Carried}
LostOnlyToErrors ==
  phase = "running" => Cardinality(Forgotten) <= faults

\* The one permit of task_semaphore is free, with nobody queued, or owned by
\* exactly one coroutine (at work or in its backoff); no release is lost and
\* "Limit the number of concurrent tasks to 1" holds across retries.
PermitConserved ==
  IF permit = 1
  THEN waiters = <<>> /\ \A c \in Coroutines : ~Holding(c)
  ELSE \E c \in Coroutines :
          Holding(c) /\ \A d \in Coroutines : Holding(d) => d = c

\* The columns of a row agree: a result exactly for SUCCESS, completed_at
\* exactly for SUCCESS and FAILED, an error message exactly for FAILED and
\* CANCELLED, also after a crash, a recovery and a second attempt.
RowConsistent ==
  \A t \in Tasks :
    /\ rows[t].result <=> rows[t].status = "success"
    /\ rows[t].completed <=> rows[t].status \in {"success", "failed"}
    /\ rows[t].error <=> rows[t].status \in {"failed", "cancelled"}

\* A shutdown changes no row but that of the coroutine owning the semaphore:
\* tasks in the queue are left for the recovery of the next start.
QueuedSurvivesStop ==
  [][phase = "stopping" \/ phase' = "stopping" =>
        \A t \in Tasks : rows'[t] # rows[t] =>
           \E c \in Coroutines : proc[c].task = t /\ Holding(c)]_vars

\* The status column goes through the lifecycle and no other way.
Lifecycle == INSTANCE TaskLifecycle
                 WITH status <- [t \in Tasks |-> rows[t].status]
ImplementsLifecycle == Lifecycle!Spec

\* Unless a database error happens every accepted task ends, across crashes and
\* shutdowns: recovery and the semaphore queue starve none.
Settled(t) == rows[t].status \in {"success", "cancelled", "deleted"}
EveryTaskSettles ==
  \A t \in Tasks : rows[t].status = "in_queue" ~> Settled(t) \/ faults > 0

\* Even with database errors no coroutine retries, waits or sleeps for ever.
EveryCoroutineEnds ==
  \A c \in Coroutines : proc[c].pc # "idle" ~> proc[c].pc = "idle"

----------------------------------------------------------------------------
(* What the code says of itself and does not do; each is refuted by a run. *)

\* handle_database_error: after the last attempt ("Max retries exceeded") the
\* task is set to FAILED.
ExhaustedIsFailed ==
  [][\A c \in Coroutines :
        /\ phase = "running" /\ phase' = "running"
        /\ proc[c].pc = "backoff" /\ proc'[c].pc = "idle"
        => rows'[proc[c].task].status = "failed"]_vars

\* recover_tasks: "Recover tasks that were in_queue or in_progress when the
\* application last stopped", so stopping must leave such a task one of them.
StopKeepsRecoverable ==
  [][\A t \in Tasks :
        phase = "stopping" /\ rows[t].status \in Recoverable
        => rows'[t].status \in Recoverable \cup {"success"}]_vars

============================================================================
