# Formal models of python_samples

TLA+ models, TLC configurations and TLAPS proofs for the services of this
repository. Paths are relative to the repository; `simple_worker/...` is short
for `apps/simple_worker/simple_worker/...`, and likewise for the other apps.

    tlc -workers 2 -config worker.cfg TaskWorker.tla
    tlapm TaskWorkerProofs.tla

## 1. The system

Three FastAPI services and two small packages. Each service is one process with
one asyncio event loop: two coroutines interleave only at an `await`, threads
beside the loop (the background job of `sample`, the session cleanup of
`simple_worker`) interleave anywhere, and so does a crash.

| component | state | operations | interacts with |
|---|---|---|---|
| simple_worker, task queue (`api/routes.py`, `workers/task_worker.py`, `services/task_service.py`, `main.py`) | the `taskpayload` table (SQLite); a zero-capacity anyio stream of ids; a semaphore of one; the `process_task` coroutines; the lifespan's task group | POST a task, recover, receive, attempt, retry, finish, cancel, clean up | requests send ids, `task_worker` receives them; recovery sends on the same stream; cleanup deletes rows under both |
| simple_worker, retention (`services/task_service.py:272-305`, `main.py:44-47`) | the table, the clock | nightly cleanup of SUCCESS and of FAILED | deletes rows that tasks wrote and callbacks read |
| simple_worker, callbacks (`task_worker.py:100-152`) | `callbackpayload`, its own stream and semaphore | process a callback | reads the row of its task; nothing sends to it yet |
| simple_worker, sessions (`db/database.py`) | a pool of 5 + 10 connections | check out, return | held across awaits by requests, recovery and coroutines |
| simple_storage (`main.py`) | `FileMetadata` documents; GridFS files and chunks | upload, download, delete, delete bucket, list | concurrent requests share the two stores |
| sample, background jobs (`features/background_tasks/router.py`) | the `jobs` dictionary, a thread limiter of one | enqueue, run, report | request handlers and worker thread share `jobs`; `/health` shares the thread, which it takes twice |
| sample, health job (`core/scheduler.py`) | `JobLock` documents | lock, run, unlock | instances share MongoDB |
| sample, notes (`features/notes`) | `notes` documents | create, update, delete; get and list, which only read | concurrent requests |
| sample, lifespan (`server.py`, `core/db_mongo.py`) | client, scheduler | start, stop | the scheduler's job uses the client |
| settings, tokens, middleware, logging, packages | none that changes | | |

What is hard, and what makes each component correct:

* **Task queue.** Interleaving of requests, recovery, cleanup, retries and
  shutdown over one stream and one semaphore; crashes between commit and send;
  a database error at any query. Correct when no accepted task is lost or
  processed twice at once, the semaphore is always returned, a row tells what
  happened to its task, and every task ends.
* **Retention.** The unit of the interval, its boundary, and the runs the
  scheduler loses. Correct when finished rows go the first night after their
  documented retention, and no others.
* **Callbacks.** A semaphore of one kept over backoffs, rows deleted underneath.
  Correct when callbacks are processed one at a time, an error of one does not
  reach another, and none gets stuck.
* **Sessions.** A bounded pool, used synchronously from the event loop that
  would have to run for connections to come back. Correct when connections
  belong to somebody at work or to a coroutine that met an error, the loop does not freeze on account of queued
  work, and every request is answered.
* **Storage.** Two stores updated one after the other, with other requests in
  between and failures after either. Correct when what a request answered stays
  true, names are unique, and no request disturbs another tenant's files.
* **Background jobs, health job, notes, lifespan.** Lost updates, a lock that
  does not exclude, a client closed before its users, a creation that fails after
  its insert. Correct when a write is lost only to a concurrent one, a job's
  status tells where its run is, a lock excludes and is always removed, and the
  single thread serves everybody.

## 2. Modules

| module | models |
|---|---|
| `TaskLifecycle` | abstract: the order in which the status of a task may change |
| `TaskWorker` | simple_worker's task queue; implements `TaskLifecycle` |
| `TaskRetention` | the nightly cleanup with a clock, over an instance of `TaskLifecycle` |
| `CallbackWorker` | simple_worker's callbacks; extends `TaskRetention`, so tasks, cleanup and callbacks run together |
| `SessionPool` | who holds a pooled connection across which await |
| `FileStore` | abstract: what the clients of simple_storage may take a file for, one thing that appears whole and goes at once |
| `FileStorage`, `MCFileStorage` | simple_storage's requests over its two stores; implements `FileStore`; symmetry for TLC |
| `Notes`, `MCNotes` | sample's notes; symmetry for TLC |
| `BackgroundJobs` | sample's jobs dictionary, worker thread and health endpoint |
| `JobLock` | sample's scheduled job, its lock and the shutdown |
| `TaskWorkerProofs`, `CallbackWorkerProofs`, `SessionPoolProofs`, `FileStorageProofs`, `NotesProofs`, `BackgroundJobsProofs`, `JobLockProofs` | the theorems about the module of that name |
| `FileStoreProofs` | that `FileStorage` implements `FileStore`, over `FileStorageProofs` |

Definitions that no action uses (`ReleaseUnnoticed`, `QueryAnyway`, ...) are
plausible bugs: with one of them in the place of the definition they resemble,
the run finds its property violated. They show that each property depends on
the code.

Left of the plan: the URI assembly of sample's settings as operators checked
over bounded inputs; `TaskWorker` over `SessionPool` in one module (today they
share the stages of a coroutine by name only); one abstract first-come lock for
the two semaphores and the thread limiter, which are proved one by one today.

## 3. TaskWorker

An action is what a coroutine executes between two awaits. Database calls are
synchronous, so they are inside an action.

| variable | code |
|---|---|
| `rows` | the `taskpayload` table: status, and whether `result`, `error_message`, `completed_at` are set. A row that does not exist is `unissued` (no request drew the id) or `deleted` |
| `phase` | the process: `down`, `running`, `stopping` (`main.py:51`), and `headless`: `recover_tasks` raised, which cancels the task group and with it the worker, while uvicorn goes on serving |
| `recovering` | the rest of `recover_tasks`' loop |
| `senders` | blocked `task_send_stream.send` calls, oldest first |
| `proc` | the `process_task` coroutines: task, place, `retries`, and whether the session needs a rollback |
| `permit`, `waiters` | `task_semaphore` (anyio: first come, first served, `release` hands the permit to the oldest waiter) |
| `faults`, `restarts` | bounds of the model |

| action | code |
|---|---|
| `Start`, `StartHeadless` | `main.py:34-49` and the query of `recover_tasks`, which is the group's first task and runs before the server accepts requests |
| `RecoverSend` | an iteration of `task_worker.py:166-167` |
| `Enqueue`, `EnqueueUnsent` | `routes.py:31-35`; the second is the read of `task.task_id` failing after the commit |
| `Receive` | `task_worker.py:192-194` |
| `Acquire` | `process_task` to its first `async with task_semaphore` |
| `Begin` | an attempt up to the sleep of `do_something`, or the return for a row not found |
| `LookupFails`, `BeginCommitFails`, `WorkLookupFails`, `FinishCommitFails`, `SessionRefuses` | the five places where the attempt raises `SQLAlchemyError`, each with the error handler it ends in |
| `Finish` | `task_worker.py:70-74` |
| `EndBackoff` | the handler returns: leave the semaphore, count, queue up again or end |
| `Stop`, `StopWork`, `StopWorkFails`, `StopBackoff`, `Exit` | the cancellation of the task group, delivered at each coroutine's await; `task_worker.py:83-88` |
| `Crash` | the process dies |
| `Cleanup` | `cleanup_database` for a scheduled status; which rows are old enough is any set (`TaskRetention` has the clock) |

Abstractions. A commit that fails leaves the session asking for a rollback (the
SQLAlchemy state machine); a failing query does not. The five sleeps of
`do_something` are one. `handle_unexpected_error` acts on the row exactly as
`handle_database_error`, and an attempt without database errors raises nothing
else. The server answers its pending requests before it stops the lifespan
(uvicorn), so `Stop` waits for blocked requests; a stop of a `headless` process
has no worker to cancel and is not told from a crash. `get_tasks` and `get_task`
only read.

| run | bounds | shows |
|---|---|---|
| `worker` | 3 tasks, 3 coroutines, 2 attempts, 2 errors, 2 restarts, fair | `TypeOK`, `CarriedOnce`, `CarriedIsPending`, `LostOnlyToErrors`, `PermitConserved`, `RowConsistent`, `QueuedSurvivesStop`; `ImplementsLifecycle`: the status column refines `TaskLifecycle`; `EveryTaskSettles`, `EveryCoroutineEnds` |
| `worker_exhausted` | 1 task, 3 attempts, 1 error; violation | `ExhaustedIsFailed`: one failed commit uses up every attempt, and FAILED is not reached |
| `worker_stop_recovery` | 2 tasks, 1 restart; violation | `StopKeepsRecoverable`: a graceful stop writes CANCELLED |

Why the bounds are enough. Three tasks let one own the semaphore, one queue on it
and one be in the stream or in recovery. Two attempts already have a retry and a
last attempt. Two errors exhaust a task, or hit a task and another. Two restarts
give a recovery that is itself interrupted. `LostOnlyToErrors` counts: a serving
process has lost track of at most one unfinished task for each database error.
The bound is met (`worker_exhausted` loses one by one), and for no error it says
that none is lost (`NothingForgotten`).

Fairness (`FairSpec`). Weak fairness of every coroutine's own steps, of the
receive loop, of recovery's sends, of `Exit` and of `Start`: the event loop runs
every coroutine that is ready, sleeps end, and an operator restarts the
service. Nothing forces a request, a cleanup, an error, a crash or a stop.
`EveryTaskSettles` excepts behaviours with a database error: with one it is
false (`worker_exhausted`). `EveryCoroutineEnds` excepts nothing.

## 4. TaskRetention and CallbackWorker

`TaskRetention` gives the steps of `TaskLifecycle` a clock in hours: `created`
and `completed` are the two columns, `due` the cleanup jobs of this hour
(`main.py:44-47`, both at 3 o'clock), `Cleanup` is `cleanup_database` with its
comparison of `created_at` and the cutoff. `Skip` is a run that is lost: the
service is down, the loop is busy for more than the scheduler's default
`misfire_grace_time` of one second, or the database raises. That the worker
behaves as `TaskLifecycle` is what the run `worker` and the theorem `Refinement`
show.

`CallbackWorker` adds the callbacks. `callbacks` is the status column of
`callbackpayload` (its key is the id of the task), `stream`, `proc`, `permit`
and `waiters` are as in `TaskWorker`.

| action | code |
|---|---|
| `Add` | `add_callback` and a send: an assumption, see below |
| `Receive`, `Acquire` | `callback_worker`, and `process_callback` up to its semaphore |
| `Complete`, `Drop` | an attempt that commits SUCCESS (`Attempt` is what the attempts of a callback with a task have in common); one that finds its task missing |
| `LookupFails`, `BeginCommitFails`, `FinishCommitFails`, `SessionRefuses` | the places where it raises, with the handlers |
| `EndBackoff` | the handler's sleep ends |
| `Die`, `Restart` | crash and shutdown; recovery does not look at callbacks |

Assumed, because no code of the repository does it: who sends a callback (at any
time once the task has its result, once a task). The call a callback is for is a
TODO comment (`task_worker.py:124-129`), so it is not in the model and no property
speaks of it: an attempt commits IN_PROGRESS and then SUCCESS. It awaits nothing,
so it is one action; a shutdown reaches a coroutine only where a crash leaves the
same, so `Die` is both, and a kill in the middle of an attempt is its second
disjunct. Only the database can raise in it, so `handle_callback_unexpected_error`
is never reached. With the call in place, an attempt would have an await and an
error path of its own, and the model would have to be extended by both.

| run | bounds | shows |
|---|---|---|
| `callbacks` | 2 tasks, a day of 1 hour, retention 1, 3 hours, 1 lost run, 2 attempts, 1 error, 1 death, fair | `TypeOK`, `ReapedInTime`, `OneAtATime`, `CallbacksLostOnlyToErrors`, `EveryCallbackSettles`, `EveryCoroutineEnds` |
| `retention_hour` | the constants of the code, 1 task, 60 hours; violation | `RetentionIsAnHour`: a row finished within its hour is still there 25 hours after the hour was over, although a cleanup has run |

Two callbacks are one that owns the semaphore and one that waits. Three hours
are three nights: one on which a row is too young, one that deletes it or is
lost, one after. The theorem `RowsReaped` has every length of the day. Fairness:
the event loop runs what can run; tasks, time, errors, deaths and restarts need
not come. `EveryCallbackSettles` promises SUCCESS in a behaviour without errors
and deaths only: a commit that fails leaves the session refusing every retry.
`CallbacksLostOnlyToErrors` says what holds with errors: each costs one callback
at most, as `LostOnlyToErrors` says of the tasks. Deaths are excepted, because
nothing recovers callbacks.

## 5. SessionPool

`inUse` are the sessions that hold a connection, `request`, `task` and
`recovery` the stages of those that own one. A query takes a connection if the
session has none, a commit or the close returns it:

| who | code | keeps a connection |
|---|---|---|
| a GET | `routes.py`, `get_session` | from its query until a thread closes the session (`Leave`, `Close`) |
| a POST | `routes.py:31-35` | the read of `task_id` after the commit takes one, which is kept in the blocked send |
| recovery | `task_worker.py:156-167` | over all its sends, until the `with` block ends |
| a coroutine | `task_worker.py:54-97` | asleep in `do_something`; after an error in the backoff, in the queue for the semaphore and after its end |

Nobody closes the session of a coroutine: `Finish` returns the connection by its
commit, a coroutine that gave up leaves it to the garbage collector (`Collect`),
which the model never forces and forbids while `task_worker`'s variable still
refers to the session (`last`).

`Freeze` is a checkout from an empty pool. SQLAlchemy's pool blocks the calling
thread, and that is the event loop's: only the threads that close sessions go
on. `TimeOut` is `pool_timeout`.

| run | bounds | shows |
|---|---|---|
| `pool` | 1 GET, 2 POSTs, 1 recovered task, 3 connections, 2 attempts, 1 error, fair | `TypeOK`, `HeldByTheBusy`, `FreezeNeedsLoad`, `RequestsAnswered` |

`HeldByTheBusy` ties each connection to the very session that may hold it: a
request or recovery under way, the coroutine at work, or a coroutine that itself
met an error (`MetAnError`: in its backoff, on a later attempt, or ended after its
last one); and it counts: coroutines that hold a connection without working
(`Kept`) are no more than errors.

The pool of three, for fifteen, lets four owners fill it; the theorems have every
size. `FreezeNeedsLoad` says how much load that takes: the worker itself needs
two connections, one more for each error, and the rest must be requests under
way. `RequestsAnswered` excepts the POST whose worker is gone because
`recover_tasks` raised. Fairness: the loop and the threads go on and time passes;
a request in stage `new` has come, so it is served. `run_cleanup` takes and
returns its connection in one step and is left out, and so are
`pool_recycle` and the order of the queues (`TaskWorker` has it).

## 6. FileStorage

An action is one awaited MongoDB call of one request, with the code up to the
next one; other requests run in between. `metadata` are the `FileMetadata`
documents, `entries` and `chunks` the two GridFS collections (external; GridFS
writes the chunks first and the entry last, and deletes the entry first), `req`
the requests with the call they await, what they found and what they answered.

| action | code |
|---|---|
| `Upload`, `WriteChunks`, `WriteEntry`, `Insert` | `main.py:110-119`, `131` (two writes), `133-142` |
| `Download`, `Open`, `Stream` | `main.py:164-173`, `176`, `183-198` |
| `Delete`, `DeleteBucket` | the queries of `main.py:211-217`, `233-237` |
| `Unlink`, `Purge`, `Forget` | `gridfs.delete` (two writes, `NoFile` at the end when there was no entry) and `delete()` of the document, `main.py:220-221`, `241-243` |
| `Crash` | the process dies; requests at work are lost |

`Call` is what every awaited call has in common: it happens and the request goes
on, or it raises, before or after MongoDB did it, and the request answers 500.
Uploads that fail the checks of name and size touch nothing and are left out;
so are the two list requests. The cursor of `delete_bucket` is read to its end
as one call. Whether a client sends a matching `if_none_match` is any choice. A
body that ends early is the answer `cut`.

| run | bounds | shows |
|---|---|---|
| `storage_requests` | 4 requests, 2 tenants, 1 bucket, 2 names, 2 failing calls, 1 crash; symmetric | `TypeOK`, `UploadedIsDurable`, `DeletedIsGone`, `StoresAgree`, `FailsOnlyByDelete`, `NamesHaveFiles`, `TenantsIsolated`; `ImplementsFileStore`: to its clients the service is `FileStore` |
| `storage_unique` | violation | `UniqueNames`: two concurrent uploads of one name both answer 201 |

`FileStore` knows neither documents nor chunks. The file of an upload is `absent`,
`stored`, `damaged` (named, its bytes being deleted) or `removed`; `asked` is what
was asked, found and answered. A file comes to be whole in one step, that of its
own upload; only a deletion that found it damages or removes it; 200 is answered
only for a file not removed yet, and 204 when everything that was found is
removed. `FileOf` and `Asked` are the refinement mapping: there is a file when
there is a document, stored when entry and chunks are as well, so the refinement
rests on the order in which an upload writes the three and a deletion removes
them. What a crash or a failing call leaves without a document is not there for
clients, and a crash itself is not seen but by those who get no answer.

`NamesHaveFiles` is the part of the agreement of the stores that failures and
crashes leave: a document without its bytes is the work of a deletion. One whose
second call fails does leave such a document (a repeated deletion then answers
500, an upload of the name 409), which nothing in the repository rules out.

Four requests are two uploads of one name (the race), a deletion of one of them
and a download or second deletion racing it. The behaviours end when every request is
answered, hence `CHECK_DEADLOCK FALSE`. No liveness is stated: a request is a
bounded sequence of calls.

## 7. The sample service

At this commit the service does not start: `Settings.check_database_settings`
(`core/settings.py:189`) raises AttributeError when the module is imported (section
9). The three models describe the handlers as they run once it does.

`Notes`: `notes` is the collection, `req` the requests; `Update`/`Save` and
`Delete`/`Remove` are the two awaited calls of `notes_service.py:48-56` and
`59-62`, `Create` the one of `15-18`. The value of a field is the request that
gave it, so the properties can say whose write is stored; `before` is history,
the requests that had ended when this one read. `save` writes every field and
upserts (beanie). `Note(...)` raises whatever it is given (`TypeError`,
`mixins/base_id_mixin.py:16-22`): a creation answers 500 after its insert, and its
note is there for the requests that follow (which have its id from the collection,
no answer being left to tell it). For the same reason `get_by_id` answers 500 and a
list does so or breaks off at its first document; they change nothing and are left
out. Updates and deletions build no `Note`. A crash is a request that takes no
further step.

`BackgroundJobs`: `jobs` is the dictionary of `router.py:19`, `status` the field
of each `Job` object (identified by the POST that made it), `thread` and `queue`
the limiter of `server.py:41`. The thread runs beside the event loop, so each
lookup of `jobs[...]` and each assignment to `.status` is its own action
(`Fetch`, `Mark`, `FetchAgain`, `Finish`); a POST of the same uid may replace the
object in between. GET /health is a synchronous endpoint and takes the same
thread twice: for the call (`Healthy`) and, after queueing again, for FastAPI's
conversion of what it returned (`Serialise`). The class dependencies of the two
note lists take it as well; they are left out, as is any other request that only
asks for the thread once more.

`JobLock`: `run` is the run of `health_job` of each instance (APScheduler starts
no second one beside it), `locks` the documents. `Insert` and `Release` are the
two awaited calls of `scheduler.py:39-55`; `Release` removes every document,
because a keyword argument is not a filter of beanie's `find`. `Stop` is a
shutdown (`server.py:54-55`) or a crash in the middle of a run, `Expire` the TTL
index.

| run | bounds | shows |
|---|---|---|
| `notes_requests` | 5 requests, 1 failing call; symmetric | `TypeOK`, `UpdatesLostOnlyToRivals`, `RevivedOnlyByRivals` |
| `jobs` | 3 POSTs, 2 uids, 1 health check, 1 crash, fair | `TypeOK`, `StatusTellsTheRun`, `CompleteMeansRun`, `NoJobAbandoned`, `JobsComplete`, `HealthAnswers` |
| `lock_progress` | 2 instances, 3 runs, 2 failing calls, 2 stops, fair | `TypeOK`, `LeftByFailures`, `LocksGo` |
| `lock_exclusion` | violation | `OneInstanceRuns`: two instances run at the same time |

Five requests are a creation, two racing updates, a deletion and a request that
comes after them. Three POSTs
put two runs of one uid beside one of another. Fairness: the event loop, the
thread and MongoDB's expiry go on; no request, interval, crash or restart has to
come.

The properties of `Notes` say when the read-modify-write of `update_note_by_id`
is safe: updates that overlap do lose fields, and an overlapping update does
revive a deleted note, which is what `Rivals` excepts. Likewise a uid posted
again while its run is at work can show complete for the second job before it
ran, which `Alone` excepts.

## 8. Proofs

Every safety property that a passing run checks is also a theorem, for every
value of the constants, from the `ASSUME`s of the modules alone (natural bounds,
at least one attempt, a pool of at least one, model values that are not members
of the sets they stand beside). Each proof module has one inductive invariant
`IInv`, proved step by step (`Init => IInv`, `IInv /\ [Next]_vars => IInv'`); the
theorems follow from it by temporal logic. `IInv` of the larger modules was
checked with TLC on the bounds of the runs before it was proved.

**`TaskWorkerProofs`**: `TypeCorrect`, `TasksCarriedOnce`, `CarriedArePending`,
`ErrorsLoseOneTask` (`LostOnlyToErrors`), `OnePermit`, `RowsConsistent`,
`StopKeepsQueue`, `Refinement`; without a run `NobodyForgotten`, `NoTaskFails`,
`NoneForgotten`. None of the properties is inductive alone. `PermitConserved`
needs `WaitersWait` (`waiters` lists the waiting coroutines, each once):
otherwise a hand-off could give the permit to a coroutine that holds it already.
`CarriedOnce` needs `CarriedIsPending` (a POST draws an id without a row, so none
that is carried), `IdleExactly` and `DownIsEmpty` (a process that starts carries
nothing). `CarriedIsPending` needs `CarriedOnce`: finishing one coroutine's task
must not finish the row of another. `LostOnlyToErrors` is proved of a larger set
than the tasks that are lost: `AtRisk` has also those whose coroutine an error
has struck (`Struck`: in a backoff, past its first attempt, or with a broken
session), so every error enters a task at most, and a coroutine that gives up
enters none. `NothingForgotten` needs `CleanWithoutFaults` and is kept for the
invariant. `NobodyForgotten` (`NoLostWakeup`) is the half of `EveryCoroutineEnds`
that is a matter of states: who waits is in the queue of a semaphore that
another coroutine owns. `NoTaskFails` (`NeverFailed`) is what finding 1 says of
FAILED. `Refinement` maps every action to one of `TaskLifecycle` or a stutter.

**`CallbackWorkerProofs`**: `TypeCorrect`, `OnePermit` (`OneAtATime`), `RowsReaped`
(`ReapedInTime`), `ErrorsLoseOneCallback` (`CallbacksLostOnlyToErrors`); without a
run `NobodyForgotten`, `CallbacksKeepRetention`, `RetentionKeepsLifecycle`.
`StreamInv` says that an id is on the stream once at most and has no coroutine
then. `NightInv` states the retention by the last 3 o'clock before now,
not by now: it counts the jobs still due, which is what makes the bound survive
`Tick`. Its arithmetic on remainders is in the lemmas `Remainder` and `NextHour`.
`ErrorsLoseOneCallback` counts as `ErrorsLoseOneTask` does, with the retention
deleting rows underneath: a coroutine that drops its callback without an error
did so because the task is deleted, which needs `Answered`. The two last are a
chain of refinements: `CallbackWorker` implements `TaskRetention`, and that
`TaskLifecycle`, so the callbacks see the rows that the worker and the cleanup
make, and nothing else.

**`SessionPoolProofs`**: `TypeCorrect` (with the size of the pool), `HeldByWork`
(`HeldByTheBusy`), `FrozenByLoad` (`FreezeNeedsLoad`). The last counts: the
sessions in use that no request owns map into the recovery, the owner of the
semaphore and one coroutine for each error, and cardinalities add up.

**`FileStorageProofs`**: `TypeCorrect`, `UploadsAreDurable`, `DeletionsAreFinal`,
`FailuresHaveRivals`, `TheStoresAgree`, `TenantsApart`, `NoNameWithoutFile`
(`NamesHaveFiles`). The invariant says of each request what
its stage implies for the two stores (`Stage`, `Written`, `Progress`), of each
answer what holds since (`Durable`, `Blamed`), of each document that its upload
is over and its bytes were whole (`Documented`), and of behaviours without
failures that nothing lies about (`Clean`).

**`FileStoreProofs`**: `FilesAreOneThing` (`ImplementsFileStore`). The invariant
above says what the stores are like; the refinement also needs that requests and
documents keep to their tenant and bucket (`Placed`) and that a document goes last
(`Kind`). From these `NamedFile`, `RemovedFile` and `AbsentFile` tell the state of
a file by what is left of it. One lemma for each action (`WriteSeen`,
`InsertSeen`, ..., `CrashSeen`) shows that the action is a stutter or one step of
`FileStore`, also when its call fails before or after MongoDB did it.

**`NotesProofs`**: `TypeCorrect`, `OnlyRivalsLose` (`UpdatesLostOnlyToRivals`),
`OnlyRivalsRevive`. What a property says of the collection has to be known of every copy an update is about to save
(`Draft`), for what had ended when it read; the two properties of updates and of
deletions are then one (`Reflects`). `Step`/`Others` reduce every action to
what it does to the request that takes it.

**`BackgroundJobsProofs`**: `TypeCorrect`, `StatusIsExact` (`StatusTellsTheRun`),
`CompleteAfterRun` (`CompleteMeansRun`), `JobsAreKept` (`NoJobAbandoned`); without a
run `NobodyForgotten` (`NoLostThread`). A thread works on objects it
looked up earlier: `Fetched` says that the object is one of its uid, `RanBefore`
that an object is complete only after a run, also when it is no longer in the
dictionary. `NobodyForgotten` and `JobsAreKept` are the halves of `HealthAnswers` and `JobsComplete`
that are a matter of states: who waits for the thread is in the queue of a busy
one, and a job that is not complete has a run under way that will complete the
object the dictionary has, the second lookup of the run being what `Completes`
distinguishes.

**`JobLockProofs`**: `TypeCorrect`, `FailuresLeaveOneLock` (`LeftByFailures`), how
many locks only the expiry is left to remove; without a run `InsertsNeverCollide`
(`NeverDuplicate`), the reason why `lock_exclusion` finds two instances at work: no
insert ever meets its id, so nothing is there to be noticed.

The properties without a run are defined in the proof modules (`NothingForgotten`
beside the others of its module). TLC found them true on
the bounds of the runs of their modules before they were proved.

Only model-checked: the liveness properties (`EveryTaskSettles`,
`EveryCoroutineEnds`, `EveryCallbackSettles`, `RequestsAnswered`, `JobsComplete`,
`HealthAnswers`, `LocksGo`), since fairness and
`ENABLED` are beyond the prover. What the violated properties say is false, so
there is nothing to prove.

## 9. Findings

1. `services/task_service.py:181` (and 209): FAILED is unreachable, and no
   rollback is made between attempts (`workers/task_worker.py:80`), so one failed
   commit uses up every attempt and the task stays IN_QUEUE or IN_PROGRESS
   (`worker_exhausted`). The FAILED cleanup of `main.py:46` never matches.
2. `workers/task_worker.py:86`: a graceful stop stores CANCELLED, which recovery
   (`:157`) does not select; a crash loses less than a shutdown
   (`worker_stop_recovery`).
3. `simple_worker/constants.py:1`: `60 * 60  # 1 hour` is passed as a number of
   hours, so rows are kept for 3600 hours. The trace of `retention_hour` is shorter:
   a row finished within its hour is still there 25 hours after the hour was over,
   although a cleanup has run.
4. `simple_storage/main.py:110`: check then insert across awaits, index not
   unique (`storage_unique`).
5. `sample/core/scheduler.py:33`: every run locks an id of its own, so the lock
   excludes nobody (`lock_exclusion`).

Seen while reading, without a run:

* `sample/mixins/base_id_mixin.py:17`: `convert_id` is a model validator of mode
  `before` written as a method, so pydantic gives it the data as `self` and a
  `ValidationInfo` as `values`, and `"id" in values` raises TypeError. No `Note` can
  be built: POST /notes answers 500 for a note that it has stored, `get_by_id`
  answers 500, the paginated list as well, and a streamed list breaks off at its
  first document. The model has the creation as it is (`TypeError`).
* `sample/core/settings.py:189`: `check_database_settings` is written as
  `convert_id` is, and calls `.get` on its `ValidationInfo`: `Settings()` (`:206`)
  raises AttributeError at import, so the service does not start.
* `routes.py`: a POST without a tenant stores None in a column that is NOT NULL
  and answers 500.
* The docstring of the settings names another default environment than the field.
* Callback rows are neither cleaned up nor recovered, FAILED and CANCELLED are
  unreachable for them, and `TaskCreate.callback` is stored and never delivered.
* GET /health waits for the single thread twice, the second time also behind jobs
  that were posted after it.

## 10. Not modelled

* Tokens, settings: pure functions of a header or of the environment.
* Middleware and logging: measure and format.
* The packages: a random id and a logger.
* Read-only operations: `get_tasks`, `get_task`, `list_files`, `list_buckets`,
  `get_by_id`, the lists of notes, GET /status.
* The call of a callback, a comment in the code.
* The SQLite engine of `sample` and `process_gpu_task`, which nothing uses;
  `init_beanie` and the rest of the lifespan beyond its shutdown order.
* Notebooks and deployment files.
