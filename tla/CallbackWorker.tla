--------------------------- MODULE CallbackWorker ---------------------------
(***************************************************************************)
(* The callbacks of simple_worker: a table, a stream, a semaphore and a    *)
(* coroutine of their own, beside the tasks whose rows they read and the   *)
(* retention deletes.  No code of the repository sends a callback yet: the *)
(* sender is taken to add the row and send the id (add_callback,           *)
(* callback_send_stream) at any time once the task has its result, and     *)
(* once a task, the id being the key.                                      *)
(*                                                                         *)
(* The call the callback is for is a comment (TODO) and no part of this    *)
(* model: an attempt looks two rows up and commits IN_PROGRESS and then    *)
(* SUCCESS.  It awaits nothing, so it is one action and a cancellation     *)
(* arrives at an acquire or in a backoff only: a shutdown leaves what a    *)
(* crash leaves, and Die stands for both.  Nothing but the database raises *)
(* in it, so handle_callback_unexpected_error is never reached.            *)
(***************************************************************************)
EXTENDS TaskRetention, Sequences, FiniteSets

CONSTANTS
  MaxRetries,  \* RetryConfig.max_retries (3 in the code)
  MaxFaults,   \* bound: database errors in a behaviour
  MaxDeaths    \* bound: crashes and shutdowns in a behaviour

ASSUME CallbackAssumption ==
  /\ MaxRetries \in Nat \ {0}
  /\ {MaxFaults, MaxDeaths} \subseteq Nat

VARIABLES
  callbacks,   \* status of the callbackpayload rows; "none" without a row
  up,          \* the process serves
  stream,      \* blocked callback_send_stream.send calls, oldest first
  proc,        \* the process_callback coroutines, by task
  permit,      \* value of callback_semaphore
  waiters,     \* coroutines queued on it, oldest first
  faults,      \* database errors so far
  deaths       \* crashes and shutdowns so far

semaphore == <<permit, waiters>>
memory == <<up, stream, proc, semaphore>>
vars == <<retention, callbacks, memory, faults, deaths>>

----------------------------------------------------------------------------
CallbackStatus == {"in_queue", "in_progress", "success", "failed", "cancelled"}

\* As in TaskWorker; broken: the session needs a rollback nobody makes.
Proc == [pc : {"idle", "spawned", "waiting", "granted", "backoff"},
         retries : 0 .. MaxRetries - 1, broken : BOOLEAN]

Idle == [pc |-> "idle", retries |-> 0, broken |-> FALSE]

Holding(t) == proc[t].pc \in {"granted", "backoff"}

Unfinished(t) == status[t] \in {"in_queue", "in_progress"}
HasRow(t) == status[t] \notin {"unissued", "deleted"}

Init ==
  /\ RetentionInit
  /\ callbacks = [t \in Tasks |-> "none"]
  /\ up = TRUE
  /\ stream = <<>>
  /\ proc = [t \in Tasks |-> Idle]
  /\ permit = 1
  /\ waiters = <<>>
  /\ faults = 0
  /\ deaths = 0

----------------------------------------------------------------------------
Add(t) ==
  /\ up
  /\ status[t] = "success"
  /\ callbacks[t] = "none"
  /\ callbacks' = [callbacks EXCEPT ![t] = "in_queue"]
  /\ stream' = Append(stream, t)
  /\ UNCHANGED <<retention, up, proc, semaphore, faults, deaths>>

\* callback_worker.
Receive ==
  /\ stream # <<>>
  /\ proc' = [proc EXCEPT ![Head(stream)].pc = "spawned"]
  /\ stream' = Tail(stream)
  /\ UNCHANGED <<retention, callbacks, up, semaphore, faults, deaths>>

Unlimited == TRUE

\* Whether callback_semaphore can be had at once.
Free == permit = 1 /\ waiters = <<>>

Acquire(t) ==
  /\ proc[t].pc = "spawned"
  /\ proc' = [proc EXCEPT ![t].pc = IF Free THEN "granted" ELSE "waiting"]
  /\ permit' = IF Free THEN 0 ELSE permit
  /\ waiters' = IF Free THEN waiters ELSE Append(waiters, t)
  /\ UNCHANGED <<retention, callbacks, up, stream, faults, deaths>>

\* Leave the semaphore to the oldest waiter, with p the coroutines then.
Release(p) ==
  IF waiters = <<>>
  THEN proc' = p /\ permit' = 1 /\ UNCHANGED waiters
  ELSE /\ proc' = [p EXCEPT ![Head(waiters)].pc = "granted"]
       /\ waiters' = Tail(waiters)
       /\ UNCHANGED permit

\* An attempt that finds callback and task leaves the callback with status s.
Attempt(t, s) ==
  /\ proc[t].pc = "granted" /\ ~proc[t].broken /\ HasRow(t)
  /\ callbacks' = [callbacks EXCEPT ![t] = s]

Complete(t) ==
  /\ Attempt(t, "success")
  /\ Release([proc EXCEPT ![t] = Idle])
  /\ UNCHANGED <<retention, up, stream, faults, deaths>>

\* "Failed to resolve information": the task's row is gone.
Drop(t) ==
  /\ proc[t].pc = "granted" /\ ~proc[t].broken /\ ~HasRow(t)
  /\ Release([proc EXCEPT ![t] = Idle])
  /\ UNCHANGED <<retention, callbacks, up, stream, faults, deaths>>

\* The handlers of an error: retries is below max_retries, so they sleep and
\* their other branch, FAILED, is never taken.
BackOff(t, broken) ==
  /\ proc' = [proc EXCEPT ![t].pc = "backoff", ![t].broken = broken]
  /\ UNCHANGED <<retention, up, stream, semaphore, deaths>>

DatabaseError ==
  /\ faults < MaxFaults
  /\ faults' = faults + 1

LookupFails(t) ==
  /\ proc[t].pc = "granted" /\ ~proc[t].broken
  /\ DatabaseError
  /\ BackOff(t, FALSE)
  /\ UNCHANGED callbacks

BeginCommitFails(t) ==
  /\ Attempt(t, callbacks[t])
  /\ DatabaseError
  /\ BackOff(t, TRUE)

FinishCommitFails(t) ==
  /\ Attempt(t, "in_progress")
  /\ DatabaseError
  /\ BackOff(t, TRUE)

SessionRefuses(t) ==
  /\ proc[t].pc = "granted" /\ proc[t].broken
  /\ BackOff(t, TRUE)
  /\ UNCHANGED <<callbacks, faults>>

\* Whether the loop of process_callback ends, and what it goes on with.
OneTooMany(p) == p.retries = MaxRetries
LastAttempt(p) == p.retries + 1 = MaxRetries
SameAttempt(p) == p
NextAttempt(p) == [p EXCEPT !.retries = @ + 1]

EndBackoff(t) ==
  /\ proc[t].pc = "backoff"
  /\ IF LastAttempt(proc[t])
     THEN Release([proc EXCEPT ![t] = Idle])
     ELSE LET again == NextAttempt(proc[t])
          IN  IF waiters = <<>>
              THEN /\ proc' = [proc EXCEPT ![t] = [again EXCEPT !.pc = "granted"]]
                   /\ UNCHANGED semaphore
              ELSE /\ proc' = [proc EXCEPT ![t] = [again EXCEPT !.pc = "waiting"],
                                           ![Head(waiters)].pc = "granted"]
                   /\ waiters' = Append(Tail(waiters), t)
                   /\ UNCHANGED permit
  /\ UNCHANGED <<retention, callbacks, up, stream, faults, deaths>>

----------------------------------------------------------------------------
\* The process ends between two awaits, or, killed, between the two commits of
\* an attempt.
Die ==
  /\ up
  /\ deaths < MaxDeaths
  /\ deaths' = deaths + 1
  /\ UNCHANGED callbacks \/ \E t \in Tasks : Attempt(t, "in_progress")
  /\ up' = FALSE
  /\ stream' = <<>>
  /\ proc' = [t \in Tasks |-> Idle]
  /\ permit' = 1
  /\ waiters' = <<>>
  /\ UNCHANGED <<retention, faults>>

\* recover_tasks looks at the tasks only.
Restart ==
  /\ ~up
  /\ up' = TRUE
  /\ UNCHANGED <<retention, callbacks, stream, proc, semaphore, faults, deaths>>

ProcessCallback(t) ==
  \/ Acquire(t) \/ Complete(t) \/ Drop(t) \/ EndBackoff(t) \/ SessionRefuses(t)
  \/ LookupFails(t) \/ BeginCommitFails(t) \/ FinishCommitFails(t)

Next ==
  \/ Receive \/ Die \/ Restart
  \/ \E t \in Tasks : Add(t) \/ ProcessCallback(t)
  \/ RetentionNext /\ UNCHANGED <<callbacks, memory, faults, deaths>>

\* The event loop runs what can run; tasks, time, errors and deaths need not.
Fairness == WF_vars(Receive) /\ \A t \in Tasks : WF_vars(ProcessCallback(t))

Spec == Init /\ [][Next]_vars /\ Fairness

----------------------------------------------------------------------------
(* Properties.                                                             *)

\* Every variable keeps its type.
TypeOK ==
  /\ RetentionTypeOK
  /\ callbacks \in [Tasks -> CallbackStatus \cup {"none"}]
  /\ up \in BOOLEAN
  /\ stream \in Seq(Tasks)
  /\ proc \in [Tasks -> Proc]
  /\ permit \in {0, 1}
  /\ waiters \in Seq(Tasks)
  /\ faults \in 0 .. MaxFaults
  /\ deaths \in 0 .. MaxDeaths

\* "Limit the number of concurrent callbacks to 1": over retries, returns and
\* errors the permit is free with an empty queue or owned by one coroutine.
OneAtATime ==
  LET owners == {t \in Tasks : Holding(t)}
  IN  IF permit = 1 THEN waiters = <<>> /\ owners = {}
                    ELSE \E t \in Tasks : owners = {t}

\* The id of t waits on the stream.
Sent(t) == \E i \in DOMAIN stream : stream[i] = t

\* The callbacks that were sent, have no SUCCESS and are on no way to it: neither
\* on the stream nor in the hands of a coroutine, though the task is there.
Abandoned ==
  {t \in Tasks : /\ callbacks[t] \notin {"none", "success"}
                 /\ status[t] # "deleted"
                 /\ ~Sent(t)
                 /\ proc[t].pc = "idle"}

\* Without a shutdown or a crash a database error costs at most one callback its
\* SUCCESS, and without errors none is abandoned: in no order of returns, retries
\* and cleanups does the error of one coroutine reach the callback of another.
CallbacksLostOnlyToErrors == deaths = 0 => Cardinality(Abandoned) <= faults

\* Without errors and deaths every callback sent is marked SUCCESS, unless the
\* retention deletes the row of its task first.
EveryCallbackSettles ==
  \A t \in Tasks : callbacks[t] = "in_queue" ~>
     \/ callbacks[t] = "success" \/ status[t] = "deleted"
     \/ faults > 0 \/ deaths > 0

\* With them every coroutine still ends.
EveryCoroutineEnds ==
  \A t \in Tasks : proc[t].pc # "idle" ~> proc[t].pc = "idle"

============================================================================
