--------------------------- MODULE TaskLifecycle ---------------------------
(***************************************************************************)
(* What simple_worker promises about one row of the taskpayload table,     *)
(* whatever the scheduling, the database errors and the restarts: the      *)
(* order in which its status column may change.  TaskWorker, the module of *)
(* the program, implements it.                                             *)
(*                                                                         *)
(* Source of the states: models/task.py (TaskStatus); "unissued" stands    *)
(* for an id no request has drawn yet and "deleted" for a row the nightly  *)
(* cleanup removed.                                                        *)
(***************************************************************************)
CONSTANT Tasks     \* the task ids (uuid4, never drawn twice)

VARIABLE status    \* [Tasks -> LifecycleStatus]

LifecycleStatus == {"unissued", "in_queue", "in_progress", "success",
                    "failed", "cancelled", "deleted"}

Init == status = [t \in Tasks |-> "unissued"]

Move(t, from, to) ==
  /\ status[t] = from
  /\ status' = [status EXCEPT ![t] = to]

Submit(t)  == Move(t, "unissued", "in_queue")
Begin(t)   == Move(t, "in_queue", "in_progress")
Succeed(t) == Move(t, "in_progress", "success")
Fail(t)    == Move(t, "in_progress", "failed")
Cancel(t)  == Move(t, "in_progress", "cancelled")

\* One cleanup removes rows of one finished status, any number of them.
Purge(S) ==
  /\ \E s \in {"success", "failed"} : \A t \in S : status[t] = s
  /\ status' = [t \in Tasks |-> IF t \in S THEN "deleted" ELSE status[t]]

Next ==
  \/ \E t \in Tasks :
        Submit(t) \/ Begin(t) \/ Succeed(t) \/ Fail(t) \/ Cancel(t)
  \/ \E S \in SUBSET Tasks : Purge(S)

Spec == Init /\ [][Next]_status

============================================================================
