------------------------------ MODULE JobLock ------------------------------
(***************************************************************************)
(* apps/sample, core/scheduler.py: several instances of the service run    *)
(* health_job every ten seconds, each inserting a JobLock document before  *)
(* and deleting it after.  MongoDB removes documents that have expired.    *)
(*                                                                         *)
(* An action is one awaited call of a run with the code up to the next     *)
(* one.  The job is called without an id, so every run draws a new one.    *)
(***************************************************************************)
EXTENDS Naturals, FiniteSets

CONSTANTS
  Instances,   \* processes with a scheduler
  Ids,         \* job ids a run may draw (uuid4: each at most once)
  NoId,        \* no run
  MaxFaults,   \* bound: calls to MongoDB that fail
  MaxStops     \* bound: shutdowns and crashes of instances

ASSUME ConstantsAssumption ==
  /\ NoId \notin Ids
  /\ MaxFaults \in Nat
  /\ MaxStops \in Nat

VARIABLES
  locks,       \* ids of the JobLock documents
  drawn,       \* ids drawn so far
  up,          \* instances that run
  run,         \* the run of health_job of each instance
  faults,      \* failed calls so far
  stops        \* stops so far

vars == <<locks, drawn, up, run, faults, stops>>

----------------------------------------------------------------------------
\* insert: awaits the insert.  running: the lock is inserted and the job's
\* work is done until the delete is answered.  failed: the insert raised, the
\* delete of the finally clause is awaited.
Run == [at : {"idle", "insert", "running", "failed"}, id : Ids \cup {NoId}]

NotRunning == [at |-> "idle", id |-> NoId]

Init ==
  /\ locks = {}
  /\ drawn = {}
  /\ up = Instances
  /\ run = [i \in Instances |-> NotRunning]
  /\ faults = 0
  /\ stops = 0

\* A call of instance i makes the collection m and its run goes on as next; or
\* it raises, before MongoDB did it or after, and the run goes on as failed.
Call(i, m, next, failed) ==
  /\ \/ /\ locks' = m
        /\ run' = [run EXCEPT ![i] = next]
        /\ UNCHANGED faults
     \/ /\ faults < MaxFaults
        /\ faults' = faults + 1
        /\ locks' \in {locks, m}
        /\ run' = [run EXCEPT ![i] = failed]
  /\ UNCHANGED <<drawn, up, stops>>

\* The interval is over; the scheduler starts no second run beside the first.
FireWithoutId(i) ==
  /\ i \in up
  /\ run[i] = NotRunning
  /\ run' = [run EXCEPT ![i] = [at |-> "insert", id |-> NoId]]
  /\ UNCHANGED <<locks, drawn, up, faults, stops>>

Fire(i) ==
  /\ i \in up
  /\ run[i] = NotRunning
  /\ \E id \in Ids \ drawn :
        /\ drawn' = drawn \cup {id}
        /\ run' = [run EXCEPT ![i] = [at |-> "insert", id |-> id]]
  /\ UNCHANGED <<locks, up, faults, stops>>

\* lock.insert().  No index makes job_id unique, and no two ids are the same:
\* nothing ever raises DuplicateKeyError.
Insert(i) ==
  /\ run[i].at = "insert"
  /\ Call(i, locks \cup {run[i].id}, [run[i] EXCEPT !.at = "running"],
          [run[i] EXCEPT !.at = "failed"])

\* JobLock.find(job_id=job_id).delete(): the keyword is no filter of find, so
\* the documents of every run go.
ReleaseUnawaited(i) ==
  /\ run[i].at \in {"running", "failed"}
  /\ run' = [run EXCEPT ![i] = NotRunning]
  /\ UNCHANGED <<locks, drawn, up, faults, stops>>

Release(i) ==
  /\ run[i].at \in {"running", "failed"}
  /\ Call(i, {}, NotRunning, NotRunning)

\* The lifespan closes the client and then stops the scheduler, which cancels
\* the run; its last call may have reached MongoDB, and a closed client deletes
\* no lock.  To MongoDB a crash looks the same.
Stop(i) ==
  /\ i \in up
  /\ stops < MaxStops
  /\ stops' = stops + 1
  /\ up' = up \ {i}
  /\ run' = [run EXCEPT ![i] = NotRunning]
  /\ locks' \in {locks} \cup (CASE run[i].at = "insert" -> {locks \cup {run[i].id}}
                                [] run[i].at \in {"running", "failed"} -> {{}}
                                [] OTHER -> {})
  /\ UNCHANGED <<drawn, faults>>

Restart(i) ==
  /\ i \notin up
  /\ up' = up \cup {i}
  /\ UNCHANGED <<locks, drawn, run, faults, stops>>

\* The index on expire_at; ten seconds may be over before the run is.
NoTimeToLive == FALSE /\ UNCHANGED vars

Expire ==
  /\ \E id \in locks : locks' = locks \ {id}
  /\ UNCHANGED <<drawn, up, run, faults, stops>>

Next ==
  \/ Expire
  \/ \E i \in Instances :
        Fire(i) \/ Insert(i) \/ Release(i) \/ Stop(i) \/ Restart(i)

Spec == Init /\ [][Next]_vars

\* A run goes on and MongoDB's monitor removes what has expired; nothing makes
\* a scheduler fire or an instance come back.
FairSpec ==
  /\ Spec
  /\ WF_vars(Expire)
  /\ \A i \in Instances : WF_vars(Insert(i)) /\ WF_vars(Release(i))

----------------------------------------------------------------------------
(* Properties.                                                             *)

\* Every variable keeps its type.
TypeOK ==
  /\ locks \in SUBSET Ids
  /\ drawn \in SUBSET Ids
  /\ up \in SUBSET Instances
  /\ run \in [Instances -> Run]
  /\ faults \in 0 .. MaxFaults
  /\ stops \in 0 .. MaxStops

\* Every lock goes in the end, also one whose instance failed to delete it,
\* crashed or closed its client first, and no instance comes back.
LocksGo == \A id \in Ids : id \in locks ~> id \notin locks

\* Documents whose run is over: only MongoDB's expiry, or the delete of another
\* run, removes them.
Leftover == {id \in locks : \A i \in Instances : run[i].id # id}

\* Each is the trace of a delete that failed, or of an instance that stopped in
\* the middle of a run: a run leaves no lock if its own calls succeed, whatever
\* becomes of the runs beside it, though each run deletes the locks of all.
LeftByFailures == Cardinality(Leftover) <= faults + stops

\* health_job: "using a lock to prevent multiple instances from running at the
\* same time".  A run refutes it.
OneInstanceRuns ==
  \A i, j \in Instances : run[i].at = "running" /\ run[j].at = "running" => i = j

============================================================================
