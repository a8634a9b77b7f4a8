---------------------------- MODULE TaskRetention ----------------------------
(***************************************************************************)
(* The retention of simple_worker: two nightly jobs of the lifespan's      *)
(* scheduler, one per status, delete the rows created longer ago than the  *)
(* retention.  The worker itself is TaskLifecycle, which TaskWorker        *)
(* implements; here its steps are given a clock.                           *)
(***************************************************************************)
EXTENDS Naturals

CONSTANTS
  Tasks,       \* task ids
  Day,         \* hours between two runs of the cron jobs (24)
  Retention,   \* the hours run_cleanup is given: CLEAN_UP_INTERVAL
  MaxHours,    \* bound: hours in a behaviour
  MaxSkips     \* bound: nights on which a job does not do its work

ASSUME RetentionAssumption ==
  /\ Day \in Nat \ {0}
  /\ {Retention, MaxHours, MaxSkips} \subseteq Nat

VARIABLES
  status,      \* the status column
  created,     \* the created_at column, in hours; 0 without a value
  completed,   \* the completed_at column, likewise
  now,         \* hours since some 3 o'clock
  due,         \* the jobs (their target_status) of this hour
  skips        \* nights skipped so far

times == <<created, completed>>
retention == <<status, times, now, due, skips>>

Worker == INSTANCE TaskLifecycle

\* The statuses the lifespan schedules run_cleanup for, each at hour=3.
Targets == {"success", "failed"}

RetentionInit ==
  /\ Worker!Init
  /\ created = [t \in Tasks |-> 0]
  /\ completed = [t \in Tasks |-> 0]
  /\ now = 0
  /\ due = {}
  /\ skips = 0

----------------------------------------------------------------------------
Submit(t) ==
  /\ Worker!Submit(t)
  /\ created' = [created EXCEPT ![t] = now]
  /\ UNCHANGED <<completed, now, due, skips>>

Succeed(t) ==
  /\ Worker!Succeed(t)
  /\ completed' = [completed EXCEPT ![t] = now]
  /\ UNCHANGED <<created, now, due, skips>>

\* FAILED is never stored, see ExhaustedIsFailed of TaskWorker.
Proceed(t) ==
  /\ Worker!Begin(t) \/ Worker!Cancel(t)
  /\ UNCHANGED <<times, now, due, skips>>

Tick ==
  /\ now < MaxHours
  /\ due = {}
  /\ now' = now + 1
  /\ due' = IF now' % Day = 0 THEN Targets ELSE {}
  /\ UNCHANGED <<status, times, skips>>

\* The age of a row counts from completed_at.
ExpiredSinceCompletion(t) == completed[t] + Retention < now

\* cleanup_database: created_at < now - retention_hours.
Expired(t) == created[t] + Retention < now

Cleanup(s) ==
  LET old == {t \in Tasks : status[t] = s /\ Expired(t)}
  IN  /\ s \in due
      /\ Worker!Purge(old)
      /\ created' = [t \in Tasks |-> IF t \in old THEN 0 ELSE created[t]]
      /\ completed' = [t \in Tasks |-> IF t \in old THEN 0 ELSE completed[t]]
      /\ due' = due \ {s}
      /\ UNCHANGED <<now, skips>>

\* The service is down, the loop is busy for longer than the scheduler's
\* misfire_grace_time of one second, or the database raises: the run is lost.
Skip(s) ==
  /\ s \in due
  /\ skips < MaxSkips
  /\ due' = due \ {s}
  /\ skips' = skips + 1
  /\ UNCHANGED <<status, times, now>>

RetentionNext ==
  \/ Tick
  \/ \E t \in Tasks : Submit(t) \/ Succeed(t) \/ Proceed(t)
  \/ \E s \in Targets : Cleanup(s) \/ Skip(s)

RetentionSpec == RetentionInit /\ [][RetentionNext]_retention

----------------------------------------------------------------------------
(* Properties.                                                             *)

\* Every variable keeps its type.
RetentionTypeOK ==
  /\ status \in [Tasks -> Worker!LifecycleStatus]
  /\ created \in [Tasks -> 0 .. MaxHours]
  /\ completed \in [Tasks -> 0 .. MaxHours]
  /\ now \in 0 .. MaxHours
  /\ due \in SUBSET Targets
  /\ skips \in 0 .. MaxSkips

\* No SUCCESS row has outlived both h hours since its creation and a whole
\* night since, or since its completion, if that came later: a further night
\* for every run of a job that was lost.
ReapedWithin(h) ==
  \A t \in Tasks : status[t] = "success" =>
     \E since \in {created[t] + h, completed[t]} :
        now <= since + Day * (1 + skips)

\* run_cleanup removes every finished row the first night after its retention.
ReapedInTime == ReapedWithin(Retention)

\* constants.py says of the retention it gives run_cleanup: "60 * 60  # 1 hour".
\* A run refutes it: a row finished within that hour is still there 25 hours after
\* the hour was over, although the cleanup has run in between.
RetentionIsAnHour == ReapedWithin(1)

============================================================================
