-------------------------- MODULE SessionPoolProofs --------------------------
(***************************************************************************)
(* Theorems of SessionPool, for every set of requests and tasks, every     *)
(* size of the pool and every number of retries and errors.                *)
(***************************************************************************)
EXTENDS SessionPool, FiniteSetTheorems, TLAPS

----------------------------------------------------------------------------
(* The pool: a query adds one session to those that hold a connection, and *)
(* only when there is one left.                                            *)

PoolInv ==
  /\ inUse \in SUBSET Sessions
  /\ IsFiniteSet(inUse)
  /\ Cardinality(inUse) <= PoolSize

LEMMA QueryPool ==
  ASSUME PoolInv, NEW s \in Sessions, Query(s)
  PROVE  PoolInv'
<1>1. CASE s \in inUse
  <2>1. inUse' = inUse
    BY <1>1 DEF Query
  <2> QED BY <2>1 DEF PoolInv
<1>2. CASE s \notin inUse
  <2>1. /\ inUse' = inUse \cup {s}
        /\ ~(Cardinality(inUse) >= PoolSize)
    BY <1>2 DEF Query, Full
  <2>2. /\ IsFiniteSet(inUse')
        /\ Cardinality(inUse') = Cardinality(inUse) + 1
    BY <1>2, <2>1, FS_AddElement DEF PoolInv
  <2>3. Cardinality(inUse) \in Nat
    BY FS_CardinalityType DEF PoolInv
  <2> QED BY <2>1, <2>2, <2>3, PoolAssumption DEF PoolInv
<1> QED BY <1>1, <1>2

LEMMA ReturnPool ==
  ASSUME PoolInv, NEW s, Return(s)
  PROVE  PoolInv'
<1>1. inUse' \subseteq inUse
  BY DEF Return
<1>2. /\ IsFiniteSet(inUse') /\ Cardinality(inUse') <= Cardinality(inUse)
  BY <1>1, FS_Subset DEF PoolInv
<1>3. Cardinality(inUse) \in Nat /\ Cardinality(inUse') \in Nat
  BY <1>2, FS_CardinalityType DEF PoolInv
<1> QED BY <1>1, <1>2, <1>3, PoolAssumption DEF PoolInv

LEMMA OneMore ==
  ASSUME NEW S, IsFiniteSet(S), NEW x
  PROVE  /\ IsFiniteSet(S \cup {x})
         /\ Cardinality(S) \in Nat /\ Cardinality(S \cup {x}) \in Nat
         /\ Cardinality(S \cup {x}) <= Cardinality(S) + 1
<1>1. /\ IsFiniteSet(S \cup {x})
      /\ Cardinality(S \cup {x}) = IF x \in S THEN Cardinality(S) ELSE Cardinality(S) + 1
  BY FS_AddElement
<1>2. Cardinality(S) \in Nat /\ Cardinality(S \cup {x}) \in Nat
  BY <1>1, FS_CardinalityType
<1> QED BY <1>1, <1>2

\* Every step does one of three things to the pool.
LEMMA StepPool ==
  ASSUME PoolInv, [Next]_vars
  PROVE  PoolInv'
<1>1. ASSUME UNCHANGED inUse PROVE PoolInv'
  BY <1>1 DEF PoolInv
<1>2. CASE Recover
  BY <1>2, QueryPool DEF Recover, Sessions
<1>3. CASE RecoverEnds
  BY <1>3, ReturnPool DEF RecoverEnds
<1>4. CASE TimeOut \/ \E s \in Sessions : Freeze(s)
  BY <1>1, <1>4 DEF TimeOut, Freeze
<1>5. ASSUME NEW r \in Requests, ServeRequest(r) PROVE PoolInv'
  <2>1. CASE Get(r) \/ Post(r)
    BY <2>1, QueryPool DEF Get, Post, Sessions
  <2>2. CASE Receive(r) \/ Leave(r)
    BY <1>1, <2>2 DEF Receive, Leave
  <2>3. CASE Close(r)
    BY <2>3, ReturnPool DEF Close
  <2> QED BY <1>5, <2>1, <2>2, <2>3 DEF ServeRequest
<1>6. ASSUME NEW t \in Tasks, ProcessTask(t) \/ Collect(t) PROVE PoolInv'
  <2>1. CASE RecoverSend(t) \/ Grant(t) \/ EndBackoff(t)
    BY <1>1, <2>1 DEF RecoverSend, Grant, EndBackoff
  <2>2. CASE Begin(t)
    BY <2>2, QueryPool DEF Begin, Sessions
  <2>3. CASE Finish(t)
    BY <1>1, <2>3, ReturnPool DEF Finish
  <2>4. CASE Collect(t)
    BY <2>4, ReturnPool DEF Collect
  <2> QED BY <1>6, <2>1, <2>2, <2>3, <2>4 DEF ProcessTask
<1>7. CASE UNCHANGED vars
  BY <1>1, <1>7 DEF vars
<1> QED BY <1>2, <1>3, <1>4, <1>5, <1>6, <1>7 DEF Next

----------------------------------------------------------------------------
(* Types.                                                                  *)

Types ==
  /\ request \in [Requests -> RequestStages]
  /\ task \in [Tasks -> TaskStages]
  /\ retries \in [Tasks -> 0 .. MaxRetries - 1]
  /\ recovery \in {"new", "sending", "done", "raised", "dead"}
  /\ frozen \in Sessions \cup {Nobody}
  /\ last \in Tasks \cup {Nobody}
  /\ faults \in 0 .. MaxFaults

LEMMA InitTypes == Init => Types /\ PoolInv
<1>1. ASSUME Init PROVE Types
  BY <1>1, PoolAssumption DEF Init, Types, RequestStages, TaskStages
<1>2. ASSUME Init PROVE PoolInv
  BY <1>2, FS_EmptySet, PoolAssumption DEF Init, PoolInv
<1> QED BY <1>1, <1>2

LEMMA FailsType ==
  ASSUME Types, Fails
  PROVE  faults' \in 0 .. MaxFaults /\ faults' # 0
  BY PoolAssumption DEF Types, Fails

LEMMA StepTypes ==
  ASSUME Types, [Next]_vars
  PROVE  Types'
<1>1. CASE Recover
  <2>1. frozen' = Nobody
    BY <1>1 DEF Recover, Query
  <2> QED BY <1>1, <2>1, FailsType DEF Recover, Types
<1>2. CASE RecoverEnds
  BY <1>2 DEF RecoverEnds, Types
<1>3. CASE TimeOut
  BY <1>3 DEF TimeOut, Types, RequestStages, TaskStages
<1>4. ASSUME NEW s \in Sessions, Freeze(s) PROVE Types'
  BY <1>4 DEF Freeze, Types
<1>5. ASSUME NEW r \in Requests, ServeRequest(r) PROVE Types'
  <2>1. CASE Get(r)
    BY <2>1 DEF Get, Query, Types, RequestStages
  <2>2. CASE Post(r)
    <3>1. frozen' = Nobody
      BY <2>2 DEF Post, Query
    <3> QED BY <2>2, <3>1, FailsType DEF Post, Types, RequestStages
  <2>3. CASE r \in Posts /\ Receive(r)
    <3>1. task' \in [Tasks -> TaskStages] /\ last' \in Tasks
      BY <2>3 DEF Receive, Spawn, Types, TaskStages, Tasks
    <3> QED BY <2>3, <3>1 DEF Receive, Spawn, Types, RequestStages
  <2>4. CASE Leave(r)
    BY <2>4 DEF Leave, Types, RequestStages
  <2>5. CASE Close(r)
    BY <2>5 DEF Close, Types, RequestStages
  <2> QED BY <1>5, <2>1, <2>2, <2>3, <2>4, <2>5 DEF ServeRequest
<1>6. ASSUME NEW t \in Tasks, ProcessTask(t) \/ Collect(t) PROVE Types'
  <2>1. CASE RecoverSend(t)
    BY <2>1 DEF RecoverSend, Spawn, Types, TaskStages
  <2>2. CASE Grant(t)
    BY <2>2 DEF Grant, Types, TaskStages
  <2>3. CASE Begin(t)
    <3>1. frozen' = Nobody /\ task' \in [Tasks -> TaskStages]
      BY <2>3 DEF Begin, Query, Types, TaskStages
    <3> QED BY <2>3, <3>1, FailsType DEF Begin, Types
  <2>4. CASE Finish(t)
    <3>1. task' \in [Tasks -> TaskStages]
      BY <2>4 DEF Finish, Types, TaskStages
    <3> QED BY <2>4, <3>1, FailsType DEF Finish, Types
  <2>5. CASE EndBackoff(t)
    BY <2>5, PoolAssumption DEF EndBackoff, Types, TaskStages
  <2>6. CASE Collect(t)
    BY <2>6 DEF Collect, Types
  <2> QED BY <1>6, <2>1, <2>2, <2>3, <2>4, <2>5, <2>6 DEF ProcessTask
<1>7. CASE UNCHANGED vars
  BY <1>7 DEF vars, Types
<1> QED BY <1>1, <1>2, <1>3, <1>4, <1>5, <1>6, <1>7 DEF Next

\* The pool never hands out more than it has and every stage keeps its type.
THEOREM TypeCorrect == Spec => []TypeOK
<1>1. Init => Types /\ PoolInv
  BY InitTypes
<1>2. Types /\ PoolInv /\ [Next]_vars => Types' /\ PoolInv'
  BY StepTypes, StepPool
<1>3. Types /\ PoolInv => TypeOK
  BY DEF Types, PoolInv, TypeOK
<1> QED BY <1>1, <1>2, <1>3, PTL DEF Spec

----------------------------------------------------------------------------
(* Who holds a connection: requests under way, recover_tasks, and the      *)
(* sessions of coroutines, of which one is at work and the others have met *)
(* an error.                                                               *)

Holders ==
  \A s \in inUse : \/ s \in InFlight
                   \/ s = Recovery /\ recovery \in {"sending", "raised"}
                   \/ \E t \in Tasks : s = Of(t)

OneOwner ==
  \A t, u \in Tasks : task[t] \in Owning /\ task[u] \in Owning => t = u

\* The loop waits for the session of a coroutine only while it starts an
\* attempt: TimeOut takes no coroutine from its work.
FrozenAsks == \A t \in Tasks : frozen = Of(t) => task[t] = "granted"

\* Only a coroutine that met an error keeps a connection it does not work with.
Keepers == \A t \in Tasks : Of(t) \in inUse => task[t] = "working" \/ MetAnError(t)

KeptByErrors == Cardinality(Kept) <= faults

\* A POST whose id is not received yet has no coroutine.
Unsent == \A r \in Posts : request[r] \in {"new", "sending"} => task[r] = "idle"

IInv ==
  /\ Types /\ PoolInv
  /\ Holders /\ OneOwner /\ FrozenAsks /\ Unsent /\ Keepers /\ KeptByErrors
  /\ IsFiniteSet(InFlight)

LEMMA StepHolders ==
  ASSUME Types, PoolInv, Holders, [Next]_vars
  PROVE  Holders'
<1>1. CASE Recover
  BY <1>1 DEF Recover, Query, Holders, InFlight
<1>2. CASE RecoverEnds
  BY <1>2 DEF RecoverEnds, Return, Holders, InFlight
<1>3. CASE TimeOut
  BY <1>3 DEF TimeOut, Holders, InFlight, Types
<1>4. ASSUME NEW r \in Requests, ServeRequest(r) PROVE Holders'
  <2>1. CASE Get(r)
    BY <2>1 DEF Get, Query, Holders, InFlight, Types
  <2>2. CASE Post(r)
    BY <2>2 DEF Post, Query, Holders, InFlight, Types
  <2>3. CASE Receive(r)
    BY <2>3 DEF Receive, Holders, InFlight, Types
  <2>4. CASE Leave(r)
    BY <2>4 DEF Leave, Holders, InFlight, Types
  <2>5. CASE Close(r)
    BY <2>5 DEF Close, Return, Holders, InFlight, Types
  <2> QED BY <1>4, <2>1, <2>2, <2>3, <2>4, <2>5 DEF ServeRequest
<1>5. ASSUME NEW t \in Tasks, ProcessTask(t) \/ Collect(t) PROVE Holders'
  <2>1. UNCHANGED <<request, recovery>>
    BY <1>5 DEF ProcessTask, RecoverSend, Grant, Begin, Finish, EndBackoff, Collect
  <2>2. inUse' \subseteq inUse \cup {Of(t)}
    BY <1>5 DEF ProcessTask, RecoverSend, Grant, Begin, Query, Finish, Return,
                EndBackoff, Collect
  <2> QED BY <2>1, <2>2 DEF Holders, InFlight
<1>6. ASSUME NEW s \in Sessions, Freeze(s) PROVE Holders'
  BY <1>6 DEF Freeze, Holders, InFlight
<1>7. CASE UNCHANGED vars
  BY <1>7 DEF vars, Holders, InFlight
<1> QED BY <1>1, <1>2, <1>3, <1>4, <1>5, <1>6, <1>7 DEF Next

LEMMA OfInjective ==
  ASSUME NEW t, NEW u, Of(t) = Of(u)
  PROVE  t = u
  BY DEF Of

LEMMA SessionsDiffer ==
  ASSUME NEW t \in Tasks
  PROVE  Of(t) \notin Requests \cup {Recovery, Nobody}
  BY PoolAssumption DEF Of, Tasks, Requests

\* A step that leaves the owners or takes one to another of their stages, or
\* moves one that is no owner.
LEMMA SameOwner ==
  ASSUME Types, OneOwner, task' \in [Tasks -> TaskStages],
         \A t \in Tasks : task'[t] \in Owning => task[t] \in Owning
  PROVE  OneOwner'
  BY DEF OneOwner

LEMMA StepOwner ==
  ASSUME Types, Types', OneOwner, FrozenAsks, [Next]_vars
  PROVE  OneOwner' /\ FrozenAsks'
<1>1. CASE TimeOut
  <2>1. ASSUME NEW t \in Tasks, task'[t] \in Owning PROVE task[t] \in Owning
    BY <1>1, <2>1 DEF TimeOut, Types, FrozenAsks, Owning
  <2>2. frozen' = Nobody
    BY <1>1 DEF TimeOut
  <2> QED BY <2>1, <2>2, SameOwner, SessionsDiffer DEF Types, FrozenAsks
<1>2. ASSUME NEW s \in Sessions, Freeze(s) PROVE OneOwner' /\ FrozenAsks'
  <2>1. ASSUME NEW t \in Tasks, s = Of(t) PROVE task[t] = "granted"
    <3>1. PICK u \in {v \in Tasks : task[v] = "granted"} : s = Of(u)
      BY <1>2, <2>1, SessionsDiffer DEF Freeze, Asking
    <3> QED BY <2>1, <3>1, OfInjective
  <2>2. frozen' = s /\ task' = task
    BY <1>2 DEF Freeze
  <2> QED BY <2>1, <2>2 DEF OneOwner, FrozenAsks
<1>3. CASE Recover \/ RecoverEnds \/ UNCHANGED vars
  <2>1. task' = task /\ frozen' \in {frozen, Nobody}
    BY <1>3 DEF Recover, Query, RecoverEnds, vars
  <2> QED BY <2>1, SessionsDiffer DEF OneOwner, FrozenAsks
<1>4. ASSUME NEW r \in Requests, ServeRequest(r) PROVE OneOwner' /\ FrozenAsks'
  <2>1. CASE Get(r) \/ Post(r) \/ Leave(r) \/ Close(r)
    <3>1. task' = task /\ frozen' \in {frozen, Nobody}
      BY <2>1 DEF Get, Post, Leave, Close, Query
    <3> QED BY <3>1, SessionsDiffer DEF OneOwner, FrozenAsks
  <2>2. CASE r \in Posts /\ Receive(r)
    <3>1. frozen' = Nobody /\ task' = [task EXCEPT ![r] = "waiting"]
      BY <2>2 DEF Receive, LoopRuns, Spawn
    <3>2. \A t \in Tasks : task'[t] \in Owning => task[t] \in Owning
      BY <3>1 DEF Owning, Types
    <3> QED BY <3>1, <3>2, SameOwner, SessionsDiffer DEF Types, FrozenAsks
  <2> QED BY <1>4, <2>1, <2>2 DEF ServeRequest
<1>5. ASSUME NEW t \in Tasks, ProcessTask(t) PROVE OneOwner' /\ FrozenAsks'
  <2>1. frozen' = Nobody
    BY <1>5 DEF ProcessTask, RecoverSend, Grant, Begin, Query, Finish, EndBackoff,
                Spawn, LoopRuns
  <2>2. CASE Grant(t)
    <3>1. \A u \in Tasks : task'[u] \in Owning => u = t
      BY <2>2 DEF Grant, Types
    <3> QED BY <2>1, <3>1, SessionsDiffer DEF OneOwner, FrozenAsks
  <2>3. CASE ~Grant(t)
    <3>1. \A u \in Tasks : task'[u] \in Owning => task[u] \in Owning
      BY <1>5, <2>3 DEF ProcessTask, RecoverSend, Spawn, Begin, Finish, EndBackoff,
                        Types, Owning
    <3> QED BY <2>1, <3>1, SameOwner, SessionsDiffer DEF Types, FrozenAsks
  <2> QED BY <2>2, <2>3
<1>6. ASSUME NEW t \in Tasks, Collect(t) PROVE OneOwner' /\ FrozenAsks'
  BY <1>6 DEF Collect, OneOwner, FrozenAsks
<1> QED BY <1>1, <1>2, <1>3, <1>4, <1>5, <1>6 DEF Next

LEMMA StepUnsent ==
  ASSUME Types, Types', FrozenAsks, Unsent, [Next]_vars
  PROVE  Unsent'
<1>1. CASE TimeOut
  <2>1. ASSUME NEW r \in Posts, request'[r] \in {"new", "sending"}
        PROVE  task'[r] = "idle"
    <3>1. task[r] = "idle" /\ r \in Requests /\ r \in Tasks
      BY <1>1, <2>1 DEF TimeOut, Types, Unsent, Requests, Tasks
    <3>2. Of(r) # frozen
      BY <3>1 DEF FrozenAsks
    <3> QED BY <1>1, <3>1, <3>2 DEF TimeOut
  <2> QED BY <2>1 DEF Unsent
<1>2. CASE Recover \/ RecoverEnds \/ UNCHANGED vars \/ \E s \in Sessions : Freeze(s)
  BY <1>2 DEF Recover, RecoverEnds, vars, Freeze, Unsent
<1>3. ASSUME NEW r \in Requests, ServeRequest(r) PROVE Unsent'
  <2>1. CASE Get(r) \/ Post(r) \/ Leave(r) \/ Close(r)
    <3>1. /\ task' = task
          /\ \A q \in Requests : request'[q] \in {"new", "sending"}
                                => request[q] \in {"new", "sending"}
      BY <2>1 DEF Get, Post, Leave, Close, Types
    <3> QED BY <3>1 DEF Unsent, Requests
  <2>2. CASE r \in Posts /\ Receive(r)
    BY <2>2 DEF Receive, Spawn, Unsent, Types
  <2> QED BY <1>3, <2>1, <2>2 DEF ServeRequest
<1>4. ASSUME NEW t \in Tasks, ProcessTask(t) \/ Collect(t) PROVE Unsent'
  <2>1. CASE RecoverSend(t)
    <3>1. t \notin Posts
      BY <2>1, PoolAssumption DEF RecoverSend
    <3> QED BY <2>1, <3>1 DEF RecoverSend, Spawn, Unsent, Types, Tasks
  <2>2. CASE ~RecoverSend(t)
    <3>1. /\ request' = request
          /\ \A u \in Tasks : task[u] = "idle" => task'[u] = "idle"
      BY <1>4, <2>2 DEF ProcessTask, Grant, Begin, Finish, EndBackoff, Collect, Types
    <3> QED BY <3>1 DEF Unsent, Tasks
  <2> QED BY <2>1, <2>2
<1> QED BY <1>1, <1>2, <1>3, <1>4 DEF Next

\* A coroutine comes to its first attempt without a connection, and leaves its
\* work with one only by an error.
LEMMA StepKeepers ==
  ASSUME Types, Types', FrozenAsks, Unsent, Keepers, [Next]_vars
  PROVE  Keepers'
<1>1. ASSUME inUse' \subseteq inUse \cup Requests \cup {Recovery},
             \A t \in Tasks : \/ task'[t] = task[t] /\ retries'[t] = retries[t]
                              \/ MetAnError(t)'
                              \/ ~MetAnError(t) /\ task[t] # "working"
      PROVE  Keepers'
  <2> SUFFICES ASSUME NEW t \in Tasks, Of(t) \in inUse'
               PROVE  (task[t] = "working" \/ MetAnError(t))'
    BY DEF Keepers
  <2>1. Of(t) \in inUse
    BY <1>1, SessionsDiffer
  <2>2. task[t] = "working" \/ MetAnError(t)
    BY <2>1 DEF Keepers
  <2>3. CASE task'[t] = task[t] /\ retries'[t] = retries[t]
    BY <2>2, <2>3 DEF MetAnError
  <2> QED BY <1>1, <2>2, <2>3
<1>2. CASE Recover \/ RecoverEnds \/ UNCHANGED vars \/ \E s \in Sessions : Freeze(s)
  BY <1>1, <1>2 DEF Recover, Query, RecoverEnds, Return, vars, Freeze
<1>3. CASE TimeOut
  BY <1>1, <1>3 DEF TimeOut, MetAnError, Types
<1>4. ASSUME NEW r \in Requests, ServeRequest(r) PROVE Keepers'
  <2>1. CASE Get(r) \/ Post(r) \/ Leave(r) \/ Close(r)
    BY <1>1, <2>1 DEF Get, Post, Query, Leave, Close, Return
  <2>2. CASE r \in Posts /\ Receive(r)
    <3>1. /\ task[r] = "idle" /\ task' = [task EXCEPT ![r] = "waiting"]
          /\ UNCHANGED <<inUse, retries>>
      BY <2>2 DEF Receive, Spawn, Unsent
    <3> QED BY <1>1, <3>1 DEF Types, MetAnError
  <2> QED BY <1>4, <2>1, <2>2 DEF ServeRequest
<1>5. ASSUME NEW t \in Tasks, ProcessTask(t) \/ Collect(t) PROVE Keepers'
  <2>1. CASE RecoverSend(t)
    <3>1. /\ task[t] = "idle" /\ task' = [task EXCEPT ![t] = "waiting"]
          /\ UNCHANGED <<inUse, retries>>
      BY <2>1 DEF RecoverSend, Spawn
    <3> QED BY <1>1, <3>1 DEF Types, MetAnError
  <2>2. CASE Grant(t)
    BY <2>2 DEF Grant, Keepers, MetAnError, Types
  <2>3. CASE Begin(t)
    <3>1. ASSUME NEW u \in Tasks \ {t}, Of(u) \in inUse' PROVE Of(u) \in inUse
      BY <2>3, <3>1, OfInjective DEF Begin, Query
    <3>2. task'[t] \in {"working", "backoff"} /\ UNCHANGED retries
      BY <2>3 DEF Begin, Types
    <3>3. \A u \in Tasks \ {t} : task'[u] = task[u]
      BY <2>3 DEF Begin, Types
    <3> QED BY <3>1, <3>2, <3>3 DEF Keepers, MetAnError
  <2>4. CASE Finish(t)
    <3>1. \A u \in Tasks \ {t} : task'[u] = task[u]
      BY <2>4 DEF Finish, Types
    <3>2. /\ Of(t) \in inUse' => task'[t] = "backoff"
          /\ inUse' \subseteq inUse /\ UNCHANGED retries
      BY <2>4 DEF Finish, Return, Types
    <3> QED BY <3>1, <3>2 DEF Keepers, MetAnError
  <2>5. CASE EndBackoff(t)
    <3>1. /\ \A u \in Tasks \ {t} : task'[u] = task[u] /\ retries'[u] = retries[u]
          /\ UNCHANGED inUse
      BY <2>5 DEF EndBackoff, Types
    <3>2. MetAnError(t)'
      BY <2>5, PoolAssumption DEF EndBackoff, Types, MetAnError
    <3> QED BY <3>1, <3>2 DEF Keepers, MetAnError
  <2>6. CASE Collect(t)
    BY <1>1, <2>6 DEF Collect, Return
  <2> QED BY <1>5, <2>1, <2>2, <2>3, <2>4, <2>5, <2>6 DEF ProcessTask
<1> QED BY <1>2, <1>3, <1>4, <1>5 DEF Next

\* Counting the sessions kept: a step adds none, or one with an error.
LEMMA KeptFinite ==
  ASSUME PoolInv
  PROVE  IsFiniteSet(Kept) /\ Cardinality(Kept) \in Nat
<1>1. Kept \subseteq inUse
  BY DEF Kept
<1> QED BY <1>1, FS_Subset, FS_CardinalityType DEF PoolInv

LEMMA NoneKept ==
  ASSUME Types, Types', PoolInv, KeptByErrors, Kept' \subseteq Kept, faults' \in {faults, faults + 1}
  PROVE  KeptByErrors'
<1>1. Cardinality(Kept') <= Cardinality(Kept) /\ Cardinality(Kept') \in Nat
  BY KeptFinite, FS_Subset, FS_CardinalityType
<1> QED BY <1>1, KeptFinite, PoolAssumption DEF KeptByErrors, Types

LEMMA OneKept ==
  ASSUME Types, Types', PoolInv, KeptByErrors, NEW x, Kept' \subseteq Kept \cup {x},
         faults' = faults + 1
  PROVE  KeptByErrors'
<1>1. /\ IsFiniteSet(Kept \cup {x})
      /\ Cardinality(Kept \cup {x}) <= Cardinality(Kept) + 1
  BY KeptFinite, OneMore
<1>2. Cardinality(Kept') <= Cardinality(Kept \cup {x}) /\ Cardinality(Kept') \in Nat
  BY <1>1, FS_Subset, FS_CardinalityType
<1>3. Cardinality(Kept \cup {x}) \in Nat
  BY <1>1, FS_CardinalityType
<1> QED BY <1>1, <1>2, <1>3, KeptFinite, PoolAssumption DEF KeptByErrors, Types

LEMMA StepKept ==
  ASSUME Types, Types', PoolInv, FrozenAsks, Unsent, KeptByErrors, [Next]_vars
  PROVE  KeptByErrors'
<1>1. ASSUME inUse' \subseteq inUse \cup Requests \cup {Recovery},
             \A t \in Tasks : task'[t] # "working" => task[t] # "working",
             faults' \in {faults, faults + 1}
      PROVE  KeptByErrors'
  <2>1. Kept' \subseteq Kept
    BY <1>1, SessionsDiffer DEF Kept
  <2> QED BY <1>1, <2>1, NoneKept
<1>2. CASE Recover \/ RecoverEnds \/ UNCHANGED vars \/ \E s \in Sessions : Freeze(s)
  BY <1>1, <1>2 DEF Recover, Query, Fails, RecoverEnds, Return, vars, Freeze
<1>3. CASE TimeOut
  <2>1. \A t \in Tasks : task'[t] # "working" => task[t] # "working"
    BY <1>3 DEF TimeOut, FrozenAsks
  <2> QED BY <1>1, <1>3, <2>1 DEF TimeOut
<1>4. ASSUME NEW r \in Requests, ServeRequest(r) PROVE KeptByErrors'
  <2>1. CASE Get(r) \/ Post(r) \/ Leave(r) \/ Close(r)
    BY <1>1, <2>1 DEF Get, Post, Query, Fails, Leave, Close, Return
  <2>2. CASE r \in Posts /\ Receive(r)
    <3>1. task[r] = "idle" /\ task' = [task EXCEPT ![r] = "waiting"]
      BY <2>2 DEF Receive, Spawn, Unsent
    <3>2. UNCHANGED <<inUse, faults>>
      BY <2>2 DEF Receive, Spawn
    <3> QED BY <1>1, <3>1, <3>2 DEF Types
  <2> QED BY <1>4, <2>1, <2>2 DEF ServeRequest
<1>5. ASSUME NEW t \in Tasks, ProcessTask(t) \/ Collect(t) PROVE KeptByErrors'
  <2>1. CASE RecoverSend(t) \/ Grant(t) \/ EndBackoff(t) \/ Collect(t)
    BY <1>1, <2>1 DEF RecoverSend, Spawn, Grant, EndBackoff, Collect, Return, Types
  <2>2. CASE Begin(t)
    <3>1. inUse' = inUse \cup {Of(t)}
      BY <2>2 DEF Begin, Query
    <3>2. CASE Fails
      <4>1. Kept' \subseteq Kept \cup {Of(t)}
        BY <2>2, <3>1 DEF Begin, Kept, Types
      <4> QED BY <3>2, <4>1, OneKept DEF Fails
    <3>3. CASE ~Fails
      <4>1. faults' = faults
        BY <2>2, <3>3 DEF Begin
      <4>2. Kept' \subseteq Kept
        <5>1. CASE task' = [task EXCEPT ![t] = "working"]
          BY <3>1, <5>1, OfInjective DEF Kept, Types
        <5>2. CASE Of(t) \in inUse /\ task' = [task EXCEPT ![t] = "backoff"]
          BY <2>2, <3>1, <5>2, OfInjective DEF Begin, Kept, Types
        <5> QED BY <2>2, <3>3, <5>1, <5>2 DEF Begin
      <4> QED BY <4>1, <4>2, NoneKept
    <3> QED BY <3>2, <3>3
  <2>3. CASE Finish(t)
    <3>1. CASE Return(Of(t)) /\ UNCHANGED faults /\ task' = [task EXCEPT ![t] = "done"]
      <4>1. Kept' \subseteq Kept
        BY <3>1 DEF Return, Kept, Types
      <4> QED BY <3>1, <4>1, NoneKept
    <3>2. CASE Fails /\ UNCHANGED inUse /\ task' = [task EXCEPT ![t] = "backoff"]
      <4>1. Kept' \subseteq Kept \cup {Of(t)}
        BY <3>2 DEF Kept, Types
      <4> QED BY <3>2, <4>1, OneKept DEF Fails
    <3> QED BY <2>3, <3>1, <3>2 DEF Finish
  <2> QED BY <1>5, <2>1, <2>2, <2>3 DEF ProcessTask
<1> QED BY <1>2, <1>3, <1>4, <1>5 DEF Next

LEMMA StepFlight ==
  ASSUME Types, IsFiniteSet(InFlight), [Next]_vars
  PROVE  IsFiniteSet(InFlight')
<1>1. ASSUME NEW x, InFlight' \subseteq InFlight \cup {x} PROVE IsFiniteSet(InFlight')
  BY <1>1, FS_AddElement, FS_Subset
<1>2. CASE TimeOut
  <2>1. InFlight' \subseteq InFlight \cup {frozen}
    BY <1>2 DEF TimeOut, InFlight
  <2> QED BY <1>1, <2>1
<1>3. ASSUME NEW r \in Requests, ServeRequest(r) PROVE IsFiniteSet(InFlight')
  <2>1. InFlight' \subseteq InFlight \cup {r}
    BY <1>3 DEF ServeRequest, Get, Post, Receive, Leave, Close, InFlight, Types
  <2> QED BY <1>1, <2>1
<1>4. CASE UNCHANGED request
  <2>1. InFlight' = InFlight
    BY <1>4 DEF InFlight
  <2> QED BY <2>1
<1> QED BY <1>2, <1>3, <1>4
        DEF Next, vars, Recover, RecoverEnds, Freeze, ProcessTask, RecoverSend, Grant,
            Begin, Finish, EndBackoff, Collect

----------------------------------------------------------------------------
(* The theorems.                                                           *)

LEMMA InitIInv == Init => IInv
<1> SUFFICES ASSUME Init PROVE IInv
  OBVIOUS
<1>1. Types /\ PoolInv
  BY InitTypes
<1>2. Holders /\ OneOwner /\ Unsent /\ FrozenAsks /\ Keepers
  BY SessionsDiffer DEF Init, Holders, Keepers, OneOwner, Owning, Unsent, FrozenAsks, Tasks, Requests
<1>3. Kept = {} /\ InFlight = {}
  BY DEF Init, Kept, InFlight
<1> QED BY <1>1, <1>2, <1>3, FS_EmptySet DEF IInv, KeptByErrors, Init

LEMMA Invariant == Spec => []IInv
<1>1. IInv /\ [Next]_vars => IInv'
  BY StepTypes, StepPool, StepHolders, StepOwner, StepUnsent, StepKeepers, StepKept, StepFlight DEF IInv
<1> QED BY <1>1, InitIInv, PTL DEF Spec

\* Connections in use are at work, or kept by coroutines that met an error, one
\* for every error.
THEOREM HeldByWork == Spec => []HeldByTheBusy
<1>1. ASSUME IInv PROVE HeldByTheBusy
  <2>1. \A s \in inUse : \/ s \in InFlight
                         \/ s = Recovery /\ recovery \in {"sending", "raised"}
                         \/ \E t \in Tasks : /\ s = Of(t)
                                             /\ task[t] = "working" \/ MetAnError(t)
    BY <1>1 DEF IInv, Holders, Keepers
  <2> QED BY <1>1, <2>1 DEF IInv, KeptByErrors, HeldByTheBusy
<1> QED BY <1>1, Invariant, PTL

\* The worker needs two connections and one for every error: if the loop waits
\* for one, requests under way hold the others, whatever the pool's size.
THEOREM FrozenByLoad == Spec => []FreezeNeedsLoad
<1>1. ASSUME IInv, Full PROVE Cardinality(InFlight) + faults + 2 >= PoolSize
  <2> DEFINE W == {s \in inUse : \E t \in Tasks : s = Of(t) /\ task[t] = "working"}
  <2>1. PICK x : W \subseteq {x}
    BY <1>1 DEF IInv, OneOwner, Owning
  <2> DEFINE A == InFlight \cup Kept
             B == A \cup {Recovery}
             C == B \cup {x}
  <2>2. inUse \subseteq C
    BY <1>1, <2>1 DEF IInv, Holders, Kept
  <2>3. /\ IsFiniteSet(A)
        /\ Cardinality(A) <= Cardinality(InFlight) + Cardinality(Kept)
        /\ Cardinality(A) \in Nat /\ Cardinality(InFlight) \in Nat
    <3>1. /\ IsFiniteSet(InFlight \cap Kept) /\ IsFiniteSet(A)
          /\ Cardinality(A) = Cardinality(InFlight) + Cardinality(Kept)
                                - Cardinality(InFlight \cap Kept)
      BY <1>1, KeptFinite, FS_Union, FS_Intersection DEF IInv
    <3>2. /\ Cardinality(InFlight \cap Kept) \in Nat /\ Cardinality(A) \in Nat
          /\ Cardinality(InFlight) \in Nat
      BY <1>1, <3>1, FS_CardinalityType DEF IInv
    <3> QED BY <1>1, <3>1, <3>2, KeptFinite DEF IInv
  <2>4. /\ IsFiniteSet(B) /\ Cardinality(B) <= Cardinality(A) + 1 /\ Cardinality(B) \in Nat
    BY <2>3, OneMore
  <2>5. /\ IsFiniteSet(C) /\ Cardinality(C) <= Cardinality(B) + 1 /\ Cardinality(C) \in Nat
    BY <2>4, OneMore
  <2>6. Cardinality(inUse) <= Cardinality(C) /\ Cardinality(inUse) \in Nat
    BY <2>2, <2>5, FS_Subset, FS_CardinalityType
  <2>7. Cardinality(Kept) <= faults /\ Cardinality(Kept) \in Nat
    BY <1>1, KeptFinite DEF IInv, KeptByErrors
  <2> QED BY <1>1, <2>3, <2>4, <2>5, <2>6, <2>7, PoolAssumption DEF Full, IInv, Types
<1>2. IInv => FreezeNeedsLoad
  BY <1>1 DEF FreezeNeedsLoad
<1> QED BY <1>2, Invariant, PTL

============================================================================
