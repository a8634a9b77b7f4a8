---------------------------- MODULE JobLockProofs ----------------------------
(***************************************************************************)
(* Theorems of JobLock, for any number of instances, ids, failing calls and *)
(* stops.                                                                  *)
(***************************************************************************)
EXTENDS JobLock, FiniteSetTheorems, TLAPS

----------------------------------------------------------------------------
\* A run has drawn an id, so the documents inserted and deleted have one.
Drawn == \A i \in Instances : run[i].at # "idle" => run[i].id \in Ids

IInv == TypeOK /\ Drawn

LEMMA Initially == Init => IInv
<1> SUFFICES ASSUME Init PROVE IInv
  OBVIOUS
<1>1. TypeOK
  BY ConstantsAssumption DEF Init, TypeOK, NotRunning, Run
<1>2. Drawn
  BY DEF Init, Drawn, NotRunning
<1> QED BY <1>1, <1>2 DEF IInv

\* An instance's run goes on as q and the locks become m.
LEMMA Goes ==
  ASSUME IInv, NEW i \in Instances, NEW q \in Run, q.at # "idle" => q.id \in Ids,
         run' = [run EXCEPT ![i] = q], locks' \in SUBSET Ids, drawn' \in SUBSET Ids,
         up' \in SUBSET Instances, faults' \in 0 .. MaxFaults, stops' \in 0 .. MaxStops
  PROVE  IInv'
<1>1. /\ run' \in [Instances -> Run] /\ run'[i] = q
      /\ \A j \in Instances : j # i => run'[j] = run[j]
  BY DEF IInv, TypeOK
<1>2. TypeOK'
  BY <1>1 DEF TypeOK
<1>3. Drawn'
  BY <1>1 DEF IInv, Drawn
<1> QED BY <1>2, <1>3 DEF IInv

LEMMA CallGoes ==
  ASSUME IInv, NEW i \in Instances, NEW m \in SUBSET Ids, NEW next \in Run, NEW failed \in Run,
         next.at # "idle" => next.id \in Ids, failed.at # "idle" => failed.id \in Ids,
         Call(i, m, next, failed)
  PROVE  IInv'
<1>1. /\ locks \in SUBSET Ids /\ faults \in 0 .. MaxFaults
      /\ drawn' \in SUBSET Ids /\ up' \in SUBSET Instances /\ stops' \in 0 .. MaxStops
  BY DEF Call, IInv, TypeOK
<1>2. CASE locks' = m /\ run' = [run EXCEPT ![i] = next] /\ UNCHANGED faults
  BY <1>1, <1>2, Goes
<1>3. CASE /\ faults < MaxFaults /\ faults' = faults + 1 /\ locks' \in {locks, m}
           /\ run' = [run EXCEPT ![i] = failed]
  <2>1. faults' \in 0 .. MaxFaults /\ locks' \in SUBSET Ids
    BY <1>1, <1>3, ConstantsAssumption
  <2> QED BY <1>1, <1>3, <2>1, Goes
<1> QED BY <1>2, <1>3 DEF Call

LEMMA Inductive == IInv /\ [Next]_vars => IInv'
<1> SUFFICES ASSUME IInv, [Next]_vars PROVE IInv'
  OBVIOUS
<1>0. NotRunning \in Run /\ NotRunning.at = "idle"
  BY DEF NotRunning, Run
<1>1. CASE Expire
  BY <1>1 DEF Expire, IInv, TypeOK, Drawn
<1>2. ASSUME NEW i \in Instances, Fire(i) PROVE IInv'
  <2>1. PICK id \in Ids \ drawn :
           /\ drawn' = drawn \cup {id}
           /\ run' = [run EXCEPT ![i] = [at |-> "insert", id |-> id]]
    BY <1>2 DEF Fire
  <2>2. [at |-> "insert", id |-> id] \in Run
    BY DEF Run
  <2>3. /\ locks' \in SUBSET Ids /\ up' \in SUBSET Instances
        /\ faults' \in 0 .. MaxFaults /\ stops' \in 0 .. MaxStops
        /\ drawn' \in SUBSET Ids
    BY <1>2, <2>1 DEF Fire, IInv, TypeOK
  <2> QED BY <2>1, <2>2, <2>3, Goes
<1>3. ASSUME NEW i \in Instances, Insert(i) PROVE IInv'
  <2>1. /\ run[i].at = "insert" /\ run[i] \in Run /\ run[i].id \in Ids
        /\ locks \in SUBSET Ids
    BY <1>3 DEF Insert, IInv, TypeOK, Drawn
  <2>2. PICK next, failed : /\ next = [run[i] EXCEPT !.at = "running"]
                            /\ failed = [run[i] EXCEPT !.at = "failed"]
    OBVIOUS
  <2>3. /\ next \in Run /\ failed \in Run
        /\ next.id \in Ids /\ failed.id \in Ids
        /\ locks \cup {run[i].id} \in SUBSET Ids
    BY <2>1, <2>2 DEF Run
  <2>4. Call(i, locks \cup {run[i].id}, next, failed)
    BY <1>3, <2>2 DEF Insert
  <2> QED BY <2>3, <2>4, CallGoes
<1>4. ASSUME NEW i \in Instances, Release(i) PROVE IInv'
  BY <1>0, <1>4, CallGoes DEF Release
<1>5. ASSUME NEW i \in Instances, Stop(i) PROVE IInv'
  <2>1. /\ stops' \in 0 .. MaxStops /\ up' \in SUBSET Instances
        /\ run' = [run EXCEPT ![i] = NotRunning]
        /\ drawn' \in SUBSET Ids /\ faults' \in 0 .. MaxFaults
    BY <1>5, ConstantsAssumption DEF Stop, IInv, TypeOK
  <2>2. locks \in SUBSET Ids /\ (run[i].at = "insert" => run[i].id \in Ids)
    BY DEF IInv, TypeOK, Drawn
  <2>3. locks' \in SUBSET Ids
    BY <1>5, <2>2 DEF Stop
  <2> QED BY <1>0, <2>1, <2>3, Goes
<1>6. ASSUME NEW i \in Instances, Restart(i) PROVE IInv'
  BY <1>6 DEF Restart, IInv, TypeOK, Drawn
<1>7. CASE UNCHANGED vars
  BY <1>7 DEF vars, IInv, TypeOK, Drawn
<1> QED BY <1>1, <1>2, <1>3, <1>4, <1>5, <1>6, <1>7 DEF Next

----------------------------------------------------------------------------
\* Every variable keeps its type: a lock is always that of an id some run has
\* drawn, also after a run that failed or was cut off.
THEOREM TypeCorrect == Spec => []TypeOK
<1>1. Init => IInv
  BY Initially
<1>2. IInv /\ [Next]_vars => IInv'
  BY Inductive
<1>3. IInv => TypeOK
  BY DEF IInv
<1> QED BY <1>1, <1>2, <1>3, PTL DEF Spec

----------------------------------------------------------------------------
(* The id of a run is its own.                                             *)

Live(i) == run[i].at # "idle"

OwnIds ==
  /\ locks \subseteq drawn
  /\ \A i \in Instances : Live(i) => run[i].id \in drawn
  /\ \A i \in Instances : run[i].at = "insert" => run[i].id \notin locks
  /\ \A i, j \in Instances : Live(i) /\ Live(j) /\ run[i].id = run[j].id => i = j

\* No run finds a document with its id, though other runs overlap it, calls are
\* answered late or not at all, and instances come and go.
NeverDuplicate ==
  \A i \in Instances : run[i].at = "insert" =>
     /\ run[i].id \notin locks
     /\ \A j \in Instances : Live(j) /\ run[j].id = run[i].id => j = i

\* A run keeps its id or is over, and only its insert may bring its id.
LEMMA RunGoes ==
  ASSUME TypeOK, OwnIds, NEW i \in Instances, NEW q, run' = [run EXCEPT ![i] = q],
         q.at = "idle" \/ (Live(i) /\ q.id = run[i].id /\ q.at # "insert"),
         UNCHANGED drawn, Live(i) \/ locks' \subseteq locks,
         locks' \subseteq locks \cup {run[i].id}
  PROVE  OwnIds'
<1>1. run'[i] = q /\ \A j \in Instances \ {i} : run'[j] = run[j]
  BY DEF TypeOK
<1>2. locks' \subseteq drawn'
  BY DEF OwnIds
<1>3. \A j \in Instances : Live(j)' => run'[j].id \in drawn'
  BY <1>1 DEF OwnIds, Live
<1>4. \A j \in Instances : run'[j].at = "insert" => run'[j].id \notin locks'
  BY <1>1 DEF OwnIds, Live
<1>5. \A j, k \in Instances : Live(j)' /\ Live(k)' /\ run'[j].id = run'[k].id => j = k
  BY <1>1 DEF OwnIds, Live
<1> QED BY <1>2, <1>3, <1>4, <1>5 DEF OwnIds

LEMMA OwnStep ==
  ASSUME IInv, OwnIds, [Next]_vars
  PROVE  OwnIds'
<1>0. TypeOK /\ NotRunning.at = "idle"
  BY DEF IInv, NotRunning
<1>1. CASE Expire
  BY <1>1 DEF Expire, OwnIds, Live
<1>2. ASSUME NEW i \in Instances, Fire(i) PROVE OwnIds'
  <2>1. PICK id \in Ids \ drawn :
           /\ drawn' = drawn \cup {id} /\ UNCHANGED locks
           /\ run' = [run EXCEPT ![i] = [at |-> "insert", id |-> id]]
    BY <1>2 DEF Fire
  <2>2. /\ run'[i].id = id /\ run'[i].at = "insert"
        /\ \A j \in Instances \ {i} : run'[j] = run[j]
    BY <1>0, <2>1 DEF TypeOK
  <2> QED BY <2>1, <2>2 DEF OwnIds, Live
<1>3. ASSUME NEW i \in Instances, Insert(i) PROVE OwnIds'
  <2>1. PICK q \in {[run[i] EXCEPT !.at = "running"], [run[i] EXCEPT !.at = "failed"]} :
           run' = [run EXCEPT ![i] = q]
    BY <1>3 DEF Insert, Call
  <2>2. q.id = run[i].id /\ q.at \in {"running", "failed"}
    BY <1>0, <2>1 DEF TypeOK, Run
  <2>3. Live(i) /\ UNCHANGED drawn /\ locks' \subseteq locks \cup {run[i].id}
    BY <1>3 DEF Insert, Call, Live
  <2> QED BY <1>0, <2>1, <2>2, <2>3, RunGoes
<1>4. ASSUME NEW i \in Instances, Release(i) PROVE OwnIds'
  <2>1. run' = [run EXCEPT ![i] = NotRunning] /\ UNCHANGED drawn /\ locks' \subseteq locks
    BY <1>4 DEF Release, Call
  <2> QED BY <1>0, <2>1, RunGoes
<1>5. ASSUME NEW i \in Instances, Stop(i) PROVE OwnIds'
  <2>1. /\ run' = [run EXCEPT ![i] = NotRunning] /\ UNCHANGED drawn
        /\ locks' \subseteq locks \cup {run[i].id}
        /\ run[i].at = "idle" => locks' \subseteq locks
    BY <1>5 DEF Stop
  <2> QED BY <1>0, <2>1, RunGoes DEF Live
<1>6. ASSUME NEW i \in Instances, Restart(i) PROVE OwnIds'
  BY <1>6 DEF Restart, OwnIds, Live
<1>7. CASE UNCHANGED vars
  BY <1>7 DEF vars, OwnIds, Live
<1> QED BY <1>1, <1>2, <1>3, <1>4, <1>5, <1>6, <1>7 DEF Next

\* DuplicateKeyError is never raised, and would not be with a unique index
\* either: the insert of a run never meets a document or a run with its id, so
\* the lock excludes nobody, whatever fails.
THEOREM InsertsNeverCollide == Spec => []NeverDuplicate
<1>1. Init => OwnIds
  BY DEF Init, OwnIds, Live, NotRunning
<1>2. Init => IInv
  BY Initially
<1>3. IInv /\ [Next]_vars => IInv'
  BY Inductive
<1>4. IInv /\ OwnIds /\ [Next]_vars => OwnIds'
  BY OwnStep
<1>5. OwnIds => NeverDuplicate
  BY DEF OwnIds, NeverDuplicate, Live
<1> QED BY <1>1, <1>2, <1>3, <1>4, <1>5, PTL DEF Spec

----------------------------------------------------------------------------
(* The locks that stay behind.                                             *)

LeftInv == IsFiniteSet(Leftover) /\ LeftByFailures

\* When the run of i moves, at most its own lock is left.
LEMMA LeavesItsOwn ==
  ASSUME TypeOK, NEW i \in Instances, NEW q, run' = [run EXCEPT ![i] = q],
         locks' \subseteq locks \cup {run[i].id}
  PROVE  /\ Leftover' \subseteq Leftover \cup {run[i].id}
         /\ q.id = run[i].id \/ run[i].id \notin locks' => Leftover' \subseteq Leftover
<1>1. run'[i] = q /\ \A j \in Instances \ {i} : run'[j] = run[j]
  BY DEF TypeOK
<1> QED BY <1>1 DEF Leftover

\* No step leaves a lock but by an error or a stop, and then one.
LEMMA LeavesOne ==
  ASSUME IInv, [Next]_vars
  PROVE  \/ UNCHANGED <<faults, stops>> /\ Leftover' \subseteq Leftover
         \/ /\ \/ faults' = faults + 1 /\ UNCHANGED stops
               \/ stops' = stops + 1 /\ UNCHANGED faults
            /\ \E x : Leftover' \subseteq Leftover \cup {x}
<1>0. TypeOK
  BY DEF IInv
<1>1. CASE Expire
  BY <1>1 DEF Expire, Leftover
<1>2. ASSUME NEW i \in Instances, Fire(i)
      PROVE  UNCHANGED <<faults, stops>> /\ Leftover' \subseteq Leftover
  <2>1. PICK q : run' = [run EXCEPT ![i] = q]
    BY <1>2 DEF Fire
  <2>2. UNCHANGED <<locks, faults, stops>> /\ run[i].id \notin locks
    BY <1>0, <1>2, ConstantsAssumption DEF Fire, NotRunning, TypeOK
  <2> QED BY <1>0, <2>1, <2>2, LeavesItsOwn
<1>3. ASSUME NEW i \in Instances, Insert(i)
      PROVE  /\ Leftover' \subseteq Leftover /\ UNCHANGED stops
             /\ faults' \in {faults, faults + 1}
  <2>1. PICK q \in {[run[i] EXCEPT !.at = "running"], [run[i] EXCEPT !.at = "failed"]} :
           run' = [run EXCEPT ![i] = q]
    BY <1>3 DEF Insert, Call
  <2>2. q.id = run[i].id
    BY <1>0, <2>1 DEF TypeOK, Run
  <2>3. /\ locks' \subseteq locks \cup {run[i].id} /\ UNCHANGED stops
        /\ faults' \in {faults, faults + 1}
    BY <1>3 DEF Insert, Call
  <2> QED BY <1>0, <2>1, <2>2, <2>3, LeavesItsOwn
<1>4. ASSUME NEW i \in Instances, Release(i)
      PROVE  \/ UNCHANGED <<faults, stops>> /\ Leftover' \subseteq Leftover
             \/ /\ faults' = faults + 1 /\ UNCHANGED stops
                /\ Leftover' \subseteq Leftover \cup {run[i].id}
  <2>1. run' = [run EXCEPT ![i] = NotRunning] /\ locks' \subseteq locks
    BY <1>4 DEF Release, Call
  <2>2. /\ UNCHANGED stops
        /\ \/ locks' = {} /\ UNCHANGED faults
           \/ faults' = faults + 1
    BY <1>4 DEF Release, Call
  <2>3. locks' = {} => Leftover' \subseteq Leftover
    BY DEF Leftover
  <2> QED BY <1>0, <2>1, <2>2, <2>3, LeavesItsOwn
<1>5. ASSUME NEW i \in Instances, Stop(i)
      PROVE  /\ stops' = stops + 1 /\ UNCHANGED faults
             /\ Leftover' \subseteq Leftover \cup {run[i].id}
  <2>1. /\ run' = [run EXCEPT ![i] = NotRunning]
        /\ locks' \subseteq locks \cup {run[i].id}
        /\ stops' = stops + 1 /\ UNCHANGED faults
    BY <1>5 DEF Stop
  <2> QED BY <1>0, <2>1, LeavesItsOwn
<1>6. ASSUME NEW i \in Instances, Restart(i)
      PROVE  UNCHANGED <<faults, stops>> /\ Leftover' \subseteq Leftover
  BY <1>6 DEF Restart, Leftover
<1>7. CASE UNCHANGED vars
  BY <1>7 DEF vars, Leftover
<1>8. ASSUME NEW i \in Instances, Insert(i)
      PROVE  \/ UNCHANGED <<faults, stops>> /\ Leftover' \subseteq Leftover
             \/ /\ faults' = faults + 1 /\ UNCHANGED stops
                /\ Leftover' \subseteq Leftover \cup {run[i].id}
  BY <1>3, <1>8
<1> QED BY <1>1, <1>2, <1>4, <1>5, <1>6, <1>7, <1>8 DEF Next

LEMMA LeftStep == IInv /\ LeftInv /\ [Next]_vars => LeftInv'
<1> SUFFICES ASSUME IInv, LeftInv, [Next]_vars PROVE LeftInv'
  OBVIOUS
<1>1. /\ IsFiniteSet(Leftover) /\ Cardinality(Leftover) <= faults + stops
      /\ Cardinality(Leftover) \in Nat /\ faults \in Nat /\ stops \in Nat
  BY FS_CardinalityType, ConstantsAssumption DEF LeftInv, LeftByFailures, IInv, TypeOK
<1>2. CASE UNCHANGED <<faults, stops>> /\ Leftover' \subseteq Leftover
  <2>1. IsFiniteSet(Leftover') /\ Cardinality(Leftover') <= Cardinality(Leftover)
    BY <1>1, <1>2, FS_Subset
  <2>2. Cardinality(Leftover') \in Nat
    BY <2>1, FS_CardinalityType
  <2> QED BY <1>1, <1>2, <2>1, <2>2 DEF LeftInv, LeftByFailures
<1>3. ASSUME NEW x, Leftover' \subseteq Leftover \cup {x},
             faults' + stops' = faults + stops + 1
      PROVE  LeftInv'
  <2>1. /\ IsFiniteSet(Leftover \cup {x})
        /\ Cardinality(Leftover \cup {x}) \in {Cardinality(Leftover), Cardinality(Leftover) + 1}
    BY <1>1, FS_AddElement
  <2>2. /\ IsFiniteSet(Leftover')
        /\ Cardinality(Leftover') <= Cardinality(Leftover \cup {x})
    BY <1>3, <2>1, FS_Subset
  <2>3. Cardinality(Leftover') \in Nat
    BY <2>2, FS_CardinalityType
  <2> QED BY <1>1, <1>3, <2>1, <2>2, <2>3 DEF LeftInv, LeftByFailures
<1>4. ASSUME \/ faults' = faults + 1 /\ UNCHANGED stops
             \/ stops' = stops + 1 /\ UNCHANGED faults
      PROVE  faults' + stops' = faults + stops + 1
  BY <1>1, <1>4
<1> QED BY <1>2, <1>3, <1>4, LeavesOne

\* As many locks stay behind as deletes failed and instances stopped in a run,
\* at most: each by itself, however the runs and the expiry fall together.
THEOREM FailuresLeaveOneLock == Spec => []LeftByFailures
<1>1. Init => IInv /\ LeftInv
  <2> SUFFICES ASSUME Init PROVE LeftInv
    BY Initially
  <2>1. Leftover = {} /\ faults = 0 /\ stops = 0
    BY DEF Init, Leftover
  <2> QED BY <2>1, FS_EmptySet DEF LeftInv, LeftByFailures
<1>2. IInv /\ [Next]_vars => IInv'
  BY Inductive
<1>3. IInv /\ LeftInv /\ [Next]_vars => LeftInv'
  BY LeftStep
<1>4. LeftInv => LeftByFailures
  BY DEF LeftInv
<1> QED BY <1>1, <1>2, <1>3, <1>4, PTL DEF Spec

============================================================================
