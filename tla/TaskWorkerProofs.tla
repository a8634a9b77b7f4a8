-------------------------- MODULE TaskWorkerProofs --------------------------
(***************************************************************************)
(* Theorems of TaskWorker, for every set of tasks and coroutines and every *)
(* value of the bounds.                                                    *)
(***************************************************************************)
EXTENDS TaskWorker, SequenceTheorems, FiniteSetTheorems, TLAPS

----------------------------------------------------------------------------
(* Sequences.                                                              *)

LEMMA AppendFact ==
  ASSUME NEW S, NEW s \in Seq(S), NEW x \in S
  PROVE  /\ Append(s, x) \in Seq(S)
         /\ DOMAIN s = 1 .. Len(s)
         /\ Len(s) \in Nat
         /\ DOMAIN Append(s, x) = 1 .. Len(s) + 1
         /\ \A i \in 1 .. Len(s) : Append(s, x)[i] = s[i]
         /\ Append(s, x)[Len(s) + 1] = x
  OBVIOUS

LEMMA TailFact ==
  ASSUME NEW S, NEW s \in Seq(S), s # <<>>
  PROVE  /\ Head(s) = s[1]
         /\ Head(s) \in S
         /\ Tail(s) \in Seq(S)
         /\ Len(s) \in Nat \ {0}
         /\ DOMAIN s = 1 .. Len(s)
         /\ DOMAIN Tail(s) = 1 .. Len(s) - 1
         /\ \A i \in 1 .. Len(s) - 1 : Tail(s)[i] = s[i + 1]
  OBVIOUS

----------------------------------------------------------------------------
(* Types.                                                                  *)

\* Changing a step, a broken flag or a retry count keeps a coroutine's type.
LEMMA ReleaseType ==
  ASSUME TypeOK, NEW p \in [Coroutines -> Proc], Release(p)
  PROVE  /\ proc' \in [Coroutines -> Proc]
         /\ permit' \in {0, 1}
         /\ waiters' \in Seq(Coroutines)
<1>1. CASE waiters = <<>>
  BY <1>1 DEF Release, TypeOK
<1>2. CASE waiters # <<>>
  <2>1. Head(waiters) \in Coroutines /\ Tail(waiters) \in Seq(Coroutines)
    BY <1>2, TailFact DEF TypeOK
  <2>2. [p EXCEPT ![Head(waiters)].pc = "granted"] \in [Coroutines -> Proc]
    BY <2>1 DEF Proc, Steps
  <2> QED BY <1>2, <2>1, <2>2 DEF Release, TypeOK
<1> QED BY <1>1, <1>2

LEMMA IdleType == Idle \in Proc
  BY ConstantsAssumption DEF Idle, Proc, Steps

LEMMA ReturnType ==
  ASSUME TypeOK, NEW c \in Coroutines, Return(c)
  PROVE  /\ proc' \in [Coroutines -> Proc]
         /\ permit' \in {0, 1}
         /\ waiters' \in Seq(Coroutines)
<1>1. [proc EXCEPT ![c] = Idle] \in [Coroutines -> Proc]
  BY IdleType DEF TypeOK
<1> QED BY <1>1, ReleaseType DEF Return

LEMMA UpdatedType ==
  ASSUME NEW row \in Row, NEW s \in RowStatus,
         NEW e \in BOOLEAN, NEW r \in BOOLEAN
  PROVE  Updated(row, s, e, r) \in Row
  BY DEF Updated, Row

\* The coroutine backs off, the rows are the ones committed before the error:
\* the branch that marks the task FAILED cannot be taken.
LEMMA HandleErrorEffect ==
  ASSUME TypeOK, NEW c \in Coroutines, NEW r, NEW brk \in BOOLEAN,
         HandleError(c, r, brk)
  PROVE  /\ rows' = r
         /\ proc' = [proc EXCEPT ![c].pc = "backoff", ![c].broken = brk]
         /\ proc' \in [Coroutines -> Proc]
         /\ UNCHANGED <<phase, recovering, senders, permit, waiters, restarts>>
<1>1. proc[c].retries < MaxRetries
  BY ConstantsAssumption DEF TypeOK, Proc
<1>2. [proc EXCEPT ![c].pc = "backoff", ![c].broken = brk] \in [Coroutines -> Proc]
  BY DEF TypeOK, Proc, Steps
<1> QED BY <1>1, <1>2 DEF HandleError

LEMMA SetStatusType ==
  ASSUME TypeOK, NEW t, NEW s \in RowStatus, NEW e \in BOOLEAN, NEW r \in BOOLEAN
  PROVE  [rows EXCEPT ![t] = Updated(@, s, e, r)] \in [Tasks -> Row]
<1>1. CASE t \in Tasks
  <2>1. Updated(rows[t], s, e, r) \in Row
    BY <1>1, UpdatedType DEF TypeOK
  <2> QED BY <2>1 DEF TypeOK
<1>2. CASE t \notin Tasks
  BY <1>2 DEF TypeOK
<1> QED BY <1>1, <1>2

LEMMA InProgressType ==
  ASSUME TypeOK, NEW t
  PROVE  InProgress(t) \in [Tasks -> Row]
  BY SetStatusType DEF InProgress, RowStatus, TaskStatus

LEMMA DatabaseErrorType ==
  ASSUME TypeOK, DatabaseError
  PROVE  faults' \in 0 .. MaxFaults /\ faults' # 0
  BY ConstantsAssumption DEF TypeOK, DatabaseError

LEMMA ForgetType ==
  ASSUME Forget
  PROVE  /\ recovering' \in SUBSET Tasks
         /\ senders' \in Seq(Sends)
         /\ proc' \in [Coroutines -> Proc]
         /\ permit' \in {0, 1}
         /\ waiters' \in Seq(Coroutines)
  BY IdleType DEF Forget

LEMMA InitType == Init => TypeOK
  BY IdleType, ConstantsAssumption
  DEF Init, TypeOK, Blank, Row, RowStatus, TaskStatus, Phases

LEMMA NextType == TypeOK /\ [Next]_vars => TypeOK'
<1> SUFFICES ASSUME TypeOK, [Next]_vars PROVE TypeOK'
  OBVIOUS
<1>1. CASE UNCHANGED vars
  BY <1>1 DEF TypeOK, vars, memory
<1>2. CASE Start
  BY <1>2 DEF TypeOK, Start, Phases
<1>3. CASE StartHeadless
  BY <1>3, DatabaseErrorType DEF TypeOK, StartHeadless, memory, Phases
<1>4. CASE RecoverSend
  <2>1. PICK t \in recovering : /\ Send(t, "recover_tasks")
                                /\ recovering' = recovering \ {t}
    BY <1>4 DEF RecoverSend
  <2>2. [task |-> t, by |-> "recover_tasks"] \in Sends
    BY DEF TypeOK, Sends
  <2>3. senders' \in Seq(Sends)
    BY <2>1, <2>2, AppendFact DEF TypeOK, Send
  <2> QED BY <1>4, <2>1, <2>3 DEF TypeOK, RecoverSend
<1>5. CASE Stop
  <2>1. proc' \in [Coroutines -> Proc]
    BY <1>5, IdleType DEF TypeOK, Stop
  <2> QED BY <1>5, <2>1, ConstantsAssumption DEF TypeOK, Stop, Phases
<1>6. CASE Exit
  BY <1>6, ForgetType DEF TypeOK, Exit, Phases
<1>7. CASE Crash
  BY <1>7, ForgetType, ConstantsAssumption DEF TypeOK, Crash, Phases
<1>8. ASSUME NEW t \in Tasks, Enqueue(t) PROVE TypeOK'
  <2>1. [task |-> t, by |-> "request"] \in Sends
    BY DEF Sends
  <2>2. senders' \in Seq(Sends)
    BY <1>8, <2>1, AppendFact DEF TypeOK, Enqueue, Send
  <2>3. rows' \in [Tasks -> Row]
    BY <1>8 DEF TypeOK, Enqueue, Blank, Row, RowStatus, TaskStatus
  <2> QED BY <1>8, <2>2, <2>3 DEF TypeOK, Enqueue
<1>9. ASSUME NEW t \in Tasks, EnqueueUnsent(t) PROVE TypeOK'
  <2>1. rows' \in [Tasks -> Row]
    BY <1>9 DEF TypeOK, EnqueueUnsent, Blank, Row, RowStatus, TaskStatus
  <2> QED BY <1>9, <2>1, DatabaseErrorType DEF TypeOK, EnqueueUnsent, memory
<1>10. ASSUME NEW s \in CleanupStatuses, Cleanup(s) PROVE TypeOK'
  <2>1. rows' \in [Tasks -> Row]
    BY <1>10 DEF TypeOK, Cleanup, Blank, Row, RowStatus, TaskStatus
  <2> QED BY <1>10, <2>1 DEF TypeOK, Cleanup, memory
<1>11. ASSUME NEW c \in Coroutines, Receive(c) PROVE TypeOK'
  <2>1. /\ Head(senders) \in Sends
        /\ senders' \in Seq(Sends)
    BY <1>11, TailFact DEF TypeOK, Receive
  <2>2. [Idle EXCEPT !.task = Head(senders).task, !.pc = "spawned"] \in Proc
    BY <2>1, IdleType DEF Proc, Idle, Steps, Sends
  <2>3. proc' \in [Coroutines -> Proc]
    BY <1>11, <2>2 DEF TypeOK, Receive
  <2> QED BY <1>11, <2>1, <2>3 DEF TypeOK, Receive
<1>12. ASSUME NEW c \in Coroutines, ProcessTask(c) PROVE TypeOK'
  <2>1. CASE Acquire(c)
    <3>1. /\ [proc EXCEPT ![c].pc = "granted"] \in [Coroutines -> Proc]
          /\ [proc EXCEPT ![c].pc = "waiting"] \in [Coroutines -> Proc]
      BY DEF TypeOK, Proc, Steps
    <3>2. Append(waiters, c) \in Seq(Coroutines)
      BY AppendFact DEF TypeOK
    <3> QED BY <2>1, <3>1, <3>2 DEF TypeOK, Acquire
  <2>2. CASE Begin(c)
    <3>1. [proc EXCEPT ![c].pc = "working"] \in [Coroutines -> Proc]
      BY DEF TypeOK, Proc, Steps
    <3>2. CASE Exists(proc[c].task)
      BY <2>2, <3>1, <3>2, InProgressType DEF TypeOK, Begin
    <3>3. CASE ~Exists(proc[c].task)
      BY <2>2, <3>3, ReturnType DEF TypeOK, Begin
    <3> QED BY <3>2, <3>3
  <2>3. CASE Finish(c)
    <3>1. rows' \in [Tasks -> Row]
      BY <2>3, SetStatusType DEF Finish, SetStatus, RowStatus, TaskStatus
    <3> QED BY <2>3, <3>1, ReturnType DEF TypeOK, Finish
  <2>4. CASE EndBackoff(c)
    <3>1. CASE proc[c].retries + 1 = MaxRetries
      BY <2>4, <3>1, ReturnType DEF TypeOK, EndBackoff, LastAttempt, NextAttempt
    <3>2. CASE proc[c].retries + 1 # MaxRetries
      <4> DEFINE again == [proc[c] EXCEPT !.retries = @ + 1]
      <4>0. /\ proc[c] \in Proc
            /\ proc[c].retries + 1 \in 0 .. MaxRetries - 1
        BY <3>2, ConstantsAssumption DEF TypeOK, Proc
      <4>1. again \in Proc
        BY <4>0 DEF Proc
      <4>2. [again EXCEPT !.pc = "granted"] \in Proc /\ [again EXCEPT !.pc = "waiting"] \in Proc
        BY <4>1 DEF Proc, Steps
      <4>3. CASE waiters = <<>>
        BY <2>4, <3>2, <4>2, <4>3 DEF TypeOK, EndBackoff, LastAttempt, NextAttempt
      <4>4. CASE waiters # <<>>
        <5>1. Head(waiters) \in Coroutines /\ Tail(waiters) \in Seq(Coroutines)
          BY <4>4, TailFact DEF TypeOK
        <5>2. waiters' = Append(Tail(waiters), c)
          BY <2>4, <3>2, <4>4 DEF EndBackoff, LastAttempt, NextAttempt
        <5>3. waiters' \in Seq(Coroutines)
          BY <5>1, <5>2, AppendFact
        <5> DEFINE p == [proc EXCEPT ![c] = [again EXCEPT !.pc = "waiting"]]
        <5>4. proc' = [p EXCEPT ![Head(waiters)].pc = "granted"]
          BY <2>4, <3>2, <4>4 DEF EndBackoff, LastAttempt, NextAttempt
        <5>5. p \in [Coroutines -> Proc]
          BY <4>2 DEF TypeOK
        <5>6. proc' \in [Coroutines -> Proc]
          BY <5>1, <5>4, <5>5 DEF Proc, Steps
        <5> QED BY <2>4, <3>2, <4>4, <5>3, <5>6 DEF TypeOK, EndBackoff, LastAttempt, NextAttempt
      <4> QED BY <4>3, <4>4
    <3> QED BY <3>1, <3>2
  <2>5. CASE SessionRefuses(c)
    BY <2>5, HandleErrorEffect DEF TypeOK, SessionRefuses
  <2>6. CASE LookupFails(c)
    BY <2>6, HandleErrorEffect, DatabaseErrorType DEF TypeOK, LookupFails
  <2>7. CASE BeginCommitFails(c)
    BY <2>7, HandleErrorEffect, DatabaseErrorType DEF TypeOK, BeginCommitFails
  <2>8. CASE WorkLookupFails(c)
    <3>1. HandleError(c, InProgress(proc[c].task), FALSE) /\ DatabaseError
      BY <2>8 DEF WorkLookupFails
    <3>2. /\ rows' = InProgress(proc[c].task)
          /\ proc' \in [Coroutines -> Proc]
          /\ UNCHANGED <<phase, recovering, senders, permit, waiters, restarts>>
      BY <3>1, HandleErrorEffect
    <3>3. rows' \in [Tasks -> Row]
      BY <3>2, InProgressType
    <3> QED BY <3>1, <3>2, <3>3, DatabaseErrorType DEF TypeOK
  <2>9. CASE FinishCommitFails(c)
    BY <2>9, HandleErrorEffect, DatabaseErrorType DEF TypeOK, FinishCommitFails
  <2>10. CASE StopWork(c)
    <3>1. [rows EXCEPT ![proc[c].task] = Updated(@, "cancelled", TRUE, FALSE)]
             \in [Tasks -> Row]
      BY SetStatusType DEF RowStatus, TaskStatus
    <3>2. rows' \in [Tasks -> Row]
      BY <2>10, <3>1 DEF TypeOK, StopWork, SetStatus
    <3> QED BY <2>10, <3>2, ReturnType DEF TypeOK, StopWork
  <2>11. CASE StopWorkFails(c)
    BY <2>11, ReturnType, DatabaseErrorType DEF TypeOK, StopWorkFails
  <2>12. CASE StopBackoff(c)
    BY <2>12, ReturnType DEF TypeOK, StopBackoff
  <2> QED BY <1>12, <2>1, <2>2, <2>3, <2>4, <2>5, <2>6, <2>7, <2>8, <2>9,
             <2>10, <2>11, <2>12 DEF ProcessTask
<1> QED BY <1>1, <1>2, <1>3, <1>4, <1>5, <1>6, <1>7, <1>8, <1>9, <1>10, <1>11,
           <1>12 DEF Next

\* Every behaviour is type correct; in particular the retry counter of a
\* coroutine stays below max_retries, for every value of it.
THEOREM TypeCorrect == Spec => []TypeOK
<1> QED BY InitType, NextType, PTL DEF Spec

----------------------------------------------------------------------------
(* The semaphore.                                                          *)

\* Who queues on the semaphore waits for it, and queues once.
WaitersWait ==
  /\ \A i \in DOMAIN waiters : proc[waiters[i]].pc = "waiting"
  /\ \A i, j \in DOMAIN waiters : waiters[i] = waiters[j] => i = j

SemaphoreInv == PermitConserved /\ WaitersWait

\* A step that moves a coroutine neither to nor from the semaphore.
LEMMA SemaphoreKept ==
  ASSUME TypeOK, TypeOK', SemaphoreInv, UNCHANGED <<permit, waiters>>,
         \A c \in Coroutines : /\ Holding(c)' <=> Holding(c)
                               /\ proc[c].pc = "waiting" => proc'[c].pc = "waiting"
  PROVE  SemaphoreInv'
<1>1. WaitersWait'
  BY DEF SemaphoreInv, WaitersWait, TypeOK
<1>2. PermitConserved'
  BY DEF SemaphoreInv, PermitConserved
<1> QED BY <1>1, <1>2 DEF SemaphoreInv

\* The owner leaves and does not queue up again.
LEMMA SemaphoreReleased ==
  ASSUME TypeOK, SemaphoreInv, NEW c \in Coroutines, Holding(c), Return(c)
  PROVE  /\ SemaphoreInv'
         /\ proc' \in [Coroutines -> Proc]
         /\ proc'[c] = Idle
         /\ \A d \in Coroutines \ {c} :
               /\ proc'[d].task = proc[d].task
               /\ proc'[d].broken = proc[d].broken
               /\ \/ proc'[d].pc = proc[d].pc
                  \/ proc[d].pc = "waiting" /\ proc'[d].pc = "granted"
<1>0. /\ proc' \in [Coroutines -> Proc]
      /\ permit = 0
      /\ \A d \in Coroutines : Holding(d) => d = c
  BY ReturnType DEF TypeOK, SemaphoreInv, PermitConserved
<1>1. CASE waiters = <<>>
  <2>1. proc' = [proc EXCEPT ![c] = Idle] /\ permit' = 1 /\ waiters' = <<>>
    BY <1>1 DEF Return, Release
  <2>2. \A d \in Coroutines : proc'[d] = IF d = c THEN Idle ELSE proc[d]
    BY <2>1 DEF TypeOK
  <2>3. PermitConserved'
    BY <1>0, <2>1, <2>2 DEF PermitConserved, Holding, Idle
  <2>4. WaitersWait'
    BY <2>1 DEF WaitersWait
  <2> QED BY <1>0, <2>2, <2>3, <2>4 DEF SemaphoreInv
<1>2. CASE waiters # <<>>
  <2> DEFINE h == Head(waiters)
  <2>1. /\ h \in Coroutines
        /\ h = waiters[1]
        /\ 1 \in DOMAIN waiters
        /\ DOMAIN Tail(waiters) = 1 .. Len(waiters) - 1
        /\ DOMAIN waiters = 1 .. Len(waiters)
        /\ Len(waiters) \in Nat \ {0}
        /\ \A i \in 1 .. Len(waiters) - 1 : Tail(waiters)[i] = waiters[i + 1]
        /\ \A i \in 1 .. Len(waiters) : waiters[i] \in Coroutines
    BY <1>2, TailFact DEF TypeOK
  <2>2. proc[h].pc = "waiting" /\ h # c
    BY <2>1 DEF SemaphoreInv, WaitersWait, Holding
  <2>3. /\ proc' = [[proc EXCEPT ![c] = Idle] EXCEPT ![h].pc = "granted"]
        /\ waiters' = Tail(waiters)
        /\ permit' = 0
    BY <1>0, <1>2 DEF Return, Release
  <2>4. /\ proc'[c] = Idle
        /\ proc'[h] = [proc[h] EXCEPT !.pc = "granted"]
        /\ \A d \in Coroutines \ {c, h} : proc'[d] = proc[d]
    BY <2>1, <2>2, <2>3 DEF TypeOK
  <2>5. /\ proc'[h].task = proc[h].task
        /\ proc'[h].broken = proc[h].broken
        /\ proc'[h].pc = "granted"
    BY <2>1, <2>4 DEF TypeOK, Proc
  <2>6. PermitConserved'
    BY <1>0, <2>1, <2>3, <2>4, <2>5 DEF PermitConserved, Holding, Idle
  <2>7. ASSUME NEW i \in DOMAIN waiters'
        PROVE  proc'[waiters'[i]].pc = "waiting"
    <3>1. i + 1 \in DOMAIN waiters /\ waiters'[i] = waiters[i + 1] /\ i + 1 # 1
      BY <2>1, <2>3, <2>7
    <3>2. waiters[i + 1] # h /\ proc[waiters[i + 1]].pc = "waiting"
      BY <2>1, <3>1 DEF SemaphoreInv, WaitersWait
    <3>3. waiters[i + 1] # c /\ waiters[i + 1] \in Coroutines
      BY <2>1, <3>1, <3>2 DEF Holding
    <3> QED BY <2>4, <3>1, <3>2, <3>3
  <2>8. ASSUME NEW i \in DOMAIN waiters', NEW j \in DOMAIN waiters',
               waiters'[i] = waiters'[j]
        PROVE  i = j
    <3>1. /\ i \in Int /\ j \in Int
          /\ i + 1 \in DOMAIN waiters /\ j + 1 \in DOMAIN waiters
          /\ waiters[i + 1] = waiters[j + 1]
      BY <2>1, <2>3, <2>8
    <3> QED BY <3>1 DEF SemaphoreInv, WaitersWait
  <2> QED BY <1>0, <2>2, <2>4, <2>5, <2>6, <2>7, <2>8 DEF SemaphoreInv, WaitersWait
<1> QED BY <1>1, <1>2


\* The first acquire of a coroutine.
LEMMA SemaphoreAcquired ==
  ASSUME TypeOK, SemaphoreInv, NEW c \in Coroutines, Acquire(c)
  PROVE  /\ SemaphoreInv'
         /\ proc'[c].pc \in {"granted", "waiting"}
         /\ proc'[c].task = proc[c].task
         /\ proc'[c].broken = proc[c].broken
         /\ \A d \in Coroutines \ {c} : proc'[d] = proc[d]
<1>1. CASE permit = 1 /\ waiters = <<>>
  <2>1. /\ permit' = 0
        /\ waiters' = <<>>
        /\ proc' = [proc EXCEPT ![c].pc = "granted"]
    BY <1>1 DEF Acquire
  <2>2. /\ proc'[c].pc = "granted"
        /\ proc'[c].task = proc[c].task
        /\ proc'[c].broken = proc[c].broken
        /\ \A d \in Coroutines \ {c} : proc'[d] = proc[d]
    BY <2>1 DEF TypeOK, Proc
  <2>3. PermitConserved'
    BY <1>1, <2>1, <2>2 DEF SemaphoreInv, PermitConserved, Holding
  <2>4. WaitersWait'
    BY <2>1 DEF WaitersWait
  <2> QED BY <2>2, <2>3, <2>4 DEF SemaphoreInv
<1>2. CASE ~(permit = 1 /\ waiters = <<>>)
  <2>1. /\ proc[c].pc = "spawned"
        /\ permit' = permit
        /\ waiters' = Append(waiters, c)
        /\ proc' = [proc EXCEPT ![c].pc = "waiting"]
    BY <1>2 DEF Acquire
  <2>2. /\ proc'[c].pc = "waiting"
        /\ proc'[c].task = proc[c].task
        /\ proc'[c].broken = proc[c].broken
        /\ \A d \in Coroutines \ {c} : proc'[d] = proc[d]
    BY <2>1 DEF TypeOK, Proc
  <2>3. permit = 0
    BY <1>2 DEF TypeOK, SemaphoreInv, PermitConserved
  <2>4. PermitConserved'
    BY <2>1, <2>2, <2>3 DEF SemaphoreInv, PermitConserved, Holding
  <2>5. /\ DOMAIN waiters = 1 .. Len(waiters)
        /\ Len(waiters) \in Nat
        /\ DOMAIN waiters' = 1 .. Len(waiters) + 1
        /\ \A i \in 1 .. Len(waiters) : waiters'[i] = waiters[i] /\ waiters[i] \in Coroutines
        /\ waiters'[Len(waiters) + 1] = c
    BY <2>1, AppendFact DEF TypeOK
  <2>6. \A i \in 1 .. Len(waiters) : waiters[i] # c /\ proc[waiters[i]].pc = "waiting"
    BY <2>1, <2>5 DEF SemaphoreInv, WaitersWait
  <2>7. WaitersWait'
    BY <2>2, <2>5, <2>6 DEF SemaphoreInv, WaitersWait
  <2> QED BY <2>2, <2>4, <2>7 DEF SemaphoreInv
<1> QED BY <1>1, <1>2

\* The owner backs off from a failed attempt and queues up for the next one:
\* behind the waiting coroutines, or first when there are none.
LEMMA SemaphoreRequeued ==
  ASSUME TypeOK, SemaphoreInv, NEW c \in Coroutines, EndBackoff(c),
         proc[c].retries + 1 # MaxRetries
  PROVE  /\ SemaphoreInv'
         /\ \A d \in Coroutines : /\ proc'[d].task = proc[d].task
                                  /\ proc'[d].broken = proc[d].broken
                                  /\ \/ proc'[d].pc = proc[d].pc
                                     \/ /\ proc[d].pc \in {"waiting", "backoff"}
                                        /\ proc'[d].pc \in {"waiting", "granted"}
<1> DEFINE again == [proc[c] EXCEPT !.retries = @ + 1]
<1>1. /\ again.task = proc[c].task
      /\ again.broken = proc[c].broken
      /\ proc[c].pc = "backoff"
      /\ [again EXCEPT !.pc = "granted"].task = proc[c].task
      /\ [again EXCEPT !.pc = "granted"].broken = proc[c].broken
      /\ [again EXCEPT !.pc = "granted"].pc = "granted"
      /\ [again EXCEPT !.pc = "waiting"].task = proc[c].task
      /\ [again EXCEPT !.pc = "waiting"].broken = proc[c].broken
      /\ [again EXCEPT !.pc = "waiting"].pc = "waiting"
  BY DEF TypeOK, Proc, EndBackoff, LastAttempt, NextAttempt
<1>2. permit = 0 /\ \A d \in Coroutines : Holding(d) => d = c
  BY <1>1 DEF TypeOK, SemaphoreInv, PermitConserved, Holding
<1>3. CASE waiters = <<>>
  <2>1. /\ proc' = [proc EXCEPT ![c] = [again EXCEPT !.pc = "granted"]]
        /\ permit' = 0 /\ waiters' = <<>>
    BY <1>2, <1>3 DEF EndBackoff, LastAttempt, NextAttempt
  <2> HIDE DEF again
  <2>2. /\ proc'[c] = [again EXCEPT !.pc = "granted"]
        /\ \A d \in Coroutines \ {c} : proc'[d] = proc[d]
    BY <2>1 DEF TypeOK
  <2>3. PermitConserved'
    BY <1>1, <1>2, <2>1, <2>2 DEF PermitConserved, Holding
  <2>4. WaitersWait'
    BY <2>1 DEF WaitersWait
  <2> QED BY <1>1, <2>2, <2>3, <2>4 DEF SemaphoreInv
<1>4. CASE waiters # <<>>
  <2> DEFINE h == Head(waiters)
             tl == Tail(waiters)
             n == Len(waiters)
  <2>1. /\ h \in Coroutines
        /\ h = waiters[1]
        /\ tl \in Seq(Coroutines)
        /\ DOMAIN tl = 1 .. n - 1
        /\ DOMAIN waiters = 1 .. n
        /\ n \in Nat \ {0}
        /\ \A i \in 1 .. n - 1 : tl[i] = waiters[i + 1]
        /\ \A i \in 1 .. n : waiters[i] \in Coroutines
    BY <1>4, TailFact DEF TypeOK
  <2>2. proc[h].pc = "waiting" /\ h # c
    BY <1>1, <2>1 DEF SemaphoreInv, WaitersWait
  <2>3. /\ proc' = [proc EXCEPT ![c] = [again EXCEPT !.pc = "waiting"],
                                ![h].pc = "granted"]
        /\ waiters' = Append(tl, c)
        /\ permit' = 0
    BY <1>2, <1>4 DEF EndBackoff, LastAttempt, NextAttempt
  <2>4. /\ DOMAIN waiters' = 1 .. n
        /\ \A i \in 1 .. n - 1 : waiters'[i] = waiters[i + 1]
        /\ waiters'[n] = c
    <3>1. Len(tl) = n - 1
      BY <2>1, AppendFact
    <3> HIDE DEF tl, n
    <3> QED BY <2>1, <2>3, <3>1, AppendFact
  <2> HIDE DEF again, tl, n
  <2>5. /\ proc'[c] = [again EXCEPT !.pc = "waiting"]
        /\ proc'[h] = [proc[h] EXCEPT !.pc = "granted"]
        /\ \A d \in Coroutines \ {c, h} : proc'[d] = proc[d]
    BY <2>1, <2>2, <2>3 DEF TypeOK
  <2>6. /\ proc'[h].task = proc[h].task
        /\ proc'[h].broken = proc[h].broken
        /\ proc'[h].pc = "granted"
        /\ proc'[c].task = proc[c].task
        /\ proc'[c].broken = proc[c].broken
        /\ proc'[c].pc = "waiting"
        /\ \A d \in Coroutines \ {c, h} : proc'[d] = proc[d]
    BY <1>1, <2>1, <2>5 DEF TypeOK, Proc
  <2>7. h \in Coroutines /\ permit' = 0
    BY <2>1, <2>3
  <2> HIDE DEF h
  <2>8. PermitConserved'
    BY <1>2, <2>7, <2>2, <2>6 DEF PermitConserved, Holding
  <2>9. \A i \in 1 .. n - 1 :
           /\ waiters'[i] \in Coroutines \ {c, h}
           /\ proc[waiters'[i]].pc = "waiting"
    <3> SUFFICES ASSUME NEW i \in 1 .. n - 1
                 PROVE  /\ waiters'[i] \in Coroutines \ {c, h}
                        /\ proc[waiters'[i]].pc = "waiting"
      OBVIOUS
    <3>1. /\ i + 1 \in 1 .. n /\ 1 \in 1 .. n /\ i + 1 # 1
          /\ waiters'[i] = waiters[i + 1]
      BY <2>1, <2>4
    <3>2. proc[waiters[i + 1]].pc = "waiting" /\ waiters[i + 1] # waiters[1]
      BY <2>1, <3>1 DEF SemaphoreInv, WaitersWait
    <3> QED BY <1>1, <2>1, <3>1, <3>2
  <2>10. \A i, j \in 1 .. n - 1 : waiters'[i] = waiters'[j] => i = j
    <3> SUFFICES ASSUME NEW i \in 1 .. n - 1, NEW j \in 1 .. n - 1,
                        waiters'[i] = waiters'[j]
                 PROVE  i = j
      OBVIOUS
    <3>1. /\ i \in Int /\ j \in Int
          /\ i + 1 \in DOMAIN waiters /\ j + 1 \in DOMAIN waiters
          /\ waiters[i + 1] = waiters[j + 1]
      BY <2>1, <2>4
    <3> QED BY <3>1 DEF SemaphoreInv, WaitersWait
  <2>11. WaitersWait'
    <3>1. \A i \in 1 .. n : i \in 1 .. n - 1 \/ i = n
      BY <2>1
    <3>2. \A i \in 1 .. n : proc'[waiters'[i]].pc = "waiting"
      BY <2>4, <2>6, <2>9, <3>1
    <3>3. \A i, j \in 1 .. n : waiters'[i] = waiters'[j] => i = j
      BY <2>4, <2>9, <2>10, <3>1
    <3> QED BY <2>4, <3>2, <3>3 DEF WaitersWait
  <2>12. \A d \in Coroutines \ {c, h} : /\ proc'[d].task = proc[d].task
                                         /\ proc'[d].broken = proc[d].broken
                                         /\ proc'[d].pc = proc[d].pc
    BY <2>6
  <2> QED BY <1>1, <2>2, <2>6, <2>8, <2>11, <2>12 DEF SemaphoreInv
<1> QED BY <1>3, <1>4

----------------------------------------------------------------------------
(* The tasks.                                                              *)

IdleExactly ==
  \A c \in Coroutines : proc[c].pc = "idle" <=> proc[c].task = NoTask

DownIsEmpty ==
  phase = "down" => /\ recovering = {}
                    /\ senders = <<>>
                    /\ \A c \in Coroutines : proc[c].task = NoTask

\* Only a database error breaks a session or sends a coroutine to its backoff.
CleanWithoutFaults ==
  faults = 0 => \A c \in Coroutines : proc[c].pc # "backoff" /\ ~proc[c].broken

TaskInv ==
  /\ CarriedOnce
  /\ CarriedIsPending
  /\ NothingForgotten
  /\ RowConsistent
  /\ IdleExactly
  /\ DownIsEmpty
  /\ CleanWithoutFaults

IInv == TypeOK /\ SemaphoreInv /\ TaskInv

Pending == {"in_queue", "in_progress"}

LEMMA CarriedFacts ==
  ASSUME TypeOK
  PROVE  /\ Running = {t \in Tasks : \E c \in Coroutines : proc[c].task = t}
         /\ Queued \subseteq Tasks
         /\ Carried \subseteq Tasks
<1>1. Running = {t \in Tasks : \E c \in Coroutines : proc[c].task = t}
  BY ConstantsAssumption DEF Running, TypeOK, Proc
<1>2. Queued \subseteq Tasks
  <2>1. \A i \in DOMAIN senders : senders[i] \in Sends
    BY ElementOfSeq, LenProperties DEF TypeOK
  <2> QED BY <2>1 DEF Queued, Sends
<1> QED BY <1>1, <1>2 DEF TypeOK, Carried

\* A step that moves no id.
LEMMA CarriedKept ==
  ASSUME TypeOK, TypeOK', UNCHANGED <<recovering, senders>>,
         \A c \in Coroutines : proc'[c].task = proc[c].task
  PROVE  /\ Carried' = Carried
         /\ CarriedOnce => CarriedOnce'
<1>1. Running' = Running
  <2>1. Running' = {t \in Tasks : \E c \in Coroutines : proc'[c].task = t}
    BY ConstantsAssumption DEF Running, TypeOK, Proc
  <2> QED BY <2>1, CarriedFacts
<1>2. Queued' = Queued
  BY DEF Queued
<1>3. Carried' = Carried
  BY <1>1, <1>2 DEF Carried
<1>4. ASSUME CarriedOnce PROVE CarriedOnce'
  BY <1>1, <1>2, <1>4 DEF CarriedOnce
<1> QED BY <1>3, <1>4

\* A step that keeps the coroutines, with at most one row set to IN_PROGRESS.
LEMMA TaskKept ==
  ASSUME TypeOK, TypeOK', TaskInv,
         UNCHANGED <<phase, recovering, senders>>,
         \A d \in Coroutines : /\ proc'[d].task = proc[d].task
                               /\ proc'[d].pc = "idle" <=> proc[d].pc = "idle",
         \A u \in Tasks : \/ rows'[u] = rows[u]
                          \/ /\ rows[u].status \in Pending
                             /\ rows'[u] = Blank("in_progress"),
         \A d \in Coroutines :
            proc'[d].pc = "working" => \/ proc[d].pc = "working"
                                       \/ rows'[proc[d].task].status = "in_progress",
         faults' = 0 => /\ faults = 0
                        /\ \A d \in Coroutines : proc'[d].pc # "backoff" /\ ~proc'[d].broken
  PROVE  TaskInv'
<1>1. Carried' = Carried /\ CarriedOnce'
  BY CarriedKept DEF TaskInv
<1>2. \A u \in Tasks : rows'[u].status \in Pending <=> rows[u].status \in Pending
  BY DEF Pending, Blank
<1>3. \A u \in Tasks : rows[u].status = "in_progress" => rows'[u].status = "in_progress"
  BY DEF Blank
<1>4. \A d \in Coroutines : proc[d].pc = "working" => proc[d].task \in Tasks
  BY DEF TaskInv, IdleExactly, TypeOK, Proc
<1>5. CarriedIsPending'
  BY <1>1, <1>2, <1>3, <1>4, CarriedFacts DEF TaskInv, CarriedIsPending, Pending
<1>6. NothingForgotten'
  BY <1>1, <1>2 DEF TaskInv, NothingForgotten, Pending
<1>7. RowConsistent'
  BY DEF TaskInv, RowConsistent, Blank
<1>8. IdleExactly' /\ DownIsEmpty' /\ CleanWithoutFaults'
  BY DEF TaskInv, IdleExactly, DownIsEmpty, CleanWithoutFaults
<1> QED BY <1>1, <1>5, <1>6, <1>7, <1>8 DEF TaskInv

\* A step in which one coroutine ends, its task settled unless an error or the
\* shutdown ended it.
LEMMA TaskEnded ==
  ASSUME TypeOK, TypeOK', TaskInv, NEW c \in Coroutines,
         UNCHANGED <<phase, recovering, senders>>,
         proc[c].pc # "idle",
         proc'[c] = Idle,
         \A d \in Coroutines \ {c} :
            /\ proc'[d].task = proc[d].task
            /\ proc'[d].broken = proc[d].broken
            /\ \/ proc'[d].pc = proc[d].pc
               \/ proc[d].pc = "waiting" /\ proc'[d].pc = "granted",
         \A u \in Tasks \ {proc[c].task} : rows'[u] = rows[u],
         /\ rows'[proc[c].task].result <=> rows'[proc[c].task].status = "success"
         /\ rows'[proc[c].task].completed
               <=> rows'[proc[c].task].status \in {"success", "failed"}
         /\ rows'[proc[c].task].error
               <=> rows'[proc[c].task].status \in {"failed", "cancelled"},
         faults' = 0 => faults = 0,
         faults' = 0 /\ phase = "running"
            => rows'[proc[c].task].status \notin Pending
  PROVE  TaskInv'
<1> DEFINE t == proc[c].task
<1>1. t \in Tasks /\ proc'[c].task = NoTask /\ proc'[c].pc = "idle" /\ ~proc'[c].broken
  BY DEF TaskInv, IdleExactly, TypeOK, Proc, Idle
<1>2. \A d \in Coroutines \ {c} : proc[d].task # t
  BY <1>1, ConstantsAssumption DEF TaskInv, CarriedOnce
<1>3. Queued' = Queued
  BY DEF Queued
<1>4. Running' = Running \ {t}
  <2>1. Running' = {u \in Tasks : \E d \in Coroutines : proc'[d].task = u}
    BY ConstantsAssumption DEF Running, TypeOK, Proc
  <2> QED BY <1>1, <1>2, <2>1, CarriedFacts, ConstantsAssumption
<1>5. t \in Running /\ t \notin recovering /\ t \notin Queued
  BY <1>1, CarriedFacts DEF TaskInv, CarriedOnce
<1>6. Carried' = Carried \ {t}
  BY <1>3, <1>4, <1>5 DEF Carried
<1>7. CarriedOnce'
  <2>1. \A d, e \in Coroutines :
           proc'[d].task = proc'[e].task /\ proc'[d].task # NoTask => d = e
    BY <1>1 DEF TaskInv, CarriedOnce
  <2> QED BY <1>3, <1>4, <2>1 DEF TaskInv, CarriedOnce
<1>8. CarriedIsPending'
  <2>1. \A u \in Carried' : rows'[u].status \in Pending
    BY <1>6, CarriedFacts DEF TaskInv, CarriedIsPending, Pending
  <2>2. ASSUME NEW d \in Coroutines, proc'[d].pc = "working"
        PROVE  rows'[proc'[d].task].status = "in_progress"
    <3>1. d # c /\ proc[d].pc = "working" /\ proc'[d].task = proc[d].task
      BY <1>1, <2>2
    <3>2. proc[d].task \in Tasks \ {t}
      BY <1>2, <3>1 DEF TaskInv, IdleExactly, TypeOK, Proc
    <3> QED BY <3>1, <3>2 DEF TaskInv, CarriedIsPending
  <2> QED BY <2>1, <2>2 DEF CarriedIsPending, Pending
<1>9. NothingForgotten'
  BY <1>1, <1>6 DEF TaskInv, NothingForgotten, Pending
<1>10. RowConsistent'
  BY DEF TaskInv, RowConsistent
<1>11. IdleExactly'
  BY <1>1 DEF TaskInv, IdleExactly
<1>12. DownIsEmpty'
  BY <1>1 DEF TaskInv, DownIsEmpty
<1>13. CleanWithoutFaults'
  BY <1>1 DEF TaskInv, CleanWithoutFaults
<1> QED BY <1>7, <1>8, <1>9, <1>10, <1>11, <1>12, <1>13 DEF TaskInv

----------------------------------------------------------------------------
(* The lifespan, the requests and the cleanup preserve the invariant.      *)

LEMMA NobodyCarried ==
  ASSUME TypeOK, senders = <<>>, \A c \in Coroutines : proc[c].task = NoTask
  PROVE  Queued = {} /\ Running = {}
<1>1. Running = {}
  BY CarriedFacts, ConstantsAssumption
<1>2. Queued = {}
  BY DEF Queued
<1> QED BY <1>1, <1>2

LEMMA InitInv == Init => IInv
<1> SUFFICES ASSUME Init PROVE IInv
  OBVIOUS
<1>1. TypeOK
  BY InitType
<1>2. /\ recovering = {} /\ senders = <<>> /\ waiters = <<>> /\ permit = 1
      /\ \A c \in Coroutines : /\ proc[c].task = NoTask /\ proc[c].pc = "idle"
                               /\ ~proc[c].broken
      /\ \A t \in Tasks : /\ rows[t].status = "unissued" /\ rows[t].result = FALSE
                          /\ rows[t].error = FALSE /\ rows[t].completed = FALSE
  BY DEF Init, Idle, Blank
<1>3. Carried = {} /\ Queued = {} /\ Running = {}
  BY <1>1, <1>2, NobodyCarried DEF Carried
<1>4. SemaphoreInv
  BY <1>2 DEF SemaphoreInv, PermitConserved, WaitersWait, Holding
<1>5. CarriedOnce /\ CarriedIsPending /\ NothingForgotten
  BY <1>2, <1>3 DEF CarriedOnce, CarriedIsPending, NothingForgotten
<1>6. RowConsistent
  BY <1>2 DEF RowConsistent
<1>7. IdleExactly /\ DownIsEmpty /\ CleanWithoutFaults
  BY <1>2 DEF IdleExactly, DownIsEmpty, CleanWithoutFaults
<1> QED BY <1>1, <1>4, <1>5, <1>6, <1>7 DEF IInv, TaskInv

LEMMA StartInv ==
  ASSUME IInv, TypeOK', Start PROVE SemaphoreInv' /\ TaskInv'
<1>1. /\ TypeOK /\ SemaphoreInv /\ TaskInv
      /\ phase = "down" /\ phase' = "running"
      /\ recovering' = {t \in Tasks : rows[t].status \in Pending}
      /\ UNCHANGED <<rows, senders, proc, permit, waiters, faults, restarts>>
  BY DEF IInv, Start, Recoverable, Pending
<1>2. /\ senders = <<>>
      /\ \A c \in Coroutines : proc[c].task = NoTask /\ proc[c].pc = "idle"
  BY <1>1 DEF TaskInv, DownIsEmpty, IdleExactly
<1>3. Queued' = {} /\ Running' = {} /\ Carried' = recovering'
  <2>1. Queued = {} /\ Running = {}
    BY <1>1, <1>2, NobodyCarried
  <2>2. Queued' = Queued /\ Running' = Running
    BY <1>1 DEF Queued, Running
  <2> QED BY <2>1, <2>2 DEF Carried
<1>4. SemaphoreInv'
  BY <1>1, SemaphoreKept DEF Holding
<1>5. CarriedOnce'
  BY <1>1, <1>2, <1>3 DEF CarriedOnce
<1>6. CarriedIsPending' /\ NothingForgotten'
  BY <1>1, <1>2, <1>3 DEF CarriedIsPending, NothingForgotten, Pending
<1>7. RowConsistent' /\ IdleExactly' /\ DownIsEmpty' /\ CleanWithoutFaults'
  BY <1>1 DEF TaskInv, RowConsistent, IdleExactly, DownIsEmpty, CleanWithoutFaults
<1> QED BY <1>4, <1>5, <1>6, <1>7 DEF TaskInv

LEMMA StartHeadlessInv ==
  ASSUME IInv, TypeOK', StartHeadless PROVE SemaphoreInv' /\ TaskInv'
<1>1. /\ TypeOK /\ SemaphoreInv /\ TaskInv
      /\ phase' = "headless" /\ faults' # 0
      /\ UNCHANGED <<rows, recovering, senders, proc, permit, waiters>>
  BY DEF IInv, TypeOK, StartHeadless, memory, DatabaseError
<1>2. SemaphoreInv'
  BY <1>1, SemaphoreKept DEF Holding
<1>3. Carried' = Carried /\ CarriedOnce'
  BY <1>1, CarriedKept DEF TaskInv
<1>4. CarriedIsPending' /\ NothingForgotten' /\ RowConsistent'
  BY <1>1, <1>3 DEF TaskInv, CarriedIsPending, NothingForgotten, RowConsistent
<1>5. IdleExactly' /\ DownIsEmpty' /\ CleanWithoutFaults'
  BY <1>1 DEF TaskInv, IdleExactly, DownIsEmpty, CleanWithoutFaults
<1> QED BY <1>2, <1>3, <1>4, <1>5 DEF TaskInv

\* What a step that appends t to the senders does to the ids on their way.
LEMMA SendFacts ==
  ASSUME TypeOK, TypeOK', NEW t \in Tasks, NEW by, Send(t, by),
         t \notin Queued,
         \A i, j \in DOMAIN senders : senders[i].task = senders[j].task => i = j
  PROVE  /\ Queued' = Queued \cup {t}
         /\ \A i, j \in DOMAIN senders' : senders'[i].task = senders'[j].task => i = j
<1> DEFINE n == Len(senders)
           e == [task |-> t, by |-> by]
<1>1. /\ DOMAIN senders = 1 .. n
      /\ n \in Nat
      /\ DOMAIN senders' = 1 .. n + 1
      /\ \A i \in 1 .. n : senders'[i] = senders[i]
      /\ senders'[n + 1].task = t
  <2>1. senders \in Seq(Sends \cup {e}) /\ e \in Sends \cup {e}
    BY SeqMonotonic DEF TypeOK
  <2>2. senders' = Append(senders, e)
    BY DEF Send
  <2>3. e.task = t
    OBVIOUS
  <2> HIDE DEF e
  <2> QED BY <2>1, <2>2, <2>3, AppendFact
<1> HIDE DEF n
<1>2. \A i \in 1 .. n + 1 : i \in 1 .. n \/ i = n + 1
  BY <1>1
<1>3. \A i \in 1 .. n : i \in 1 .. n + 1 /\ senders[i].task # t
  BY <1>1 DEF Queued
<1>4. Queued' = Queued \cup {t}
  <2>1. n + 1 \in 1 .. n + 1
    BY <1>1
  <2> QED BY <1>1, <1>2, <1>3, <2>1 DEF Queued
<1>5. \A i, j \in DOMAIN senders' : senders'[i].task = senders'[j].task => i = j
  BY <1>1, <1>2, <1>3
<1> QED BY <1>4, <1>5

LEMMA RecoverSendInv ==
  ASSUME IInv, TypeOK', RecoverSend PROVE SemaphoreInv' /\ TaskInv'
<1>1. /\ TypeOK /\ SemaphoreInv /\ TaskInv
      /\ UNCHANGED <<rows, phase, proc, permit, waiters, faults>>
  BY DEF IInv, RecoverSend
<1>2. PICK t \in recovering : /\ Send(t, "recover_tasks")
                              /\ recovering' = recovering \ {t}
  BY DEF RecoverSend
<1>3. t \in Tasks /\ t \notin Queued
  BY <1>1 DEF TaskInv, CarriedOnce, TypeOK
<1>4. /\ Queued' = Queued \cup {t}
      /\ \A i, j \in DOMAIN senders' : senders'[i].task = senders'[j].task => i = j
  BY <1>1, <1>2, <1>3, SendFacts DEF TaskInv, CarriedOnce
<1>5. Running' = Running
  BY <1>1 DEF Running
<1>6. Carried' = Carried
  BY <1>2, <1>4, <1>5 DEF Carried
<1>7. CarriedOnce'
  BY <1>1, <1>2, <1>4, <1>5 DEF TaskInv, CarriedOnce
<1>8. SemaphoreInv'
  BY <1>1, SemaphoreKept DEF Holding
<1>9. phase # "down"
  BY <1>1, <1>2 DEF TaskInv, DownIsEmpty
<1>10. CarriedIsPending' /\ NothingForgotten' /\ RowConsistent'
  BY <1>1, <1>6 DEF TaskInv, CarriedIsPending, NothingForgotten, RowConsistent
<1>11. IdleExactly' /\ DownIsEmpty' /\ CleanWithoutFaults'
  BY <1>1, <1>9 DEF TaskInv, IdleExactly, DownIsEmpty, CleanWithoutFaults
<1> QED BY <1>7, <1>8, <1>10, <1>11 DEF TaskInv

\* Whatever memory a stopping or dying process drops.
LEMMA ForgetInv ==
  ASSUME IInv, TypeOK', Forget, rows' = rows, phase' = "down"
  PROVE  SemaphoreInv' /\ TaskInv'
<1>1. /\ TypeOK /\ TaskInv
      /\ recovering' = {} /\ senders' = <<>> /\ permit' = 1 /\ waiters' = <<>>
      /\ \A c \in Coroutines : /\ proc'[c].task = NoTask /\ proc'[c].pc = "idle"
                               /\ ~proc'[c].broken
  BY DEF IInv, Forget, Idle
<1>2. Queued' = {} /\ Running' = {}
  <2>1. Running' = {}
    BY <1>1, ConstantsAssumption DEF Running, TypeOK
  <2> QED BY <1>1, <2>1 DEF Queued
<1>3. Carried' = {}
  BY <1>1, <1>2 DEF Carried
<1>4. SemaphoreInv'
  BY <1>1 DEF SemaphoreInv, PermitConserved, WaitersWait, Holding
<1>5. CarriedOnce'
  BY <1>1, <1>2 DEF CarriedOnce
<1>6. CarriedIsPending' /\ NothingForgotten' /\ RowConsistent'
  BY <1>1, <1>3 DEF TaskInv, CarriedIsPending, NothingForgotten, RowConsistent
<1>7. IdleExactly' /\ DownIsEmpty' /\ CleanWithoutFaults'
  BY <1>1 DEF IdleExactly, DownIsEmpty, CleanWithoutFaults
<1> QED BY <1>4, <1>5, <1>6, <1>7 DEF TaskInv

LEMMA StopInv ==
  ASSUME IInv, TypeOK', Stop PROVE SemaphoreInv' /\ TaskInv'
<1>1. /\ TypeOK /\ SemaphoreInv /\ TaskInv
      /\ phase' = "stopping"
      /\ recovering' = {} /\ senders' = <<>> /\ waiters' = <<>>
      /\ permit' = IF \E c \in Coroutines : proc[c].pc \in Surviving THEN 0 ELSE 1
      /\ UNCHANGED <<rows, faults>>
      /\ \A c \in Coroutines :
            proc'[c] = IF proc[c].pc \in Surviving THEN proc[c] ELSE Idle
  BY DEF IInv, Stop
<1>2. \A c \in Coroutines :
         \/ /\ proc'[c] = proc[c]
            /\ proc[c].pc \in Surviving
         \/ /\ proc'[c].task = NoTask /\ proc'[c].pc = "idle" /\ ~proc'[c].broken
            /\ proc[c].pc \notin Surviving
  BY <1>1 DEF Idle
<1>3. SemaphoreInv'
  <2>1. WaitersWait'
    BY <1>1 DEF WaitersWait
  <2>2. CASE \E c \in Coroutines : proc[c].pc \in Surviving
    <3>1. PICK c \in Coroutines : proc[c].pc \in Surviving
      BY <2>2
    <3>2. \A d \in Coroutines : Holding(d) => d = c
      BY <1>1, <3>1 DEF SemaphoreInv, PermitConserved, Holding, Surviving
    <3>3. \A d \in Coroutines : Holding(d)' => Holding(d)
      BY <1>2 DEF Holding
    <3>4. Holding(c)' /\ permit' = 0
      BY <1>1, <1>2, <3>1 DEF Holding, Surviving
    <3>5. PermitConserved'
      BY <3>1, <3>2, <3>3, <3>4 DEF PermitConserved
    <3> QED BY <2>1, <3>5 DEF SemaphoreInv
  <2>3. CASE ~\E c \in Coroutines : proc[c].pc \in Surviving
    <3>1. PermitConserved'
      BY <1>1, <1>2, <2>3 DEF PermitConserved, Holding
    <3> QED BY <2>1, <3>1 DEF SemaphoreInv
  <2> QED BY <2>2, <2>3
<1>4. Queued' = {} /\ Running' \subseteq Running
  BY <1>1, <1>2 DEF Queued, Running
<1>5. Carried' \subseteq Carried
  BY <1>1, <1>4 DEF Carried
<1>6. CarriedOnce'
  BY <1>1, <1>2, <1>4 DEF TaskInv, CarriedOnce
<1>7. CarriedIsPending' /\ NothingForgotten' /\ RowConsistent'
  BY <1>1, <1>2, <1>5 DEF TaskInv, CarriedIsPending, NothingForgotten, RowConsistent
<1>8. IdleExactly' /\ DownIsEmpty' /\ CleanWithoutFaults'
  BY <1>1, <1>2 DEF TaskInv, IdleExactly, DownIsEmpty, CleanWithoutFaults
<1> QED BY <1>3, <1>6, <1>7, <1>8 DEF TaskInv

LEMMA EnqueueInv ==
  ASSUME IInv, TypeOK', NEW t \in Tasks, Enqueue(t)
  PROVE  SemaphoreInv' /\ TaskInv'
<1>1. /\ TypeOK /\ SemaphoreInv /\ TaskInv
      /\ phase \in {"running", "headless"}
      /\ rows[t].status = "unissued"
      /\ rows' = [rows EXCEPT ![t] = Blank("in_queue")]
      /\ Send(t, "request")
      /\ UNCHANGED <<phase, recovering, proc, permit, waiters, faults>>
  BY DEF IInv, Enqueue, Serving
<1>2. t \notin Carried
  BY <1>1 DEF TaskInv, CarriedIsPending
<1>3. /\ Queued' = Queued \cup {t}
      /\ \A i, j \in DOMAIN senders' : senders'[i].task = senders'[j].task => i = j
  BY <1>1, <1>2, SendFacts DEF TaskInv, CarriedOnce, Carried
<1>4. Running' = Running
  BY <1>1 DEF Running
<1>5. Carried' = Carried \cup {t}
  BY <1>1, <1>3, <1>4 DEF Carried
<1>6. CarriedOnce'
  BY <1>1, <1>2, <1>3, <1>4 DEF TaskInv, CarriedOnce, Carried
<1>7. SemaphoreInv'
  BY <1>1, SemaphoreKept DEF Holding
<1>8. /\ \A u \in Tasks \ {t} : rows'[u] = rows[u]
      /\ rows'[t].status = "in_queue" /\ ~rows'[t].result
      /\ ~rows'[t].error /\ ~rows'[t].completed
  BY <1>1 DEF TypeOK, Blank
<1>9. CarriedIsPending'
  <2>1. \A u \in Carried' : rows'[u].status \in {"in_queue", "in_progress"}
    BY <1>1, <1>5, <1>8, CarriedFacts DEF TaskInv, CarriedIsPending
  <2>2. \A c \in Coroutines :
           proc[c].pc = "working" => proc[c].task \in Tasks \ {t}
    BY <1>1 DEF TaskInv, CarriedIsPending, IdleExactly, TypeOK, Proc
  <2>3. \A c \in Coroutines :
           proc'[c].pc = "working" => rows'[proc'[c].task].status = "in_progress"
    BY <1>1, <1>8, <2>2 DEF TaskInv, CarriedIsPending
  <2> QED BY <2>1, <2>3 DEF CarriedIsPending
<1>10. NothingForgotten' /\ RowConsistent'
  BY <1>1, <1>5, <1>8 DEF TaskInv, NothingForgotten, RowConsistent
<1>11. IdleExactly' /\ DownIsEmpty' /\ CleanWithoutFaults'
  BY <1>1 DEF TaskInv, IdleExactly, DownIsEmpty, CleanWithoutFaults
<1> QED BY <1>6, <1>7, <1>9, <1>10, <1>11 DEF TaskInv

LEMMA EnqueueUnsentInv ==
  ASSUME IInv, TypeOK', NEW t \in Tasks, EnqueueUnsent(t)
  PROVE  SemaphoreInv' /\ TaskInv'
<1>1. /\ TypeOK /\ SemaphoreInv /\ TaskInv
      /\ rows[t].status = "unissued"
      /\ rows' = [rows EXCEPT ![t] = Blank("in_queue")]
      /\ faults' # 0
      /\ UNCHANGED <<phase, recovering, senders, proc, permit, waiters>>
  BY DEF IInv, TypeOK, EnqueueUnsent, memory, DatabaseError
<1>2. t \notin Carried /\ Carried' = Carried /\ CarriedOnce'
  BY <1>1, CarriedKept DEF TaskInv, CarriedIsPending
<1>3. SemaphoreInv'
  BY <1>1, SemaphoreKept DEF Holding
<1>4. /\ \A u \in Tasks \ {t} : rows'[u] = rows[u]
      /\ rows'[t].status = "in_queue" /\ ~rows'[t].result
      /\ ~rows'[t].error /\ ~rows'[t].completed
  BY <1>1 DEF TypeOK, Blank
<1>5. CarriedIsPending'
  <2>1. \A c \in Coroutines :
           proc[c].pc = "working" => proc[c].task \in Tasks \ {t}
    BY <1>1 DEF TaskInv, CarriedIsPending, IdleExactly, TypeOK, Proc
  <2> QED BY <1>1, <1>2, <1>4, <2>1, CarriedFacts DEF TaskInv, CarriedIsPending
<1>6. NothingForgotten' /\ RowConsistent'
  BY <1>1, <1>4 DEF TaskInv, NothingForgotten, RowConsistent
<1>7. IdleExactly' /\ DownIsEmpty' /\ CleanWithoutFaults'
  BY <1>1 DEF TaskInv, IdleExactly, DownIsEmpty, CleanWithoutFaults
<1> QED BY <1>2, <1>3, <1>5, <1>6, <1>7 DEF TaskInv

LEMMA CleanupInv ==
  ASSUME IInv, TypeOK', NEW s \in CleanupStatuses, Cleanup(s)
  PROVE  SemaphoreInv' /\ TaskInv'
<1>1. /\ TypeOK /\ SemaphoreInv /\ TaskInv
      /\ s \in {"success", "failed"}
      /\ UNCHANGED <<phase, recovering, senders, proc, permit, waiters, faults>>
  BY DEF IInv, Cleanup, memory, CleanupStatuses
<1>2. PICK old \in SUBSET Tasks :
         rows' = [t \in Tasks |-> IF t \in old /\ rows[t].status = s
                                  THEN Blank("deleted") ELSE rows[t]]
  BY DEF Cleanup
<1>3. \A u \in Tasks : \/ rows'[u] = rows[u]
                       \/ /\ rows[u].status = s
                          /\ rows'[u].status = "deleted" /\ ~rows'[u].result
                          /\ ~rows'[u].error /\ ~rows'[u].completed
  BY <1>2 DEF Blank
<1>4. Carried' = Carried /\ CarriedOnce'
  BY <1>1, CarriedKept DEF TaskInv
<1>5. SemaphoreInv'
  BY <1>1, SemaphoreKept DEF Holding
<1>6. CarriedIsPending'
  <2>1. \A c \in Coroutines : proc[c].pc = "working" => proc[c].task \in Tasks
    BY <1>1 DEF TaskInv, IdleExactly, TypeOK, Proc
  <2> QED BY <1>1, <1>3, <1>4, <2>1, CarriedFacts DEF TaskInv, CarriedIsPending
<1>7. NothingForgotten' /\ RowConsistent'
  BY <1>1, <1>3, <1>4 DEF TaskInv, NothingForgotten, RowConsistent
<1>8. IdleExactly' /\ DownIsEmpty' /\ CleanWithoutFaults'
  BY <1>1 DEF TaskInv, IdleExactly, DownIsEmpty, CleanWithoutFaults
<1> QED BY <1>4, <1>5, <1>6, <1>7, <1>8 DEF TaskInv

LEMMA ReceiveInv ==
  ASSUME IInv, TypeOK', NEW c \in Coroutines, Receive(c)
  PROVE  SemaphoreInv' /\ TaskInv'
<1> DEFINE t == Head(senders).task
           n == Len(senders)
<1>1. /\ TypeOK /\ SemaphoreInv /\ TaskInv
      /\ phase = "running" /\ senders # <<>>
      /\ proc[c] = Idle
      /\ proc' = [proc EXCEPT ![c] = [Idle EXCEPT !.task = t, !.pc = "spawned"]]
      /\ senders' = Tail(senders)
      /\ UNCHANGED <<rows, phase, recovering, permit, waiters, faults>>
  BY DEF IInv, Receive
<1>2. /\ DOMAIN senders = 1 .. n
      /\ n \in Nat \ {0}
      /\ DOMAIN senders' = 1 .. n - 1
      /\ t = senders[1].task
      /\ t \in Tasks
      /\ \A i \in 1 .. n - 1 : senders'[i] = senders[i + 1]
  <2>1. senders \in Seq(Sends) /\ senders # <<>>
    BY <1>1 DEF TypeOK
  <2>2. Head(senders) \in Sends
    BY <2>1, TailFact
  <2>3. t \in Tasks
    BY <2>2 DEF Sends
  <2> QED BY <1>1, <2>1, <2>3, TailFact
<1>3. /\ proc[c].task = NoTask /\ proc[c].pc = "idle"
      /\ proc'[c].task = t /\ proc'[c].pc = "spawned" /\ ~proc'[c].broken
      /\ \A d \in Coroutines \ {c} : proc'[d] = proc[d]
  <2> DEFINE p == [Idle EXCEPT !.task = t, !.pc = "spawned"]
  <2>1. p.task = t /\ p.pc = "spawned" /\ ~p.broken
    BY DEF Idle
  <2>2. proc' = [proc EXCEPT ![c] = p]
    BY <1>1
  <2>3. proc[c].task = NoTask /\ proc[c].pc = "idle"
    BY <1>1 DEF Idle
  <2> HIDE DEF p, t
  <2> QED BY <1>1, <2>1, <2>2, <2>3 DEF TypeOK
<1> HIDE DEF t, n
<1>4. \A i \in 1 .. n : i = 1 \/ (i - 1 \in 1 .. n - 1 /\ i = (i - 1) + 1)
  BY <1>2
<1>5. \A i \in 1 .. n - 1 : i + 1 \in 1 .. n /\ i + 1 # 1
  BY <1>2
<1>6. \A i, j \in 1 .. n : senders[i].task = senders[j].task => i = j
  BY <1>1, <1>2 DEF TaskInv, CarriedOnce
<1>7. t \notin Queued' /\ Queued = Queued' \cup {t}
  <2>1. 1 \in 1 .. n
    BY <1>2
  <2>2. \A i \in 1 .. n - 1 : senders'[i].task # t
    BY <1>2, <1>5, <1>6, <2>1
  <2>3. t \notin Queued'
    BY <1>2, <2>2 DEF Queued
  <2>4. Queued' \subseteq Queued
    BY <1>2, <1>5 DEF Queued
  <2>5. \A i \in 1 .. n : senders[i].task = t \/ senders[i].task \in Queued'
    <3> SUFFICES ASSUME NEW i \in 1 .. n, i # 1
                 PROVE  senders[i].task \in Queued'
      BY <1>2
    <3>1. i - 1 \in 1 .. n - 1 /\ senders'[i - 1] = senders[i]
      BY <1>2, <1>4
    <3> QED BY <1>2, <3>1 DEF Queued
  <2>6. Queued \subseteq Queued' \cup {t}
    BY <1>2, <2>5 DEF Queued
  <2>7. t \in Queued
    BY <1>2, <2>1 DEF Queued
  <2> QED BY <2>3, <2>4, <2>6, <2>7
<1>8. Running' = Running \cup {t}
  <2>1. Running' = {u \in Tasks : \E d \in Coroutines : proc'[d].task = u}
    BY ConstantsAssumption DEF Running, TypeOK, Proc
  <2> QED BY <1>1, <1>2, <1>3, <2>1, CarriedFacts, ConstantsAssumption
<1>9. Carried' = Carried
  BY <1>1, <1>7, <1>8 DEF Carried
<1>10. CarriedOnce'
  <2>1. t \notin Running /\ t \notin recovering
    BY <1>1, <1>7 DEF TaskInv, CarriedOnce
  <2>2. \A d \in Coroutines : proc[d].task # t
    BY <1>1, <1>2, <2>1, CarriedFacts
  <2>3. \A d, e \in Coroutines :
           proc'[d].task = proc'[e].task /\ proc'[d].task # NoTask => d = e
    BY <1>1, <1>3, <2>2 DEF TaskInv, CarriedOnce
  <2>4. \A i, j \in DOMAIN senders' : senders'[i].task = senders'[j].task => i = j
    <3> SUFFICES ASSUME NEW i \in 1 .. n - 1, NEW j \in 1 .. n - 1,
                        senders'[i].task = senders'[j].task
                 PROVE  i = j
      BY <1>2
    <3>1. i + 1 = j + 1 /\ i \in Int /\ j \in Int
      BY <1>2, <1>5, <1>6
    <3> QED BY <3>1
  <2>5. recovering' = recovering
    BY <1>1
  <2> QED BY <1>1, <1>7, <1>8, <2>1, <2>3, <2>4, <2>5 DEF TaskInv, CarriedOnce
<1>11. SemaphoreInv'
  BY <1>1, <1>3, SemaphoreKept DEF Holding
<1>12. CarriedIsPending' /\ NothingForgotten' /\ RowConsistent'
  BY <1>1, <1>3, <1>9
  DEF TaskInv, CarriedIsPending, NothingForgotten, RowConsistent
<1>13. IdleExactly' /\ DownIsEmpty' /\ CleanWithoutFaults'
  BY <1>1, <1>2, <1>3, ConstantsAssumption
  DEF TaskInv, IdleExactly, DownIsEmpty, CleanWithoutFaults
<1> QED BY <1>10, <1>11, <1>12, <1>13 DEF TaskInv

----------------------------------------------------------------------------
(* The attempts preserve the invariant.                                    *)

LEMMA AcquireInv ==
  ASSUME IInv, TypeOK', NEW c \in Coroutines, Acquire(c)
  PROVE  SemaphoreInv' /\ TaskInv'
<1>1. /\ TypeOK /\ SemaphoreInv /\ TaskInv
      /\ proc[c].pc = "spawned"
      /\ UNCHANGED <<rows, phase, recovering, senders, faults>>
  BY DEF IInv, Acquire
<1>2. /\ SemaphoreInv'
      /\ proc'[c].pc \in {"granted", "waiting"}
      /\ proc'[c].task = proc[c].task
      /\ proc'[c].broken = proc[c].broken
      /\ \A d \in Coroutines \ {c} : proc'[d] = proc[d]
  BY <1>1, SemaphoreAcquired
<1>3. TaskInv'
  <2>1. faults' = 0 => /\ faults = 0
                       /\ \A d \in Coroutines : proc'[d].pc # "backoff" /\ ~proc'[d].broken
    BY <1>1, <1>2 DEF TaskInv, CleanWithoutFaults
  <2> QED BY <1>1, <1>2, <2>1, TaskKept
<1> QED BY <1>2, <1>3

LEMMA PendingRow ==
  ASSUME TypeOK, RowConsistent, NEW t \in Tasks, rows[t].status \in Pending
  PROVE  rows[t].result = FALSE /\ rows[t].error = FALSE /\ rows[t].completed = FALSE
  BY DEF TypeOK, RowConsistent, Pending, Row

\* The rows once a pending task is set to IN_PROGRESS.
LEMMA InProgressRows ==
  ASSUME TypeOK, RowConsistent, NEW t \in Tasks, rows[t].status \in Pending
  PROVE  /\ InProgress(t)[t] = Blank("in_progress")
         /\ \A u \in Tasks \ {t} : InProgress(t)[u] = rows[u]
<1>1. rows[t].result = FALSE /\ rows[t].error = FALSE /\ rows[t].completed = FALSE
  BY PendingRow
<1>2. Updated(rows[t], "in_progress", FALSE, FALSE) = Blank("in_progress")
  BY <1>1 DEF Updated, Blank
<1> QED BY <1>2 DEF InProgress, TypeOK

\* A coroutine that owns the semaphore carries a pending task.
LEMMA HolderFacts ==
  ASSUME TypeOK, TaskInv, NEW c \in Coroutines, proc[c].pc # "idle"
  PROVE  /\ proc[c].task \in Tasks
         /\ rows[proc[c].task].status \in Pending
         /\ Exists(proc[c].task)
<1>1. proc[c].task \in Tasks
  BY DEF TaskInv, IdleExactly, TypeOK, Proc
<1>2. proc[c].task \in Carried
  BY <1>1, CarriedFacts DEF Carried
<1> QED BY <1>1, <1>2 DEF TaskInv, CarriedIsPending, Pending, Exists, TaskStatus

\* An attempt that failed: the rows are as before or the task is IN_PROGRESS.
LEMMA FailedAttempt ==
  ASSUME IInv, TypeOK', NEW c \in Coroutines, NEW r, NEW brk \in BOOLEAN,
         HandleError(c, r, brk), proc[c].pc \in {"granted", "working"},
         r = rows \/ r = InProgress(proc[c].task),
         faults' # 0
  PROVE  SemaphoreInv' /\ TaskInv'
<1>1. /\ TypeOK /\ SemaphoreInv /\ TaskInv
      /\ rows' = r
      /\ proc' = [proc EXCEPT ![c].pc = "backoff", ![c].broken = brk]
      /\ UNCHANGED <<phase, recovering, senders, permit, waiters>>
  BY HandleErrorEffect DEF IInv
<1>2. /\ proc'[c].task = proc[c].task
      /\ proc'[c].pc = "backoff"
      /\ \A d \in Coroutines \ {c} : proc'[d] = proc[d]
  BY <1>1 DEF TypeOK, Proc
<1>3. SemaphoreInv'
  <2>1. \A d \in Coroutines : /\ Holding(d)' <=> Holding(d)
                              /\ proc[d].pc = "waiting" => proc'[d].pc = "waiting"
    BY <1>2 DEF Holding
  <2> QED BY <1>1, <2>1, SemaphoreKept
<1>4. \A u \in Tasks : \/ rows'[u] = rows[u]
                       \/ /\ rows[u].status \in Pending
                          /\ rows'[u] = Blank("in_progress")
  BY <1>1, HolderFacts, InProgressRows DEF TaskInv
<1>5. TaskInv'
  BY <1>1, <1>2, <1>4, TaskKept
<1> QED BY <1>3, <1>5

LEMMA BeginInv ==
  ASSUME IInv, TypeOK', NEW c \in Coroutines, Begin(c)
  PROVE  SemaphoreInv' /\ TaskInv'
<1>1. TypeOK /\ SemaphoreInv /\ TaskInv /\ proc[c].pc = "granted" /\ ~proc[c].broken
  BY DEF IInv, Begin
<1>2. /\ proc[c].task \in Tasks
      /\ rows[proc[c].task].status \in Pending
      /\ Exists(proc[c].task)
  BY <1>1, HolderFacts
<1>3. /\ rows' = InProgress(proc[c].task)
      /\ proc' = [proc EXCEPT ![c].pc = "working"]
      /\ UNCHANGED <<permit, waiters, phase, recovering, senders, faults>>
  BY <1>2 DEF Begin
<1>4. /\ proc'[c].task = proc[c].task
      /\ proc'[c].pc = "working"
      /\ ~proc'[c].broken
      /\ \A d \in Coroutines \ {c} : proc'[d] = proc[d]
  BY <1>1, <1>3 DEF TypeOK, Proc
<1>5. SemaphoreInv'
  BY <1>1, <1>3, <1>4, SemaphoreKept DEF Holding
<1>6. /\ rows'[proc[c].task] = Blank("in_progress")
      /\ \A u \in Tasks \ {proc[c].task} : rows'[u] = rows[u]
  BY <1>1, <1>2, <1>3, InProgressRows DEF TaskInv
<1>7. rows'[proc[c].task].status = "in_progress"
  BY <1>6 DEF Blank
<1>8. faults' = 0 => /\ faults = 0
                     /\ \A d \in Coroutines : proc'[d].pc # "backoff" /\ ~proc'[d].broken
  BY <1>1, <1>3, <1>4 DEF TaskInv, CleanWithoutFaults
<1>9. TaskInv'
  BY <1>1, <1>2, <1>3, <1>4, <1>6, <1>7, <1>8, TaskKept
<1> QED BY <1>5, <1>9

LEMMA FinishInv ==
  ASSUME IInv, TypeOK', NEW c \in Coroutines, Finish(c)
  PROVE  SemaphoreInv' /\ TaskInv'
<1> DEFINE t == proc[c].task
<1>1. /\ TypeOK /\ SemaphoreInv /\ TaskInv
      /\ proc[c].pc = "working" /\ Holding(c) /\ Return(c)
      /\ rows' = [rows EXCEPT ![t] = Updated(@, "success", FALSE, TRUE)]
      /\ UNCHANGED <<phase, recovering, senders, faults>>
  BY DEF IInv, Finish, Holding, SetStatus
<1>2. t \in Tasks /\ rows[t].status \in Pending
  BY <1>1, HolderFacts
<1>3. /\ rows'[t] = Updated(rows[t], "success", FALSE, TRUE)
      /\ \A u \in Tasks \ {t} : rows'[u] = rows[u]
  BY <1>1, <1>2 DEF TypeOK
<1>4. /\ rows'[t].status = "success" /\ rows'[t].result /\ rows'[t].completed
      /\ ~rows'[t].error
  <2>1. rows[t].result = FALSE /\ rows[t].error = FALSE /\ rows[t].completed = FALSE
    BY <1>1, <1>2, PendingRow DEF TaskInv
  <2> HIDE DEF t
  <2>2. rows'[t] = [status |-> "success", result |-> TRUE, error |-> FALSE,
                    completed |-> TRUE]
    BY <1>3, <2>1 DEF Updated
  <2> QED BY <2>2
<1>5. SemaphoreInv' /\ TaskInv'
  <2> HIDE DEF t
  <2>1. t = proc[c].task
    BY DEF t
  <2>2. \A u \in Tasks \ {proc[c].task} : rows'[u] = rows[u]
    BY <1>3, <2>1
  <2>3. SemaphoreInv'
    BY <1>1, SemaphoreReleased
  <2>4. TaskInv'
    BY <1>1, <1>4, <2>1, <2>2, SemaphoreReleased, TaskEnded DEF Pending
  <2> QED BY <2>3, <2>4
<1> QED BY <1>5

\* The last attempt is over, or the next one is to come.
LEMMA EndBackoffInv ==
  ASSUME IInv, TypeOK', NEW c \in Coroutines, EndBackoff(c)
  PROVE  SemaphoreInv' /\ TaskInv'
<1>1. /\ TypeOK /\ SemaphoreInv /\ TaskInv
      /\ proc[c].pc = "backoff" /\ Holding(c)
      /\ UNCHANGED <<rows, phase, recovering, senders, faults>>
  BY DEF IInv, EndBackoff, Holding
<1>2. faults # 0
  BY <1>1 DEF TaskInv, CleanWithoutFaults
<1>3. CASE proc[c].retries + 1 = MaxRetries
  <2>1. Return(c)
    BY <1>3 DEF EndBackoff, LastAttempt, NextAttempt
  <2>2. proc[c].task \in Tasks
    BY <1>1, HolderFacts
  <2>3. SemaphoreInv' /\ TaskInv'
    BY <1>1, <1>2, <2>1, <2>2, SemaphoreReleased, TaskEnded DEF TaskInv, RowConsistent
  <2> QED BY <2>3
<1>4. CASE proc[c].retries + 1 # MaxRetries
  BY <1>1, <1>2, <1>4, SemaphoreRequeued, TaskKept
<1> QED BY <1>3, <1>4

\* A cancelled coroutine ends, with its row CANCELLED or as it was.
LEMMA StopCoroutineInv ==
  ASSUME IInv, TypeOK', NEW c \in Coroutines,
         StopWork(c) \/ StopWorkFails(c) \/ StopBackoff(c)
  PROVE  SemaphoreInv' /\ TaskInv'
<1> DEFINE t == proc[c].task
<1>1. /\ TypeOK /\ SemaphoreInv /\ TaskInv
      /\ phase = "stopping" /\ proc[c].pc \in {"working", "backoff"}
      /\ Holding(c) /\ Return(c)
      /\ UNCHANGED <<phase, recovering, senders>>
      /\ faults' = 0 => faults = 0
  <2>1. TypeOK /\ SemaphoreInv /\ TaskInv
    BY DEF IInv
  <2>2. faults' = 0 => faults = 0
    BY <2>1, DatabaseErrorType DEF StopWork, StopWorkFails, StopBackoff
  <2> QED BY <2>1, <2>2 DEF StopWork, StopWorkFails, StopBackoff, Holding
<1>2. t \in Tasks /\ rows[t].status \in Pending
  BY <1>1, HolderFacts
<1>3. rows' = rows \/ rows' = [rows EXCEPT ![t] = Updated(@, "cancelled", TRUE, FALSE)]
  BY DEF StopWork, StopWorkFails, StopBackoff, SetStatus
<1>4. /\ rows'[t].result <=> rows'[t].status = "success"
      /\ rows'[t].completed <=> rows'[t].status \in {"success", "failed"}
      /\ rows'[t].error <=> rows'[t].status \in {"failed", "cancelled"}
  <2>1. CASE rows' = rows
    BY <1>1, <1>2, <2>1 DEF TaskInv, RowConsistent
  <2>2. CASE rows' = [rows EXCEPT ![t] = Updated(@, "cancelled", TRUE, FALSE)]
    <3>1. rows'[t] = Updated(rows[t], "cancelled", TRUE, FALSE)
      BY <1>1, <1>2, <2>2 DEF TypeOK
    <3>2. rows[t].result = FALSE /\ rows[t].error = FALSE /\ rows[t].completed = FALSE
      BY <1>1, <1>2, PendingRow DEF TaskInv
    <3> HIDE DEF t
    <3>3. /\ rows'[t].status = "cancelled" /\ ~rows'[t].result /\ ~rows'[t].completed
          /\ rows'[t].error
      <4>1. rows'[t] = [status |-> "cancelled", result |-> FALSE, error |-> TRUE,
                        completed |-> FALSE]
        BY <3>1, <3>2 DEF Updated
      <4> QED BY <4>1
    <3> QED BY <3>3
  <2> QED BY <1>3, <2>1, <2>2
<1>5. \A u \in Tasks \ {t} : rows'[u] = rows[u]
  BY <1>1, <1>2, <1>3 DEF TypeOK
<1>6. SemaphoreInv' /\ TaskInv'
  BY <1>1, <1>4, <1>5, SemaphoreReleased, TaskEnded
<1> QED BY <1>6

----------------------------------------------------------------------------
(* The invariant.                                                          *)

LEMMA NextInv == IInv /\ [Next]_vars => IInv'
<1> SUFFICES ASSUME IInv, [Next]_vars PROVE IInv'
  OBVIOUS
<1>1. TypeOK /\ SemaphoreInv /\ TaskInv /\ TypeOK'
  BY NextType DEF IInv
<1>2. SUFFICES SemaphoreInv' /\ TaskInv'
  BY <1>1 DEF IInv
<1>3. CASE UNCHANGED vars
  BY <1>1, <1>3
  DEF vars, memory, SemaphoreInv, PermitConserved, WaitersWait, Holding, TaskInv,
      CarriedOnce, CarriedIsPending, NothingForgotten, RowConsistent, IdleExactly,
      DownIsEmpty, CleanWithoutFaults, Carried, Queued, Running
<1>4. CASE Start
  BY <1>1, <1>4, StartInv
<1>5. CASE StartHeadless
  BY <1>1, <1>5, StartHeadlessInv
<1>6. CASE RecoverSend
  BY <1>1, <1>6, RecoverSendInv
<1>7. CASE Stop
  BY <1>1, <1>7, StopInv
<1>8. CASE Exit
  BY <1>1, <1>8, ForgetInv DEF Exit
<1>9. CASE Crash
  BY <1>1, <1>9, ForgetInv DEF Crash
<1>10. ASSUME NEW t \in Tasks, Enqueue(t) PROVE SemaphoreInv' /\ TaskInv'
  BY <1>1, <1>10, EnqueueInv
<1>11. ASSUME NEW t \in Tasks, EnqueueUnsent(t) PROVE SemaphoreInv' /\ TaskInv'
  BY <1>1, <1>11, EnqueueUnsentInv
<1>12. ASSUME NEW s \in CleanupStatuses, Cleanup(s) PROVE SemaphoreInv' /\ TaskInv'
  BY <1>1, <1>12, CleanupInv
<1>13. ASSUME NEW c \in Coroutines, Receive(c) PROVE SemaphoreInv' /\ TaskInv'
  BY <1>1, <1>13, ReceiveInv
<1>14. ASSUME NEW c \in Coroutines, ProcessTask(c) PROVE SemaphoreInv' /\ TaskInv'
  <2>1. CASE Acquire(c)
    BY <1>1, <2>1, AcquireInv
  <2>2. CASE Begin(c)
    BY <1>1, <2>2, BeginInv
  <2>3. CASE Finish(c)
    BY <1>1, <2>3, FinishInv
  <2>4. CASE EndBackoff(c)
    BY <1>1, <2>4, EndBackoffInv
  <2>5. CASE SessionRefuses(c)
    <3>1. /\ HandleError(c, rows, TRUE) /\ proc[c].pc = "granted" /\ faults' # 0
      BY <1>1, <2>5 DEF SessionRefuses, TaskInv, CleanWithoutFaults
    <3> QED BY <1>1, <3>1, FailedAttempt
  <2>6. CASE LookupFails(c)
    <3>1. /\ HandleError(c, rows, FALSE) /\ proc[c].pc = "granted" /\ faults' # 0
      BY <1>1, <2>6, DatabaseErrorType DEF LookupFails
    <3> QED BY <1>1, <3>1, FailedAttempt
  <2>7. CASE BeginCommitFails(c)
    <3>1. /\ HandleError(c, rows, TRUE) /\ proc[c].pc = "granted" /\ faults' # 0
      BY <1>1, <2>7, DatabaseErrorType DEF BeginCommitFails
    <3> QED BY <1>1, <3>1, FailedAttempt
  <2>8. CASE WorkLookupFails(c)
    <3>1. /\ HandleError(c, InProgress(proc[c].task), FALSE)
          /\ proc[c].pc = "granted" /\ faults' # 0
      BY <1>1, <2>8, DatabaseErrorType DEF WorkLookupFails
    <3> QED BY <1>1, <3>1, FailedAttempt
  <2>9. CASE FinishCommitFails(c)
    <3>1. /\ HandleError(c, rows, TRUE) /\ proc[c].pc = "working" /\ faults' # 0
      BY <1>1, <2>9, DatabaseErrorType DEF FinishCommitFails
    <3> QED BY <1>1, <3>1, FailedAttempt
  <2>10. CASE StopWork(c) \/ StopWorkFails(c) \/ StopBackoff(c)
    BY <1>1, <2>10, StopCoroutineInv
  <2> QED BY <1>14, <2>1, <2>2, <2>3, <2>4, <2>5, <2>6, <2>7, <2>8, <2>9, <2>10
          DEF ProcessTask
<1> QED BY <1>3, <1>4, <1>5, <1>6, <1>7, <1>8, <1>9, <1>10, <1>11, <1>12, <1>13,
           <1>14 DEF Next

LEMMA Invariant == Spec => []IInv
<1> QED BY InitInv, NextInv, PTL DEF Spec

\* No task is processed by two coroutines, or on its way twice.
THEOREM TasksCarriedOnce == Spec => []CarriedOnce
<1>1. IInv => CarriedOnce
  BY DEF IInv, TaskInv
<1> QED BY Invariant, <1>1, PTL

\* Whatever is on its way still has to be done; at work means IN_PROGRESS.
THEOREM CarriedArePending == Spec => []CarriedIsPending
<1>1. IInv => CarriedIsPending
  BY DEF IInv, TaskInv
<1> QED BY Invariant, <1>1, PTL

\* Without database errors a serving process carries every unfinished task.
THEOREM NoneForgotten == Spec => []NothingForgotten
<1>1. IInv => NothingForgotten
  BY DEF IInv, TaskInv
<1> QED BY Invariant, <1>1, PTL

\* The permit of task_semaphore is neither lost nor given to two coroutines.
THEOREM OnePermit == Spec => []PermitConserved
<1>1. IInv => PermitConserved
  BY DEF IInv, SemaphoreInv
<1> QED BY Invariant, <1>1, PTL

\* Result, completed_at and error_message agree with the status of a row.
THEOREM RowsConsistent == Spec => []RowConsistent
<1>1. IInv => RowConsistent
  BY DEF IInv, TaskInv
<1> QED BY Invariant, <1>1, PTL

----------------------------------------------------------------------------
(* The lifecycle of a row.                                                 *)

\* A step that changes no status stutters.
LEMMA StatusKept ==
  ASSUME TypeOK, TypeOK', \A u \in Tasks : rows'[u].status = rows[u].status
  PROVE  [Lifecycle!Next]_[t \in Tasks |-> rows[t].status]
  OBVIOUS

\* A step that moves one status along the lifecycle.
LEMMA StatusMoved ==
  ASSUME TypeOK, TypeOK', NEW t \in Tasks,
         \A u \in Tasks \ {t} : rows'[u].status = rows[u].status,
         \/ rows[t].status = "unissued" /\ rows'[t].status = "in_queue"
         \/ rows[t].status = "in_queue" /\ rows'[t].status = "in_progress"
         \/ rows[t].status = "in_progress" /\ rows'[t].status \in {"success", "cancelled"}
  PROVE  Lifecycle!Next
<1> DEFINE s == [u \in Tasks |-> rows[u].status]
           n == [u \in Tasks |-> rows'[u].status]
<1>1. n = [s EXCEPT ![t] = rows'[t].status] /\ s[t] = rows[t].status
  OBVIOUS
<1>2. \/ Lifecycle!Submit(t) \/ Lifecycle!Begin(t) \/ Lifecycle!Succeed(t)
      \/ Lifecycle!Cancel(t)
  BY <1>1 DEF Lifecycle!Submit, Lifecycle!Begin, Lifecycle!Succeed,
              Lifecycle!Cancel, Lifecycle!Move
<1> QED BY <1>2 DEF Lifecycle!Next

\* What an action of a coroutine may do to the rows: nothing, or one step of
\* its own task's life while it owns the semaphore.
LEMMA ProcessTaskRows ==
  ASSUME IInv, NEW c \in Coroutines, ProcessTask(c)
  PROVE  \/ rows' = rows
         \/ /\ Holding(c)
            /\ proc[c].task \in Tasks
            /\ \A u \in Tasks \ {proc[c].task} : rows'[u] = rows[u]
            /\ \/ /\ rows[proc[c].task].status \in Pending
                  /\ rows'[proc[c].task].status = "in_progress"
               \/ /\ rows[proc[c].task].status = "in_progress"
                  /\ rows'[proc[c].task].status \in {"success", "cancelled"}
<1>1. TypeOK /\ TaskInv /\ RowConsistent
  BY DEF IInv, TaskInv
<1>2. ASSUME proc[c].pc = "granted", rows' = InProgress(proc[c].task)
      PROVE  /\ Holding(c)
             /\ proc[c].task \in Tasks
             /\ \A u \in Tasks \ {proc[c].task} : rows'[u] = rows[u]
             /\ rows[proc[c].task].status \in Pending
             /\ rows'[proc[c].task].status = "in_progress"
  <2>1. proc[c].task \in Tasks /\ rows[proc[c].task].status \in Pending
    BY <1>1, <1>2, HolderFacts
  <2>2. /\ rows'[proc[c].task] = Blank("in_progress")
        /\ \A u \in Tasks \ {proc[c].task} : rows'[u] = rows[u]
    BY <1>1, <1>2, <2>1, InProgressRows
  <2> QED BY <1>2, <2>1, <2>2 DEF Holding, Blank
<1>3. ASSUME NEW s \in {"success", "cancelled"}, NEW e, NEW r,
             proc[c].pc = "working",
             rows' = [rows EXCEPT ![proc[c].task] = Updated(@, s, e, r)]
      PROVE  /\ Holding(c)
             /\ proc[c].task \in Tasks
             /\ \A u \in Tasks \ {proc[c].task} : rows'[u] = rows[u]
             /\ rows[proc[c].task].status = "in_progress"
             /\ rows'[proc[c].task].status = s
  <2>1. proc[c].task \in Tasks /\ rows[proc[c].task].status = "in_progress"
    BY <1>1, <1>3, HolderFacts DEF TaskInv, CarriedIsPending
  <2>2. /\ rows'[proc[c].task] = Updated(rows[proc[c].task], s, e, r)
        /\ \A u \in Tasks \ {proc[c].task} : rows'[u] = rows[u]
    BY <1>1, <1>3, <2>1 DEF TypeOK
  <2>3. rows'[proc[c].task].status = s
    BY <2>2 DEF Updated
  <2> QED BY <1>3, <2>1, <2>2, <2>3 DEF Holding
<1>4. CASE Acquire(c) \/ EndBackoff(c) \/ StopWorkFails(c) \/ StopBackoff(c)
  BY <1>4 DEF Acquire, EndBackoff, StopWorkFails, StopBackoff
<1>5. CASE Begin(c)
  BY <1>1, <1>2, <1>5 DEF Begin
<1>6. CASE Finish(c)
  BY <1>3, <1>6 DEF Finish, SetStatus
<1>7. CASE StopWork(c)
  BY <1>3, <1>7 DEF StopWork, SetStatus
<1>8. CASE SessionRefuses(c) \/ LookupFails(c) \/ BeginCommitFails(c)
           \/ FinishCommitFails(c)
  <2>1. HandleError(c, rows, TRUE) \/ HandleError(c, rows, FALSE)
    BY <1>8 DEF SessionRefuses, LookupFails, BeginCommitFails, FinishCommitFails
  <2> QED BY <1>1, <2>1, HandleErrorEffect
<1>9. CASE WorkLookupFails(c)
  <2>1. HandleError(c, InProgress(proc[c].task), FALSE) /\ proc[c].pc = "granted"
    BY <1>9 DEF WorkLookupFails
  <2>2. rows' = InProgress(proc[c].task)
    BY <1>1, <2>1, HandleErrorEffect
  <2> QED BY <1>2, <2>1, <2>2
<1> QED BY <1>4, <1>5, <1>6, <1>7, <1>8, <1>9 DEF ProcessTask

\* Every step of the program is a step of the lifecycle or leaves all the
\* statuses alone.
LEMMA NextRefines ==
  IInv /\ [Next]_vars => [Lifecycle!Next]_[t \in Tasks |-> rows[t].status]
<1> SUFFICES ASSUME IInv, [Next]_vars
             PROVE  [Lifecycle!Next]_[t \in Tasks |-> rows[t].status]
  OBVIOUS
<1>1. TypeOK /\ TypeOK'
  BY NextType DEF IInv
<1>2. CASE rows' = rows
  BY <1>1, <1>2, StatusKept
<1>3. ASSUME NEW t \in Tasks, Enqueue(t) \/ EnqueueUnsent(t)
      PROVE  [Lifecycle!Next]_[u \in Tasks |-> rows[u].status]
  <2>1. /\ rows[t].status = "unissued"
        /\ rows' = [rows EXCEPT ![t] = Blank("in_queue")]
    BY <1>3 DEF Enqueue, EnqueueUnsent
  <2>2. /\ rows'[t].status = "in_queue"
        /\ \A u \in Tasks \ {t} : rows'[u].status = rows[u].status
    BY <1>1, <2>1 DEF TypeOK, Blank
  <2> QED BY <1>1, <2>1, <2>2, StatusMoved
<1>4. ASSUME NEW s \in CleanupStatuses, Cleanup(s)
      PROVE  [Lifecycle!Next]_[u \in Tasks |-> rows[u].status]
  <2>1. PICK old \in SUBSET Tasks :
           rows' = [t \in Tasks |-> IF t \in old /\ rows[t].status = s
                                    THEN Blank("deleted") ELSE rows[t]]
    BY <1>4 DEF Cleanup
  <2>2. PICK S \in SUBSET Tasks : S = {t \in old : rows[t].status = s}
    OBVIOUS
  <2>3. \A t \in Tasks : rows'[t].status = IF t \in S THEN "deleted" ELSE rows[t].status
    BY <2>1, <2>2 DEF Blank
  <2>4. s \in {"success", "failed"} /\ \A t \in S : rows[t].status = s
    BY <1>4, <2>2 DEF CleanupStatuses
  <2>5. Lifecycle!Purge(S)
    BY <2>3, <2>4 DEF Lifecycle!Purge
  <2>6. Lifecycle!Next
    BY <2>5 DEF Lifecycle!Next
  <2> QED BY <2>6
<1>5. ASSUME NEW c \in Coroutines, ProcessTask(c)
      PROVE  [Lifecycle!Next]_[u \in Tasks |-> rows[u].status]
  <2>1. CASE rows' = rows
    BY <1>1, <2>1, StatusKept
  <2>2. CASE rows' # rows
    <3> DEFINE t == proc[c].task
    <3>1. /\ t \in Tasks
          /\ \A u \in Tasks \ {t} : rows'[u].status = rows[u].status
          /\ \/ rows[t].status \in Pending /\ rows'[t].status = "in_progress"
             \/ /\ rows[t].status = "in_progress"
                /\ rows'[t].status \in {"success", "cancelled"}
      BY <1>5, <2>2, ProcessTaskRows
    <3> HIDE DEF t
    <3>2. CASE rows[t].status = rows'[t].status
      BY <1>1, <3>1, <3>2, StatusKept
    <3>3. CASE rows[t].status # rows'[t].status
      BY <1>1, <3>1, <3>3, StatusMoved DEF Pending
    <3> QED BY <3>2, <3>3
  <2> QED BY <2>1, <2>2
<1>6. \/ rows' = rows
      \/ \E t \in Tasks : Enqueue(t) \/ EnqueueUnsent(t)
      \/ \E s \in CleanupStatuses : Cleanup(s)
      \/ \E c \in Coroutines : ProcessTask(c)
  BY DEF Next, vars, Start, StartHeadless, RecoverSend, Stop, Exit, Crash, Receive
<1> QED BY <1>2, <1>3, <1>4, <1>5, <1>6

\* TaskWorker implements the lifecycle of TaskLifecycle: no crash, shutdown,
\* error, recovery or cleanup takes a row another way.
THEOREM Refinement == Spec => ImplementsLifecycle
<1>1. Init => Lifecycle!Init
  BY DEF Init, Lifecycle!Init, Blank
<1> QED BY <1>1, Invariant, NextRefines, PTL DEF Spec, ImplementsLifecycle, Lifecycle!Spec

----------------------------------------------------------------------------
\* A shutdown touches only the row of the coroutine that owns the semaphore:
\* what is still in the queue is left to the recovery of the next start.
THEOREM StopKeepsQueue == Spec => QueuedSurvivesStop
<1> DEFINE A == phase = "stopping" \/ phase' = "stopping" =>
                  \A t \in Tasks : rows'[t] # rows[t] =>
                     \E c \in Coroutines : proc[c].task = t /\ Holding(c)
<1>1. IInv /\ [Next]_vars => [A]_vars
  <2> SUFFICES ASSUME IInv, Next, phase = "stopping" \/ phase' = "stopping",
                      NEW t \in Tasks, rows'[t] # rows[t]
               PROVE  \E c \in Coroutines : proc[c].task = t /\ Holding(c)
    OBVIOUS
  <2>1. PICK c \in Coroutines : ProcessTask(c)
    BY DEF Next, Start, StartHeadless, RecoverSend, Stop, Exit, Crash, Receive,
           Enqueue, EnqueueUnsent, Cleanup, Serving
  <2> QED BY <2>1, ProcessTaskRows
<1> QED BY <1>1, Invariant, PTL DEF Spec, QueuedSurvivesStop

----------------------------------------------------------------------------
(* What an error costs.                                                    *)

\* An error has hit the coroutine: it may end without its task done.
Struck(c) == proc[c].pc = "backoff" \/ proc[c].retries > 0 \/ proc[c].broken

\* The unfinished tasks nothing but a struck coroutine carries.  Each has had an
\* error of its own.
Risk(t) ==
  /\ rows[t].status \in Pending
  /\ t \notin recovering /\ t \notin Queued
  /\ \A c \in Coroutines : proc[c].task = t => Struck(c)
AtRisk == {t \in Tasks : Risk(t)}

LossInv == phase = "running" => IsFiniteSet(AtRisk) /\ Cardinality(AtRisk) <= faults

LEMMA NoNewRisk ==
  ASSUME LossInv, phase' = "running" => phase = "running",
         faults \in Nat, faults' = faults,
         \A t \in Tasks : Risk(t)' => Risk(t)
  PROVE  LossInv'
<1> SUFFICES ASSUME phase' = "running"
             PROVE  IsFiniteSet(AtRisk') /\ Cardinality(AtRisk') <= faults'
  BY DEF LossInv
<1>1. AtRisk' \subseteq AtRisk
  BY DEF AtRisk
<1>2. IsFiniteSet(AtRisk) /\ Cardinality(AtRisk) <= faults
  BY DEF LossInv
<1>3. /\ IsFiniteSet(AtRisk') /\ Cardinality(AtRisk') <= Cardinality(AtRisk)
      /\ Cardinality(AtRisk) \in Nat /\ Cardinality(AtRisk') \in Nat
  BY <1>1, <1>2, FS_Subset, FS_CardinalityType
<1> QED BY <1>2, <1>3

LEMMA OneNewRisk ==
  ASSUME LossInv, phase' = "running" => phase = "running",
         faults \in Nat, faults' = faults + 1,
         NEW x, \A t \in Tasks : Risk(t)' => Risk(t) \/ t = x
  PROVE  LossInv'
<1> SUFFICES ASSUME phase' = "running"
             PROVE  IsFiniteSet(AtRisk') /\ Cardinality(AtRisk') <= faults'
  BY DEF LossInv
<1>1. AtRisk' \subseteq AtRisk \cup {x}
  BY DEF AtRisk
<1>2. IsFiniteSet(AtRisk) /\ Cardinality(AtRisk) <= faults
  BY DEF LossInv
<1>3. /\ IsFiniteSet(AtRisk \cup {x})
      /\ Cardinality(AtRisk \cup {x}) \in {Cardinality(AtRisk), Cardinality(AtRisk) + 1}
  BY <1>2, FS_AddElement
<1>4. /\ IsFiniteSet(AtRisk') /\ Cardinality(AtRisk') <= Cardinality(AtRisk \cup {x})
      /\ Cardinality(AtRisk) \in Nat /\ Cardinality(AtRisk') \in Nat
  BY <1>1, <1>2, <1>3, FS_Subset, FS_CardinalityType
<1> QED BY <1>2, <1>3, <1>4

\* A step that moves no id to or from the stream, and sets at most rows to
\* IN_PROGRESS that were unfinished.
LEMMA RiskOfCoroutines ==
  ASSUME UNCHANGED <<recovering, senders>>, NEW t \in Tasks, Risk(t)',
         rows'[t].status \in Pending => rows[t].status \in Pending,
         \A d \in Coroutines :
            \/ proc'[d].task = proc[d].task /\ (Struck(d)' => Struck(d))
            \/ proc[d].task = t => Struck(d)
  PROVE  Risk(t)
BY DEF Risk, Queued

\* The owner leaves the semaphore; nobody else is struck by that.
LEMMA ReturnStrikes ==
  ASSUME TypeOK, SemaphoreInv, NEW c \in Coroutines, Holding(c), Return(c)
  PROVE  \A d \in Coroutines \ {c} :
            proc'[d].task = proc[d].task /\ (Struck(d)' => Struck(d))
<1>1. \A d \in Coroutines \ {c} : proc'[d].retries = proc[d].retries
  <2>1. CASE waiters = <<>>
    BY <2>1 DEF Return, Release, TypeOK
  <2>2. CASE waiters # <<>>
    <3>1. Head(waiters) \in Coroutines
      BY <2>2, TailFact DEF TypeOK
    <3>2. proc' = [[proc EXCEPT ![c] = Idle] EXCEPT ![Head(waiters)].pc = "granted"]
      BY <2>2 DEF Return, Release
    <3> QED BY <3>1, <3>2 DEF TypeOK, Proc
  <2> QED BY <2>1, <2>2
<1> QED BY <1>1, SemaphoreReleased DEF Struck

\* A failed attempt strikes its coroutine and no other.
LEMMA FailureStrikes ==
  ASSUME TypeOK, TaskInv, NEW c \in Coroutines, NEW r, NEW brk \in BOOLEAN,
         HandleError(c, r, brk), proc[c].pc # "idle",
         r = rows \/ r = InProgress(proc[c].task)
  PROVE  /\ UNCHANGED <<recovering, senders, phase>>
         /\ \A t \in Tasks : rows'[t].status \in Pending => rows[t].status \in Pending
         /\ \A d \in Coroutines : proc'[d].task = proc[d].task
         /\ \A d \in Coroutines \ {c} : proc'[d] = proc[d]
<1>1. /\ rows' = r /\ UNCHANGED <<recovering, senders, phase>>
      /\ proc' = [proc EXCEPT ![c].pc = "backoff", ![c].broken = brk]
  BY HandleErrorEffect
<1>2. \A t \in Tasks : rows'[t].status \in Pending => rows[t].status \in Pending
  BY <1>1, HolderFacts, InProgressRows DEF TaskInv, Blank
<1> QED BY <1>1, <1>2 DEF TypeOK, Proc

LEMMA LossStep ==
  ASSUME IInv, TypeOK', LossInv, [Next]_vars
  PROVE  LossInv'
<1>1. TypeOK /\ SemaphoreInv /\ TaskInv /\ faults \in Nat
  BY DEF IInv, TypeOK
<1>2. CASE UNCHANGED vars
  BY <1>2 DEF vars, memory, LossInv, AtRisk, Risk, Struck, Queued
<1>3. CASE Start
  <2>1. AtRisk' = {}
    BY <1>3 DEF Start, AtRisk, Risk, Pending, Recoverable
  <2> QED BY <1>1, <1>3, <2>1, FS_EmptySet DEF LossInv, Start
<1>4. CASE StartHeadless \/ Stop \/ Exit \/ Crash
  <2>1. phase' # "running"
    BY <1>4 DEF StartHeadless, Stop, Exit, Crash
  <2> QED BY <2>1 DEF LossInv
<1>5. CASE RecoverSend
  <2>1. PICK t \in recovering : /\ Send(t, "recover_tasks")
                                /\ recovering' = recovering \ {t}
    BY <1>5 DEF RecoverSend
  <2>2. Queued' = Queued \cup {t}
    BY <1>1, <2>1, SendFacts DEF TaskInv, CarriedOnce, TypeOK
  <2>3. UNCHANGED <<rows, phase, proc, faults>>
    BY <1>5 DEF RecoverSend
  <2> QED BY <1>1, <2>1, <2>2, <2>3, NoNewRisk DEF Risk, Struck
<1>6. ASSUME NEW t \in Tasks, Enqueue(t) PROVE LossInv'
  <2>1. /\ rows' = [rows EXCEPT ![t] = Blank("in_queue")] /\ Send(t, "request")
        /\ rows[t].status = "unissued" /\ UNCHANGED <<phase, recovering, proc, faults>>
    BY <1>6 DEF Enqueue
  <2>2. t \notin Queued
    BY <1>1, <2>1, CarriedFacts DEF TaskInv, CarriedIsPending, Carried
  <2>3. Queued' = Queued \cup {t}
    BY <1>1, <2>1, <2>2, SendFacts DEF TaskInv, CarriedOnce
  <2>4. \A u \in Tasks : u # t => rows'[u] = rows[u]
    BY <1>1, <2>1 DEF TypeOK
  <2> QED BY <1>1, <2>1, <2>3, <2>4, NoNewRisk DEF Risk, Struck
<1>7. ASSUME NEW t \in Tasks, EnqueueUnsent(t) PROVE LossInv'
  <2>1. \A u \in Tasks : u # t => rows'[u] = rows[u]
    BY <1>1, <1>7 DEF EnqueueUnsent, TypeOK
  <2>2. /\ UNCHANGED <<phase, recovering, senders, proc>> /\ faults' = faults + 1
    BY <1>7 DEF EnqueueUnsent, memory, DatabaseError
  <2>3. \A u \in Tasks : Risk(u)' => Risk(u) \/ u = t
    BY <2>1, <2>2 DEF Risk, Struck, Queued
  <2> QED BY <1>1, <2>2, <2>3, OneNewRisk
<1>8. ASSUME NEW s \in CleanupStatuses, Cleanup(s) PROVE LossInv'
  <2>1. \A u \in Tasks : rows'[u].status \in Pending => rows[u].status \in Pending
    BY <1>8 DEF Cleanup, Blank, Pending
  <2>2. UNCHANGED <<phase, recovering, senders, proc, faults>>
    BY <1>8 DEF Cleanup, memory
  <2>3. \A u \in Tasks : Risk(u)' => Risk(u)
    BY <2>1, <2>2 DEF Risk, Struck, Queued
  <2> QED BY <1>1, <2>2, <2>3, NoNewRisk
<1>9. ASSUME NEW c \in Coroutines, Receive(c) PROVE LossInv'
  <2>1. /\ senders # <<>> /\ senders' = Tail(senders) /\ proc[c] = Idle
        /\ proc' = [proc EXCEPT ![c] = [Idle EXCEPT !.task = Head(senders).task,
                                                    !.pc = "spawned"]]
        /\ UNCHANGED <<rows, phase, recovering, faults>>
    BY <1>9 DEF Receive
  <2>2. /\ proc'[c].task = Head(senders).task /\ proc'[c].pc = "spawned"
        /\ proc'[c].retries = 0 /\ ~proc'[c].broken /\ proc[c].task = NoTask
        /\ \A d \in Coroutines \ {c} : proc'[d] = proc[d]
    BY <1>1, <2>1 DEF Idle, TypeOK
  <2>3. \A u \in Queued : u \in Queued' \/ u = Head(senders).task
    <3>1. /\ Head(senders) = senders[1] /\ Len(senders) \in Nat \ {0}
          /\ DOMAIN senders = 1 .. Len(senders) /\ DOMAIN senders' = 1 .. Len(senders) - 1
          /\ \A i \in 1 .. Len(senders) - 1 : senders'[i] = senders[i + 1]
      BY <1>1, <2>1, TailFact DEF TypeOK
    <3> SUFFICES ASSUME NEW i \in 1 .. Len(senders), i # 1
                 PROVE  \E j \in DOMAIN senders' : senders'[j].task = senders[i].task
      BY <3>1 DEF Queued
    <3>2. i - 1 \in 1 .. Len(senders) - 1 /\ (i - 1) + 1 = i
      BY <3>1
    <3> QED BY <3>1, <3>2
  <2>4. ~Struck(c)'
    BY <2>2 DEF Struck
  <2>5. \A d \in Coroutines \ {c} : Struck(d)' <=> Struck(d)
    BY <2>2 DEF Struck
  <2>6. \A u \in Tasks : Risk(u)' => Risk(u)
    BY <2>1, <2>2, <2>3, <2>4, <2>5, ConstantsAssumption DEF Risk
  <2> QED BY <1>1, <2>1, <2>6, NoNewRisk
<1>10. ASSUME NEW c \in Coroutines, Acquire(c) PROVE LossInv'
  <2>1. UNCHANGED <<rows, phase, recovering, senders, faults>> /\ proc[c].pc = "spawned"
    BY <1>10 DEF Acquire
  <2>2. \A d \in Coroutines : proc'[d].retries = proc[d].retries
    BY <1>1, <1>10 DEF Acquire, TypeOK, Proc
  <2>3. \A d \in Coroutines : proc'[d].task = proc[d].task /\ (Struck(d)' => Struck(d))
    BY <1>1, <1>10, <2>2, SemaphoreAcquired DEF Struck
  <2>4. \A u \in Tasks : Risk(u)' => Risk(u)
    BY <2>1, <2>3, RiskOfCoroutines
  <2> QED BY <1>1, <2>1, <2>4, NoNewRisk
<1>11. ASSUME NEW c \in Coroutines, Begin(c) PROVE LossInv'
  <2>1. /\ proc[c].pc = "granted" /\ Exists(proc[c].task)
    BY <1>1, <1>11, HolderFacts DEF Begin
  <2>2. /\ rows' = InProgress(proc[c].task) /\ proc' = [proc EXCEPT ![c].pc = "working"]
        /\ UNCHANGED <<phase, recovering, senders, faults>>
    BY <1>11, <2>1 DEF Begin
  <2>3. \A d \in Coroutines : proc'[d].task = proc[d].task /\ (Struck(d)' => Struck(d))
    BY <1>1, <2>2 DEF Struck, TypeOK, Proc
  <2>4. \A u \in Tasks : rows'[u].status \in Pending => rows[u].status \in Pending
    BY <1>1, <2>1, <2>2, HolderFacts, InProgressRows DEF TaskInv, Blank
  <2>5. \A u \in Tasks : Risk(u)' => Risk(u)
    BY <2>2, <2>3, <2>4, RiskOfCoroutines
  <2> QED BY <1>1, <2>2, <2>5, NoNewRisk
<1>12. ASSUME NEW c \in Coroutines, Finish(c) PROVE LossInv'
  <2>1. /\ proc[c].pc = "working" /\ Return(c)
        /\ SetStatus(proc[c].task, "success", FALSE, TRUE)
        /\ UNCHANGED <<phase, recovering, senders, faults>>
    BY <1>12 DEF Finish
  <2>2. /\ proc[c].task \in Tasks /\ rows'[proc[c].task].status = "success"
        /\ \A u \in Tasks : u # proc[c].task => rows'[u] = rows[u]
    BY <1>1, <2>1, HolderFacts DEF SetStatus, Updated, TypeOK
  <2>3. \A d \in Coroutines \ {c} : proc'[d].task = proc[d].task /\ (Struck(d)' => Struck(d))
    BY <1>1, <2>1, ReturnStrikes DEF Holding
  <2>4. ASSUME NEW u \in Tasks, Risk(u)' PROVE Risk(u)
    <3>1. u # proc[c].task /\ rows'[u] = rows[u]
      BY <2>2, <2>4 DEF Risk, Pending
    <3> QED BY <2>1, <2>3, <2>4, <3>1, RiskOfCoroutines
  <2> QED BY <1>1, <2>1, <2>4, NoNewRisk
<1>13. ASSUME NEW c \in Coroutines, EndBackoff(c) PROVE LossInv'
  <2>1. /\ proc[c].pc = "backoff" /\ UNCHANGED <<rows, phase, recovering, senders, faults>>
    BY <1>13 DEF EndBackoff
  <2>2. \A d \in Coroutines \ {c} : proc'[d].task = proc[d].task /\ (Struck(d)' => Struck(d))
    <3>1. CASE LastAttempt(proc[c])
      <4>1. Return(c)
        BY <1>13, <3>1 DEF EndBackoff
      <4> QED BY <1>1, <2>1, <4>1, ReturnStrikes DEF Holding
    <3>2. CASE ~LastAttempt(proc[c])
      <4>1. \A d \in Coroutines \ {c} : proc'[d].retries = proc[d].retries
        <5>1. CASE waiters = <<>>
          BY <1>1, <1>13, <3>2, <5>1 DEF EndBackoff, TypeOK
        <5>2. CASE waiters # <<>>
          <6>1. Head(waiters) \in Coroutines
            BY <1>1, <5>2, TailFact DEF TypeOK
          <6>2. PICK next : proc' = [proc EXCEPT ![c] = next, ![Head(waiters)].pc = "granted"]
            BY <1>13, <3>2, <5>2 DEF EndBackoff
          <6> QED BY <1>1, <6>1, <6>2 DEF TypeOK, Proc
        <5> QED BY <5>1, <5>2
      <4>2. proc[c].retries + 1 # MaxRetries
        BY <3>2 DEF LastAttempt
      <4> QED BY <1>1, <1>13, <4>1, <4>2, SemaphoreRequeued DEF Struck
    <3> QED BY <3>1, <3>2
  <2>3. Struck(c)
    BY <2>1 DEF Struck
  <2>4. \A u \in Tasks : Risk(u)' => Risk(u)
    BY <2>1, <2>2, <2>3, RiskOfCoroutines
  <2> QED BY <1>1, <2>1, <2>4, NoNewRisk
<1>14. ASSUME NEW c \in Coroutines, SessionRefuses(c) PROVE LossInv'
  <2>1. /\ HandleError(c, rows, TRUE) /\ proc[c].pc = "granted" /\ faults' = faults
        /\ Struck(c)
    BY <1>14 DEF SessionRefuses, Struck
  <2>2. /\ UNCHANGED <<recovering, senders, phase>>
        /\ \A t \in Tasks : rows'[t].status \in Pending => rows[t].status \in Pending
        /\ \A d \in Coroutines : proc'[d].task = proc[d].task
        /\ \A d \in Coroutines \ {c} : Struck(d)' => Struck(d)
    BY <1>1, <2>1, FailureStrikes DEF Struck
  <2>3. \A u \in Tasks : Risk(u)' => Risk(u)
    BY <2>1, <2>2, RiskOfCoroutines
  <2> QED BY <1>1, <2>1, <2>2, <2>3, NoNewRisk
<1>15. ASSUME NEW c \in Coroutines,
              LookupFails(c) \/ BeginCommitFails(c) \/ WorkLookupFails(c) \/ FinishCommitFails(c)
       PROVE  LossInv'
  <2>1. /\ proc[c].pc # "idle" /\ faults' = faults + 1
        /\ \E brk \in BOOLEAN, r \in {rows, InProgress(proc[c].task)} : HandleError(c, r, brk)
    BY <1>15 DEF LookupFails, BeginCommitFails, WorkLookupFails, FinishCommitFails, DatabaseError
  <2>2. /\ UNCHANGED <<recovering, senders, phase>>
        /\ \A t \in Tasks : rows'[t].status \in Pending => rows[t].status \in Pending
        /\ \A d \in Coroutines : proc'[d].task = proc[d].task
        /\ \A d \in Coroutines \ {c} : Struck(d)' => Struck(d)
    BY <1>1, <2>1, FailureStrikes DEF Struck
  <2>3. ASSUME NEW u \in Tasks, Risk(u)', u # proc[c].task PROVE Risk(u)
    BY <2>2, <2>3, RiskOfCoroutines
  <2> QED BY <1>1, <2>1, <2>2, <2>3, OneNewRisk
<1>16. ASSUME NEW c \in Coroutines, StopWork(c) \/ StopWorkFails(c) \/ StopBackoff(c)
       PROVE  LossInv'
  <2>1. phase' # "running"
    BY <1>16 DEF StopWork, StopWorkFails, StopBackoff
  <2> QED BY <2>1 DEF LossInv
<1> QED BY <1>2, <1>3, <1>4, <1>5, <1>6, <1>7, <1>8, <1>9, <1>10, <1>11, <1>12, <1>13,
           <1>14, <1>15, <1>16 DEF Next, ProcessTask

LEMMA LossInvariant == Spec => []LossInv
<1>1. Init => LossInv
  BY DEF Init, LossInv
<1>2. TypeOK /\ [Next]_vars => TypeOK'
  BY NextType
<1>3. IInv /\ LossInv /\ [Next]_vars => LossInv'
  BY <1>2, LossStep DEF IInv
<1> QED BY Invariant, <1>1, <1>3, PTL DEF Spec

\* Every database error costs a serving process at most one unfinished task.
THEOREM ErrorsLoseOneTask == Spec => []LostOnlyToErrors
<1>1. TypeOK /\ LossInv => LostOnlyToErrors
  <2> SUFFICES ASSUME TypeOK, LossInv, phase = "running"
               PROVE  Cardinality(Forgotten) <= faults
    BY DEF LostOnlyToErrors
  <2>1. Forgotten \subseteq AtRisk
    <3> SUFFICES ASSUME NEW t \in Forgotten PROVE Risk(t)
      BY DEF AtRisk, Forgotten
    <3>1. \A c \in Coroutines : proc[c].task # t
      BY CarriedFacts DEF Forgotten, Carried
    <3> QED BY <3>1 DEF Forgotten, Carried, Risk, Pending
  <2>2. IsFiniteSet(AtRisk) /\ Cardinality(AtRisk) <= faults /\ faults \in Nat
    BY DEF LossInv, TypeOK
  <2>3. /\ Cardinality(Forgotten) <= Cardinality(AtRisk)
        /\ Cardinality(Forgotten) \in Nat /\ Cardinality(AtRisk) \in Nat
    BY <2>1, <2>2, FS_Subset, FS_CardinalityType
  <2> QED BY <2>2, <2>3
<1> QED BY Invariant, LossInvariant, <1>1, PTL DEF IInv

----------------------------------------------------------------------------
(* Nobody waits in vain.                                                   *)

\* Who waits for the semaphore is queued on it.
WaitersQueued ==
  \A c \in Coroutines : proc[c].pc = "waiting" => \E i \in DOMAIN waiters : waiters[i] = c

\* A coroutine waits only while another owns the semaphore, and has a place of
\* its own in the queue of those the owner will hand it to: no wakeup is lost.
NoLostWakeup ==
  \A c \in Coroutines : proc[c].pc = "waiting" =>
     /\ \E d \in Coroutines \ {c} : Holding(d)
     /\ \E i \in DOMAIN waiters : \A j \in DOMAIN waiters : waiters[j] = c <=> j = i

LEMMA AppendQueued ==
  ASSUME TypeOK, NEW c \in Coroutines, waiters' = Append(waiters, c), WaitersQueued,
         \A d \in Coroutines \ {c} : proc'[d].pc = "waiting" => proc[d].pc = "waiting"
  PROVE  WaitersQueued'
<1>1. /\ DOMAIN waiters = 1 .. Len(waiters) /\ Len(waiters) \in Nat
      /\ DOMAIN waiters' = 1 .. Len(waiters) + 1
      /\ \A i \in 1 .. Len(waiters) : waiters'[i] = waiters[i]
      /\ waiters'[Len(waiters) + 1] = c
  BY AppendFact DEF TypeOK
<1> QED BY <1>1 DEF WaitersQueued

\* The head of the queue is no more in it; c may be appended to the rest.
LEMMA TailQueued ==
  ASSUME TypeOK, waiters # <<>>, WaitersQueued,
         \/ waiters' = Tail(waiters)
         \/ \E c \in Coroutines : /\ waiters' = Append(Tail(waiters), c)
                                  /\ proc[c].pc # "waiting",
         \A d \in Coroutines : proc'[d].pc = "waiting" =>
            \/ proc[d].pc = "waiting" /\ d # Head(waiters)
            \/ waiters' = Append(Tail(waiters), d)
  PROVE  WaitersQueued'
<1>1. PICK n \in Nat \ {0} :
         /\ Head(waiters) = waiters[1] /\ DOMAIN waiters = 1 .. n
         /\ DOMAIN Tail(waiters) = 1 .. n - 1 /\ Tail(waiters) \in Seq(Coroutines)
         /\ \A i \in 1 .. n - 1 : Tail(waiters)[i] = waiters[i + 1]
  BY TailFact DEF TypeOK
<1>2. /\ 1 .. n - 1 \subseteq DOMAIN waiters'
      /\ \A i \in 1 .. n - 1 : waiters'[i] = waiters[i + 1]
  <2>1. CASE waiters' = Tail(waiters)
    BY <1>1, <2>1
  <2>2. ASSUME NEW c \in Coroutines, waiters' = Append(Tail(waiters), c)
        PROVE  /\ 1 .. n - 1 \subseteq DOMAIN waiters'
               /\ \A i \in 1 .. n - 1 : waiters'[i] = waiters[i + 1]
    BY <1>1, <2>2, AppendFact
  <2> QED BY <2>1, <2>2
<1> SUFFICES ASSUME NEW d \in Coroutines, proc'[d].pc = "waiting"
             PROVE  \E i \in DOMAIN waiters' : waiters'[i] = d
  BY DEF WaitersQueued
<1>3. CASE proc[d].pc = "waiting" /\ d # Head(waiters)
  <2>1. PICK i \in 1 .. n : waiters[i] = d
    BY <1>1, <1>3 DEF WaitersQueued
  <2>2. i - 1 \in 1 .. n - 1 /\ (i - 1) + 1 = i
    BY <1>1, <1>3, <2>1
  <2> QED BY <1>2, <2>1, <2>2
<1>4. CASE waiters' = Append(Tail(waiters), d)
  BY <1>1, <1>4, AppendFact
<1> QED BY <1>3, <1>4

LEMMA ReturnQueued ==
  ASSUME TypeOK, SemaphoreInv, WaitersQueued, NEW c \in Coroutines, Return(c)
  PROVE  WaitersQueued'
<1>1. CASE waiters = <<>>
  BY <1>1 DEF Return, Release, TypeOK, WaitersQueued, Idle
<1>2. CASE waiters # <<>>
  <2>1. Head(waiters) \in Coroutines
    BY <1>2, TailFact DEF TypeOK
  <2>2. /\ proc' = [[proc EXCEPT ![c] = Idle] EXCEPT ![Head(waiters)].pc = "granted"]
        /\ waiters' = Tail(waiters)
    BY <1>2 DEF Return, Release
  <2>3. \A d \in Coroutines : proc'[d].pc = "waiting" =>
           proc[d].pc = "waiting" /\ d # Head(waiters)
    BY <2>1, <2>2 DEF TypeOK, Proc, Idle
  <2> QED BY <1>2, <2>2, <2>3, TailQueued
<1> QED BY <1>1, <1>2

LEMMA QueuedStep ==
  ASSUME IInv, WaitersQueued, [Next]_vars
  PROVE  WaitersQueued'
<1>1. TypeOK /\ SemaphoreInv /\ TaskInv
  BY DEF IInv
<1>2. CASE UNCHANGED <<proc, waiters>>
  BY <1>2 DEF WaitersQueued
<1>3. CASE Stop \/ Exit \/ Crash
  BY <1>1, <1>3 DEF Stop, Exit, Crash, Forget, WaitersQueued, Idle, TypeOK, Surviving
<1>4. ASSUME NEW c \in Coroutines, Receive(c) PROVE WaitersQueued'
  BY <1>1, <1>4 DEF Receive, Idle, WaitersQueued, TypeOK
<1>5. ASSUME NEW c \in Coroutines, Acquire(c) PROVE WaitersQueued'
  <2>1. \A d \in Coroutines \ {c} : proc'[d] = proc[d]
    BY <1>1, <1>5 DEF Acquire, TypeOK
  <2>2. CASE permit = 1 /\ waiters = <<>>
    BY <1>1, <1>5, <2>1, <2>2 DEF Acquire, WaitersQueued, TypeOK, Proc
  <2>3. CASE ~(permit = 1 /\ waiters = <<>>)
    <3>1. waiters' = Append(waiters, c)
      BY <1>5, <2>3 DEF Acquire
    <3> QED BY <1>1, <2>1, <3>1, AppendQueued
  <2> QED BY <2>2, <2>3
<1>6. ASSUME NEW c \in Coroutines, Begin(c) \/ Finish(c) PROVE WaitersQueued'
  <2>1. \/ Return(c)
        \/ proc' = [proc EXCEPT ![c].pc = "working"] /\ UNCHANGED waiters
    BY <1>6 DEF Begin, Finish
  <2>2. CASE proc' = [proc EXCEPT ![c].pc = "working"] /\ UNCHANGED waiters
    BY <1>1, <2>2 DEF WaitersQueued, TypeOK, Proc
  <2> QED BY <1>1, <2>1, <2>2, ReturnQueued
<1>7. ASSUME NEW c \in Coroutines, EndBackoff(c) PROVE WaitersQueued'
  <2>1. proc[c].pc = "backoff"
    BY <1>7 DEF EndBackoff
  <2>2. CASE LastAttempt(proc[c])
    BY <1>1, <1>7, <2>2, ReturnQueued DEF EndBackoff
  <2>3. CASE ~LastAttempt(proc[c]) /\ waiters = <<>>
    <3>1. PICK next : proc' = [proc EXCEPT ![c] = [next EXCEPT !.pc = "granted"]]
      BY <1>7, <2>3 DEF EndBackoff
    <3>2. UNCHANGED waiters /\ \A d \in Coroutines \ {c} : proc'[d] = proc[d]
      BY <1>1, <1>7, <2>3, <3>1 DEF EndBackoff, TypeOK
    <3>3. proc'[c].pc = "granted"
      BY <1>1, <1>7, <2>3 DEF EndBackoff, NextAttempt, TypeOK, Proc
    <3> QED BY <3>2, <3>3 DEF WaitersQueued
  <2>4. CASE ~LastAttempt(proc[c]) /\ waiters # <<>>
    <3>1. Head(waiters) \in Coroutines
      BY <1>1, <2>4, TailFact DEF TypeOK
    <3>2. PICK next : proc' = [proc EXCEPT ![c] = next, ![Head(waiters)].pc = "granted"]
      BY <1>7, <2>4 DEF EndBackoff
    <3>3. waiters' = Append(Tail(waiters), c)
      BY <1>7, <2>4 DEF EndBackoff
    <3>4. \A d \in Coroutines \ {c} : proc'[d].pc = "waiting" =>
             proc[d].pc = "waiting" /\ d # Head(waiters)
      BY <1>1, <3>1, <3>2 DEF TypeOK, Proc
    <3> QED BY <1>1, <2>1, <2>4, <3>3, <3>4, TailQueued
  <2> QED BY <2>2, <2>3, <2>4
<1>8. ASSUME NEW c \in Coroutines, SessionRefuses(c) \/ LookupFails(c) \/ BeginCommitFails(c)
                                   \/ WorkLookupFails(c) \/ FinishCommitFails(c)
      PROVE  WaitersQueued'
  <2>1. PICK r \in {rows, InProgress(proc[c].task)}, brk \in BOOLEAN : HandleError(c, r, brk)
    BY <1>8 DEF SessionRefuses, LookupFails, BeginCommitFails, WorkLookupFails,
                FinishCommitFails
  <2>2. proc' = [proc EXCEPT ![c].pc = "backoff", ![c].broken = brk] /\ UNCHANGED waiters
    BY <1>1, <2>1, HandleErrorEffect
  <2> QED BY <1>1, <2>2 DEF WaitersQueued, TypeOK, Proc
<1>9. ASSUME NEW c \in Coroutines, StopWork(c) \/ StopWorkFails(c) \/ StopBackoff(c)
      PROVE  WaitersQueued'
  BY <1>1, <1>9, ReturnQueued DEF StopWork, StopWorkFails, StopBackoff
<1>10. \/ UNCHANGED <<proc, waiters>> \/ Stop \/ Exit \/ Crash
       \/ \E c \in Coroutines : Receive(c) \/ ProcessTask(c)
  BY DEF Next, vars, memory, Start, StartHeadless, RecoverSend, Enqueue, EnqueueUnsent, Cleanup
<1> QED BY <1>2, <1>3, <1>4, <1>5, <1>6, <1>7, <1>8, <1>9, <1>10 DEF ProcessTask

\* The semaphore forgets nobody: whoever waits is in the queue of a semaphore
\* that somebody else owns, once.
THEOREM NobodyForgotten == Spec => []NoLostWakeup
<1>1. Init => WaitersQueued
  BY DEF Init, WaitersQueued, Idle
<1>2. IInv /\ WaitersQueued /\ [Next]_vars => WaitersQueued'
  BY QueuedStep
<1>3. IInv /\ WaitersQueued => NoLostWakeup
  <2> SUFFICES ASSUME TypeOK, SemaphoreInv, WaitersQueued,
                      NEW c \in Coroutines, proc[c].pc = "waiting"
               PROVE  /\ \E d \in Coroutines \ {c} : Holding(d)
                      /\ \E i \in DOMAIN waiters : \A j \in DOMAIN waiters :
                            waiters[j] = c <=> j = i
    BY DEF IInv, NoLostWakeup
  <2>1. PICK i \in DOMAIN waiters : waiters[i] = c
    BY DEF WaitersQueued
  <2>2. \A j \in DOMAIN waiters : waiters[j] = c <=> j = i
    BY <2>1 DEF SemaphoreInv, WaitersWait
  <2>3. \E d \in Coroutines \ {c} : Holding(d)
    BY <2>1 DEF SemaphoreInv, PermitConserved, Holding
  <2> QED BY <2>1, <2>2, <2>3
<1> QED BY Invariant, <1>1, <1>2, <1>3, PTL DEF Spec

----------------------------------------------------------------------------
\* The branches of the handlers that store FAILED cannot be reached: no row ever
\* has this status.
NeverFailed == \A t \in Tasks : rows[t].status # "failed"

\* max_retries is never reached inside the loop, so no task ends as FAILED; the
\* second nightly cleanup finds nothing to delete.
THEOREM NoTaskFails == Spec => []NeverFailed
<1>1. Init => NeverFailed
  BY DEF Init, NeverFailed, Blank
<1>2. ASSUME IInv, NeverFailed, [Next]_vars PROVE NeverFailed'
  <2>1. TypeOK
    BY <1>2 DEF IInv
  <2>2. CASE rows' = rows
    BY <1>2, <2>2 DEF NeverFailed
  <2>3. CASE \E t \in Tasks : Enqueue(t) \/ EnqueueUnsent(t)
    BY <1>2, <2>1, <2>3 DEF Enqueue, EnqueueUnsent, NeverFailed, TypeOK, Blank
  <2>4. CASE \E s \in CleanupStatuses : Cleanup(s)
    BY <1>2, <2>4 DEF Cleanup, NeverFailed, Blank
  <2>5. ASSUME NEW c \in Coroutines, ProcessTask(c) PROVE NeverFailed'
    BY <1>2, <2>5, ProcessTaskRows DEF NeverFailed
  <2> QED BY <1>2, <2>2, <2>3, <2>4, <2>5
          DEF Next, vars, Start, StartHeadless, RecoverSend, Stop, Exit, Crash, Receive
<1> QED BY Invariant, <1>1, <1>2, PTL DEF Spec

============================================================================
