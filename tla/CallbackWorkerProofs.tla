------------------------- MODULE CallbackWorkerProofs -------------------------
(***************************************************************************)
(* Theorems of CallbackWorker, for every set of tasks and every value of   *)
(* the bounds.                                                             *)
(***************************************************************************)
EXTENDS CallbackWorker, FiniteSetTheorems, SequenceTheorems, TLAPS

----------------------------------------------------------------------------
(* Types.                                                                  *)

LEMMA AppendFact ==
  ASSUME NEW S, NEW s \in Seq(S), NEW x \in S
  PROVE  /\ Append(s, x) \in Seq(S)
         /\ DOMAIN s = 1 .. Len(s)
         /\ Len(s) \in Nat
         /\ DOMAIN Append(s, x) = 1 .. Len(s) + 1
         /\ \A i \in 1 .. Len(s) : Append(s, x)[i] = s[i]
         /\ Append(s, x)[Len(s) + 1] = x
  OBVIOUS

LEMMA TailFact ==
  ASSUME NEW S, NEW s \in Seq(S), s # <<>>
  PROVE  /\ Head(s) = s[1]
         /\ Head(s) \in S
         /\ Tail(s) \in Seq(S)
         /\ Len(s) \in Nat \ {0}
         /\ DOMAIN s = 1 .. Len(s)
         /\ DOMAIN Tail(s) = 1 .. Len(s) - 1
         /\ \A i \in 1 .. Len(s) - 1 : Tail(s)[i] = s[i + 1]
  OBVIOUS

LEMMA InitRetention == RetentionInit => RetentionTypeOK
  BY RetentionAssumption
  DEF RetentionInit, RetentionTypeOK, Worker!Init, Worker!LifecycleStatus

LEMMA StepRetention == RetentionTypeOK /\ [RetentionNext]_retention => RetentionTypeOK'
<1> SUFFICES ASSUME RetentionTypeOK, [RetentionNext]_retention PROVE RetentionTypeOK'
  OBVIOUS
<1> USE RetentionAssumption DEF RetentionTypeOK
<1>1. CASE UNCHANGED retention
  BY <1>1 DEF retention, times
<1>2. CASE Tick
  BY <1>2 DEF Tick, times, Targets
<1>3. ASSUME NEW t \in Tasks, Submit(t) \/ Succeed(t) \/ Proceed(t)
      PROVE  RetentionTypeOK'
  BY <1>3 DEF Submit, Succeed, Proceed, times, Worker!Submit, Worker!Succeed,
              Worker!Begin, Worker!Cancel, Worker!Move, Worker!LifecycleStatus
<1>4. ASSUME NEW s \in Targets, Cleanup(s) PROVE RetentionTypeOK'
  BY <1>4 DEF Cleanup, times, Worker!Purge, Worker!LifecycleStatus
<1>5. ASSUME NEW s \in Targets, Skip(s) PROVE RetentionTypeOK'
  BY <1>5 DEF Skip, times
<1> QED BY <1>1, <1>2, <1>3, <1>4, <1>5 DEF RetentionNext

LEMMA IdleType == Idle \in Proc
  BY CallbackAssumption DEF Idle, Proc

\* The step of a coroutine that leaves the semaphore and ends.
Left(c) == Release([proc EXCEPT ![c] = Idle])

LEMMA LeftType ==
  ASSUME TypeOK, NEW c \in Tasks, Left(c)
  PROVE  /\ proc' \in [Tasks -> Proc]
         /\ permit' \in {0, 1}
         /\ waiters' \in Seq(Tasks)
<1> DEFINE p == [proc EXCEPT ![c] = Idle]
<1>1. p \in [Tasks -> Proc]
  BY IdleType DEF TypeOK
<1>2. CASE waiters = <<>>
  BY <1>1, <1>2 DEF Left, Release, TypeOK
<1>3. CASE waiters # <<>>
  <2>1. Head(waiters) \in Tasks /\ Tail(waiters) \in Seq(Tasks)
    BY <1>3, TailFact DEF TypeOK
  <2>2. [p EXCEPT ![Head(waiters)].pc = "granted"] \in [Tasks -> Proc]
    BY <1>1, <2>1 DEF Proc
  <2> QED BY <1>3, <2>1, <2>2 DEF Left, Release, TypeOK
<1> QED BY <1>2, <1>3

LEMMA AttemptType ==
  ASSUME TypeOK, NEW t \in Tasks, NEW s \in CallbackStatus \cup {"none"},
         Attempt(t, s)
  PROVE  callbacks' \in [Tasks -> CallbackStatus \cup {"none"}]
  BY DEF Attempt, TypeOK

LEMMA BackOffType ==
  ASSUME TypeOK, NEW t \in Tasks, NEW brk \in BOOLEAN, BackOff(t, brk)
  PROVE  /\ proc' \in [Tasks -> Proc]
         /\ UNCHANGED <<retention, up, stream, permit, waiters, deaths>>
  BY DEF BackOff, TypeOK, Proc, semaphore

LEMMA DatabaseErrorType ==
  ASSUME TypeOK, DatabaseError
  PROVE  faults' \in 0 .. MaxFaults
  BY CallbackAssumption DEF TypeOK, DatabaseError

LEMMA InitType == Init => TypeOK
  BY IdleType, InitRetention, CallbackAssumption DEF Init, TypeOK

\* The coroutine queues up again: as the owner of the semaphore when nobody
\* waits, else behind those who do.
LEMMA EndBackoffType ==
  ASSUME TypeOK, NEW c \in Tasks, EndBackoff(c)
  PROVE  /\ proc' \in [Tasks -> Proc]
         /\ permit' \in {0, 1}
         /\ waiters' \in Seq(Tasks)
<1>1. CASE LastAttempt(proc[c])
  BY <1>1, LeftType DEF EndBackoff, Left
<1>2. CASE ~LastAttempt(proc[c])
  <2> DEFINE again == NextAttempt(proc[c])
  <2>0. /\ proc[c] \in Proc
        /\ proc[c].retries + 1 \in 0 .. MaxRetries - 1
    <3>1. proc[c] \in Proc /\ proc[c].retries \in 0 .. MaxRetries - 1
      BY DEF TypeOK, Proc
    <3>2. proc[c].retries + 1 # MaxRetries
      BY <1>2 DEF LastAttempt
    <3> QED BY <3>1, <3>2, CallbackAssumption
  <2>1. again \in Proc
    BY <2>0 DEF Proc, NextAttempt
  <2>2. [again EXCEPT !.pc = "granted"] \in Proc /\ [again EXCEPT !.pc = "waiting"] \in Proc
    BY <2>1 DEF Proc
  <2> HIDE DEF again
  <2>3. CASE waiters = <<>>
    <3>1. /\ proc' = [proc EXCEPT ![c] = [again EXCEPT !.pc = "granted"]]
          /\ UNCHANGED <<permit, waiters>>
      BY <1>2, <2>3 DEF EndBackoff, semaphore, again
    <3> QED BY <2>2, <3>1 DEF TypeOK
  <2>4. CASE waiters # <<>>
    <3> DEFINE p == [proc EXCEPT ![c] = [again EXCEPT !.pc = "waiting"]]
    <3>1. /\ proc' = [p EXCEPT ![Head(waiters)].pc = "granted"]
          /\ waiters' = Append(Tail(waiters), c)
          /\ UNCHANGED permit
      BY <1>2, <2>4 DEF EndBackoff, semaphore, again
    <3>2. Head(waiters) \in Tasks /\ Tail(waiters) \in Seq(Tasks)
      BY <2>4, TailFact DEF TypeOK
    <3>3. waiters' \in Seq(Tasks)
      BY <3>1, <3>2, AppendFact
    <3>4. p \in [Tasks -> Proc]
      BY <2>2 DEF TypeOK
    <3>5. proc' \in [Tasks -> Proc]
      BY <3>1, <3>2, <3>4 DEF Proc
    <3> QED BY <3>1, <3>3, <3>5 DEF TypeOK
  <2> QED BY <2>3, <2>4
<1> QED BY <1>1, <1>2

LEMMA StepType == TypeOK /\ [Next]_vars => TypeOK'
<1> SUFFICES ASSUME TypeOK, [Next]_vars PROVE TypeOK'
  OBVIOUS
<1>0. RetentionTypeOK /\ (UNCHANGED retention => RetentionTypeOK')
  BY StepRetention DEF TypeOK
<1>1. CASE UNCHANGED vars
  BY <1>0, <1>1 DEF TypeOK, vars, memory, semaphore
<1>2. CASE Receive
  <2>1. Head(stream) \in Tasks /\ stream' \in Seq(Tasks)
    BY <1>2, TailFact DEF TypeOK, Receive
  <2>2. proc' \in [Tasks -> Proc]
    BY <1>2, <2>1 DEF TypeOK, Receive, Proc
  <2> QED BY <1>0, <1>2, <2>1, <2>2 DEF TypeOK, Receive, semaphore
<1>3. CASE Die
  <2>1. callbacks' \in [Tasks -> CallbackStatus \cup {"none"}]
    BY <1>3, AttemptType DEF Die, TypeOK, CallbackStatus
  <2>2. deaths' \in 0 .. MaxDeaths
    BY <1>3, CallbackAssumption DEF Die, TypeOK
  <2>3. /\ up' = FALSE /\ stream' = <<>> /\ permit' = 1 /\ waiters' = <<>>
        /\ proc' = [t \in Tasks |-> Idle]
    BY <1>3 DEF Die
  <2>4. UNCHANGED <<retention, faults>>
    BY <1>3 DEF Die
  <2>5. RetentionTypeOK' /\ faults' \in 0 .. MaxFaults
    BY <1>0, <2>4 DEF TypeOK
  <2>6. stream' \in Seq(Tasks) /\ waiters' \in Seq(Tasks)
    BY <2>3
  <2>7. proc' \in [Tasks -> Proc] /\ up' \in BOOLEAN /\ permit' \in {0, 1}
    BY <2>3, IdleType
  <2> QED BY <2>1, <2>2, <2>5, <2>6, <2>7 DEF TypeOK
<1>4. CASE Restart
  BY <1>0, <1>4 DEF TypeOK, Restart, semaphore
<1>5. ASSUME NEW t \in Tasks, Add(t) PROVE TypeOK'
  <2>1. stream' \in Seq(Tasks)
    BY <1>5, AppendFact DEF TypeOK, Add
  <2> QED BY <1>0, <1>5, <2>1 DEF TypeOK, Add, semaphore, CallbackStatus
<1>6. ASSUME NEW t \in Tasks, ProcessCallback(t) PROVE TypeOK'
  <2>1. CASE Acquire(t)
    <3>1. Append(waiters, t) \in Seq(Tasks)
      BY AppendFact DEF TypeOK
    <3> QED BY <1>0, <2>1, <3>1 DEF TypeOK, Acquire, Proc
  <2>2. CASE Complete(t)
    <3>1. Attempt(t, "success") /\ Left(t)
      BY <2>2 DEF Complete, Left
    <3> QED BY <1>0, <2>2, <3>1, AttemptType, LeftType DEF TypeOK, Complete, CallbackStatus
  <2>3. CASE Drop(t)
    <3>1. Left(t)
      BY <2>3 DEF Drop, Left
    <3> QED BY <1>0, <2>3, <3>1, LeftType DEF TypeOK, Drop
  <2>4. CASE EndBackoff(t)
    <3>1. UNCHANGED <<retention, callbacks, up, stream, faults, deaths>>
      BY <2>4 DEF EndBackoff
    <3> QED BY <1>0, <2>4, <3>1, EndBackoffType DEF TypeOK
  <2>5. CASE SessionRefuses(t)
    BY <1>0, <2>5, BackOffType DEF TypeOK, SessionRefuses
  <2>6. CASE LookupFails(t)
    BY <1>0, <2>6, BackOffType, DatabaseErrorType DEF TypeOK, LookupFails
  <2>7. CASE BeginCommitFails(t)
    <3>1. callbacks[t] \in CallbackStatus \cup {"none"}
      BY DEF TypeOK
    <3> QED BY <1>0, <2>7, <3>1, AttemptType, BackOffType, DatabaseErrorType
            DEF TypeOK, BeginCommitFails
  <2>8. CASE FinishCommitFails(t)
    BY <1>0, <2>8, AttemptType, BackOffType, DatabaseErrorType
    DEF TypeOK, FinishCommitFails, CallbackStatus
  <2> QED BY <1>6, <2>1, <2>2, <2>3, <2>4, <2>5, <2>6, <2>7, <2>8 DEF ProcessCallback
<1>7. CASE RetentionNext /\ UNCHANGED <<callbacks, memory, faults, deaths>>
  BY <1>0, <1>7, StepRetention DEF TypeOK, memory, semaphore
<1> QED BY <1>1, <1>2, <1>3, <1>4, <1>5, <1>6, <1>7 DEF Next

\* Every variable keeps its type: in particular no coroutine of callbacks
\* counts max_retries attempts, so their branch that stores FAILED is dead.
THEOREM TypeCorrect == Spec => []TypeOK
<1> QED BY InitType, StepType, PTL DEF Spec

----------------------------------------------------------------------------
(* The semaphore.                                                          *)

\* OneAtATime, without the set of the owners.
Conserved ==
  IF permit = 1
  THEN waiters = <<>> /\ \A t \in Tasks : ~Holding(t)
  ELSE \E t \in Tasks : Holding(t) /\ \A u \in Tasks : Holding(u) => u = t

LEMMA ConservedIsOneAtATime == Conserved <=> OneAtATime
  BY DEF Conserved, OneAtATime

\* Who queues on the semaphore waits for it, and queues once.
WaitersWait ==
  /\ \A i \in DOMAIN waiters : proc[waiters[i]].pc = "waiting"
  /\ \A i, j \in DOMAIN waiters : waiters[i] = waiters[j] => i = j

SemaphoreInv == Conserved /\ WaitersWait

\* A step that moves a coroutine neither to nor from the semaphore.
LEMMA SemaphoreKept ==
  ASSUME TypeOK, TypeOK', SemaphoreInv, UNCHANGED <<permit, waiters>>,
         \A c \in Tasks : /\ Holding(c)' <=> Holding(c)
                          /\ proc[c].pc = "waiting" => proc'[c].pc = "waiting"
  PROVE  SemaphoreInv'
<1>1. WaitersWait'
  BY DEF SemaphoreInv, WaitersWait, TypeOK
<1>2. Conserved'
  BY DEF SemaphoreInv, Conserved
<1> QED BY <1>1, <1>2 DEF SemaphoreInv

\* The owner leaves and does not queue up again.
LEMMA SemaphoreReleased ==
  ASSUME TypeOK, SemaphoreInv, NEW c \in Tasks, Holding(c), Left(c)
  PROVE  /\ SemaphoreInv'
         /\ proc' \in [Tasks -> Proc]
         /\ proc'[c] = Idle
         /\ \A d \in Tasks \ {c} :
               \/ proc'[d] = proc[d]
               \/ /\ proc[d].pc = "waiting" /\ proc'[d].pc = "granted"
                  /\ proc'[d].broken = proc[d].broken
<1>0. /\ proc' \in [Tasks -> Proc]
      /\ permit = 0
      /\ \A d \in Tasks : Holding(d) => d = c
  BY LeftType DEF TypeOK, SemaphoreInv, Conserved
<1>1. CASE waiters = <<>>
  <2>1. proc' = [proc EXCEPT ![c] = Idle] /\ permit' = 1 /\ waiters' = <<>>
    BY <1>1 DEF Left, Release
  <2>2. \A d \in Tasks : proc'[d] = IF d = c THEN Idle ELSE proc[d]
    BY <2>1 DEF TypeOK
  <2>3. Conserved'
    BY <1>0, <2>1, <2>2 DEF Conserved, Holding, Idle
  <2>4. WaitersWait'
    BY <2>1 DEF WaitersWait
  <2> QED BY <1>0, <2>2, <2>3, <2>4 DEF SemaphoreInv
<1>2. CASE waiters # <<>>
  <2> DEFINE h == Head(waiters)
  <2>1. /\ h \in Tasks
        /\ h = waiters[1]
        /\ 1 \in DOMAIN waiters
        /\ DOMAIN Tail(waiters) = 1 .. Len(waiters) - 1
        /\ DOMAIN waiters = 1 .. Len(waiters)
        /\ Len(waiters) \in Nat \ {0}
        /\ \A i \in 1 .. Len(waiters) - 1 : Tail(waiters)[i] = waiters[i + 1]
        /\ \A i \in 1 .. Len(waiters) : waiters[i] \in Tasks
    BY <1>2, TailFact DEF TypeOK
  <2>2. proc[h].pc = "waiting" /\ h # c
    BY <2>1 DEF SemaphoreInv, WaitersWait, Holding
  <2>3. /\ proc' = [[proc EXCEPT ![c] = Idle] EXCEPT ![h].pc = "granted"]
        /\ waiters' = Tail(waiters)
        /\ permit' = 0
    BY <1>0, <1>2 DEF Left, Release
  <2>4. /\ proc'[c] = Idle
        /\ proc'[h] = [proc[h] EXCEPT !.pc = "granted"]
        /\ \A d \in Tasks \ {c, h} : proc'[d] = proc[d]
    BY <2>1, <2>2, <2>3 DEF TypeOK
  <2>5. /\ proc'[h].broken = proc[h].broken
        /\ proc'[h].pc = "granted"
    BY <2>1, <2>4 DEF TypeOK, Proc
  <2>6. Conserved'
    BY <1>0, <2>1, <2>3, <2>4, <2>5 DEF Conserved, Holding, Idle
  <2>7. ASSUME NEW i \in DOMAIN waiters'
        PROVE  proc'[waiters'[i]].pc = "waiting"
    <3>1. i + 1 \in DOMAIN waiters /\ waiters'[i] = waiters[i + 1] /\ i + 1 # 1
      BY <2>1, <2>3, <2>7
    <3>2. waiters[i + 1] # h /\ proc[waiters[i + 1]].pc = "waiting"
      BY <2>1, <3>1 DEF SemaphoreInv, WaitersWait
    <3>3. waiters[i + 1] # c /\ waiters[i + 1] \in Tasks
      BY <2>1, <3>1, <3>2 DEF Holding
    <3> QED BY <2>4, <3>1, <3>2, <3>3
  <2>8. ASSUME NEW i \in DOMAIN waiters', NEW j \in DOMAIN waiters',
               waiters'[i] = waiters'[j]
        PROVE  i = j
    <3>1. /\ i \in Int /\ j \in Int
          /\ i + 1 \in DOMAIN waiters /\ j + 1 \in DOMAIN waiters
          /\ waiters[i + 1] = waiters[j + 1]
      BY <2>1, <2>3, <2>8
    <3> QED BY <3>1 DEF SemaphoreInv, WaitersWait
  <2> QED BY <1>0, <2>2, <2>4, <2>5, <2>6, <2>7, <2>8 DEF SemaphoreInv, WaitersWait
<1> QED BY <1>1, <1>2

\* The first acquire of a coroutine.
LEMMA SemaphoreAcquired ==
  ASSUME TypeOK, SemaphoreInv, NEW c \in Tasks, Acquire(c)
  PROVE  /\ SemaphoreInv'
         /\ proc'[c].pc \in {"granted", "waiting"}
         /\ proc'[c].broken = proc[c].broken
         /\ \A d \in Tasks \ {c} : proc'[d] = proc[d]
<1>1. CASE permit = 1 /\ waiters = <<>>
  <2>1. /\ permit' = 0
        /\ waiters' = <<>>
        /\ proc' = [proc EXCEPT ![c].pc = "granted"]
    BY <1>1 DEF Acquire, Free
  <2>2. /\ proc'[c].pc = "granted"
        /\ proc'[c].broken = proc[c].broken
        /\ \A d \in Tasks \ {c} : proc'[d] = proc[d]
    BY <2>1 DEF TypeOK, Proc
  <2>3. Conserved'
    BY <1>1, <2>1, <2>2 DEF SemaphoreInv, Conserved, Holding
  <2>4. WaitersWait'
    BY <2>1 DEF WaitersWait
  <2> QED BY <2>2, <2>3, <2>4 DEF SemaphoreInv
<1>2. CASE ~(permit = 1 /\ waiters = <<>>)
  <2>1. /\ proc[c].pc = "spawned"
        /\ permit' = permit
        /\ waiters' = Append(waiters, c)
        /\ proc' = [proc EXCEPT ![c].pc = "waiting"]
    BY <1>2 DEF Acquire, Free
  <2>2. /\ proc'[c].pc = "waiting"
        /\ proc'[c].broken = proc[c].broken
        /\ \A d \in Tasks \ {c} : proc'[d] = proc[d]
    BY <2>1 DEF TypeOK, Proc
  <2>3. permit = 0
    BY <1>2 DEF TypeOK, SemaphoreInv, Conserved
  <2>4. Conserved'
    BY <2>1, <2>2, <2>3 DEF SemaphoreInv, Conserved, Holding
  <2>5. /\ DOMAIN waiters = 1 .. Len(waiters)
        /\ Len(waiters) \in Nat
        /\ DOMAIN waiters' = 1 .. Len(waiters) + 1
        /\ \A i \in 1 .. Len(waiters) : waiters'[i] = waiters[i] /\ waiters[i] \in Tasks
        /\ waiters'[Len(waiters) + 1] = c
    BY <2>1, AppendFact DEF TypeOK
  <2>6. \A i \in 1 .. Len(waiters) : waiters[i] # c /\ proc[waiters[i]].pc = "waiting"
    BY <2>1, <2>5 DEF SemaphoreInv, WaitersWait
  <2>7. WaitersWait'
    BY <2>2, <2>5, <2>6 DEF SemaphoreInv, WaitersWait
  <2> QED BY <2>2, <2>4, <2>7 DEF SemaphoreInv
<1> QED BY <1>1, <1>2

\* The owner backs off from a failed attempt and queues up for the next one:
\* behind the waiting coroutines, or first when there are none.
LEMMA SemaphoreRequeued ==
  ASSUME TypeOK, SemaphoreInv, NEW c \in Tasks, EndBackoff(c),
         proc[c].retries + 1 # MaxRetries
  PROVE  /\ SemaphoreInv'
         /\ \A d \in Tasks :
               \/ proc'[d] = proc[d]
               \/ /\ proc[d].pc \in {"waiting", "backoff"}
                  /\ proc'[d].pc \in {"waiting", "granted"}
                  /\ proc'[d].broken = proc[d].broken
<1> DEFINE again == [proc[c] EXCEPT !.retries = @ + 1]
<1>1. /\ again.broken = proc[c].broken
      /\ proc[c].pc = "backoff"
      /\ [again EXCEPT !.pc = "granted"].broken = proc[c].broken
      /\ [again EXCEPT !.pc = "granted"].pc = "granted"
      /\ [again EXCEPT !.pc = "waiting"].broken = proc[c].broken
      /\ [again EXCEPT !.pc = "waiting"].pc = "waiting"
  BY DEF TypeOK, Proc, EndBackoff, LastAttempt, NextAttempt, semaphore
<1>2. permit = 0 /\ \A d \in Tasks : Holding(d) => d = c
  BY <1>1 DEF TypeOK, SemaphoreInv, Conserved, Holding
<1>3. CASE waiters = <<>>
  <2>1. /\ proc' = [proc EXCEPT ![c] = [again EXCEPT !.pc = "granted"]]
        /\ permit' = 0 /\ waiters' = <<>>
    BY <1>2, <1>3 DEF EndBackoff, LastAttempt, NextAttempt, semaphore
  <2> HIDE DEF again
  <2>2. /\ proc'[c] = [again EXCEPT !.pc = "granted"]
        /\ \A d \in Tasks \ {c} : proc'[d] = proc[d]
    BY <2>1 DEF TypeOK
  <2>3. Conserved'
    BY <1>1, <1>2, <2>1, <2>2 DEF Conserved, Holding
  <2>4. WaitersWait'
    BY <2>1 DEF WaitersWait
  <2> QED BY <1>1, <2>2, <2>3, <2>4 DEF SemaphoreInv
<1>4. CASE waiters # <<>>
  <2> DEFINE h == Head(waiters)
             tl == Tail(waiters)
             n == Len(waiters)
  <2>1. /\ h \in Tasks
        /\ h = waiters[1]
        /\ tl \in Seq(Tasks)
        /\ DOMAIN tl = 1 .. n - 1
        /\ DOMAIN waiters = 1 .. n
        /\ n \in Nat \ {0}
        /\ \A i \in 1 .. n - 1 : tl[i] = waiters[i + 1]
        /\ \A i \in 1 .. n : waiters[i] \in Tasks
    BY <1>4, TailFact DEF TypeOK
  <2>2. proc[h].pc = "waiting" /\ h # c
    BY <1>1, <2>1 DEF SemaphoreInv, WaitersWait
  <2>3. /\ proc' = [proc EXCEPT ![c] = [again EXCEPT !.pc = "waiting"],
                                ![h].pc = "granted"]
        /\ waiters' = Append(tl, c)
        /\ permit' = 0
    BY <1>2, <1>4 DEF EndBackoff, LastAttempt, NextAttempt, semaphore
  <2>4. /\ DOMAIN waiters' = 1 .. n
        /\ \A i \in 1 .. n - 1 : waiters'[i] = waiters[i + 1]
        /\ waiters'[n] = c
    <3>1. Len(tl) = n - 1
      BY <2>1, AppendFact
    <3> HIDE DEF tl, n
    <3> QED BY <2>1, <2>3, <3>1, AppendFact
  <2> HIDE DEF again, tl, n
  <2>5. /\ proc'[c] = [again EXCEPT !.pc = "waiting"]
        /\ proc'[h] = [proc[h] EXCEPT !.pc = "granted"]
        /\ \A d \in Tasks \ {c, h} : proc'[d] = proc[d]
    BY <2>1, <2>2, <2>3 DEF TypeOK
  <2>6. /\ proc'[h].broken = proc[h].broken
        /\ proc'[h].pc = "granted"
        /\ proc'[c].broken = proc[c].broken
        /\ proc'[c].pc = "waiting"
        /\ \A d \in Tasks \ {c, h} : proc'[d] = proc[d]
    BY <1>1, <2>1, <2>5 DEF TypeOK, Proc
  <2>7. h \in Tasks /\ permit' = 0
    BY <2>1, <2>3
  <2> HIDE DEF h
  <2>8. Conserved'
    BY <1>2, <2>7, <2>2, <2>6 DEF Conserved, Holding
  <2>9. \A i \in 1 .. n - 1 :
           /\ waiters'[i] \in Tasks \ {c, h}
           /\ proc[waiters'[i]].pc = "waiting"
    <3> SUFFICES ASSUME NEW i \in 1 .. n - 1
                 PROVE  /\ waiters'[i] \in Tasks \ {c, h}
                        /\ proc[waiters'[i]].pc = "waiting"
      OBVIOUS
    <3>1. /\ i + 1 \in 1 .. n /\ 1 \in 1 .. n /\ i + 1 # 1
          /\ waiters'[i] = waiters[i + 1]
      BY <2>1, <2>4
    <3>2. proc[waiters[i + 1]].pc = "waiting" /\ waiters[i + 1] # waiters[1]
      BY <2>1, <3>1 DEF SemaphoreInv, WaitersWait
    <3> QED BY <1>1, <2>1, <3>1, <3>2
  <2>10. \A i, j \in 1 .. n - 1 : waiters'[i] = waiters'[j] => i = j
    <3> SUFFICES ASSUME NEW i \in 1 .. n - 1, NEW j \in 1 .. n - 1,
                        waiters'[i] = waiters'[j]
                 PROVE  i = j
      OBVIOUS
    <3>1. /\ i \in Int /\ j \in Int
          /\ i + 1 \in DOMAIN waiters /\ j + 1 \in DOMAIN waiters
          /\ waiters[i + 1] = waiters[j + 1]
      BY <2>1, <2>4
    <3> QED BY <3>1 DEF SemaphoreInv, WaitersWait
  <2>11. WaitersWait'
    <3>1. \A i \in 1 .. n : i \in 1 .. n - 1 \/ i = n
      BY <2>1
    <3>2. \A i \in 1 .. n : proc'[waiters'[i]].pc = "waiting"
      BY <2>4, <2>6, <2>9, <3>1
    <3>3. \A i, j \in 1 .. n : waiters'[i] = waiters'[j] => i = j
      BY <2>4, <2>9, <2>10, <3>1
    <3> QED BY <2>4, <3>2, <3>3 DEF WaitersWait
  <2>12. \A d \in Tasks \ {c, h} : proc'[d] = proc[d]
    BY <2>6
  <2> QED BY <1>1, <2>2, <2>6, <2>8, <2>11, <2>12 DEF SemaphoreInv
<1> QED BY <1>3, <1>4


----------------------------------------------------------------------------
(* The stream.                                                             *)

SentOnce == \A i, j \in DOMAIN stream : stream[i] = stream[j] => i = j

\* A callback is on the stream or has a coroutine, never both, and neither
\* before it is added.
Sound(t) ==
  /\ callbacks[t] = "none" => proc[t] = Idle
  /\ proc[t].pc = "idle" => proc[t] = Idle
  /\ Sent(t) => proc[t] = Idle /\ callbacks[t] # "none"

StreamInv == SentOnce /\ \A t \in Tasks : Sound(t)

LEMMA InitStream == Init => StreamInv
  BY DEF Init, StreamInv, SentOnce, Sound, Sent, Idle

\* A step that neither adds the callback nor sends it, and at most ends its
\* coroutine.
LEMMA SoundKept ==
  ASSUME TypeOK, TypeOK', NEW t \in Tasks, Sound(t),
         callbacks'[t] = callbacks[t] \/ (callbacks[t] # "none" /\ callbacks'[t] # "none"),
         Sent(t)' => Sent(t),
         \/ proc'[t] \in {proc[t], Idle}
         \/ proc[t].pc # "idle" /\ proc'[t].pc # "idle"
  PROVE  Sound(t)'
  BY DEF Sound, Idle, TypeOK, Proc

LEMMA OthersAttempted ==
  ASSUME TypeOK, NEW t \in Tasks, NEW s, Attempt(t, s), NEW u \in Tasks \ {t}
  PROVE  callbacks'[u] = callbacks[u]
  BY DEF Attempt, TypeOK

\* An attempt changes the status of a callback that was added.
LEMMA AttemptAdded ==
  ASSUME TypeOK, NEW t \in Tasks, Sound(t), NEW s \in {"success", "in_progress", callbacks[t]},
         Attempt(t, s)
  PROVE  callbacks[t] # "none" /\ callbacks'[t] # "none"
  BY DEF Attempt, Sound, Idle, TypeOK

LEMMA StepStream ==
  TypeOK /\ TypeOK' /\ SemaphoreInv /\ StreamInv /\ [Next]_vars => StreamInv'
<1> SUFFICES ASSUME TypeOK, TypeOK', SemaphoreInv, StreamInv, [Next]_vars PROVE StreamInv'
  OBVIOUS
<1>0. \A t \in Tasks : Sound(t)
  BY DEF StreamInv
<1>1. CASE UNCHANGED <<callbacks, stream, proc, deaths>>
  BY <1>1 DEF StreamInv, SentOnce, Sound, Sent
<1>2. CASE Receive
  <2>0. PICK h \in Tasks : h = Head(stream)
    BY <1>2, TailFact DEF Receive, TypeOK
  <2> DEFINE n == Len(stream)
  <2>1. /\ h = stream[1]
        /\ n \in Nat \ {0}
        /\ DOMAIN stream = 1 .. n
        /\ DOMAIN stream' = 1 .. n - 1
        /\ \A i \in 1 .. n - 1 : stream'[i] = stream[i + 1]
    BY <1>2, <2>0, TailFact DEF Receive, TypeOK
  <2>2. /\ UNCHANGED <<callbacks, deaths>>
        /\ proc' = [proc EXCEPT ![h].pc = "spawned"]
    BY <1>2, <2>0 DEF Receive
  <2> HIDE DEF n
  <2>3. SentOnce'
    <3> SUFFICES ASSUME NEW i \in 1 .. n - 1, NEW j \in 1 .. n - 1, stream'[i] = stream'[j]
                 PROVE  i = j
      BY <2>1 DEF SentOnce
    <3>1. /\ i \in Int /\ j \in Int
          /\ i + 1 \in DOMAIN stream /\ j + 1 \in DOMAIN stream
          /\ stream[i + 1] = stream[j + 1]
      BY <2>1
    <3> QED BY <3>1 DEF StreamInv, SentOnce
  <2>4. \A t \in Tasks : Sent(t)' => Sent(t) /\ t # h
    <3> SUFFICES ASSUME NEW i \in 1 .. n - 1
                 PROVE  \E j \in DOMAIN stream : stream[j] = stream'[i] /\ stream[j] # h
      BY <2>1 DEF Sent
    <3>1. i + 1 \in DOMAIN stream /\ 1 \in DOMAIN stream /\ i + 1 # 1
      BY <2>1
    <3>2. stream[i + 1] = stream'[i] /\ stream[i + 1] # stream[1]
      BY <2>1, <3>1 DEF StreamInv, SentOnce
    <3> QED BY <2>1, <3>1, <3>2
  <2>5. proc[h] = Idle /\ callbacks[h] # "none"
    <3>1. Sent(h)
      BY <2>1 DEF Sent
    <3> QED BY <1>0, <2>1, <3>1 DEF Sound
  <2>6. Sound(h)'
    <3>1. proc'[h].pc = "spawned"
      BY <2>1, <2>2 DEF TypeOK, Proc
    <3>2. ~Sent(h)'
      BY <2>1, <2>4
    <3>3. UNCHANGED callbacks[h]
      BY <2>2
    <3> QED BY <2>5, <3>1, <3>2, <3>3 DEF Sound
  <2>7. ASSUME NEW t \in Tasks, t # h PROVE Sound(t)'
    <3>1. proc'[t] = proc[t]
      BY <2>1, <2>2, <2>7 DEF TypeOK
    <3> QED BY <1>0, <2>2, <2>4, <3>1, SoundKept
  <2> QED BY <2>3, <2>6, <2>7 DEF StreamInv
<1>3. CASE Die
  <2>1. /\ proc' = [t \in Tasks |-> Idle]
        /\ stream' = <<>>
        /\ deaths' # 0
    BY <1>3 DEF Die, TypeOK
  <2>2. SentOnce' /\ \A t \in Tasks : ~Sent(t)'
    BY <2>1 DEF SentOnce, Sent
  <2>3. ASSUME NEW t \in Tasks, UNCHANGED callbacks PROVE Sound(t)'
    BY <1>0, <2>1, <2>2, <2>3, SoundKept
  <2>4. ASSUME NEW t \in Tasks, NEW u \in Tasks, Attempt(u, "in_progress") PROVE Sound(t)'
    <3>1. CASE t = u
      BY <1>0, <2>1, <2>2, <2>4, <3>1, AttemptAdded, SoundKept
    <3>2. CASE t # u
      BY <1>0, <2>1, <2>2, <2>4, <3>2, OthersAttempted, SoundKept
    <3> QED BY <3>1, <3>2
  <2> QED BY <1>3, <2>2, <2>3, <2>4 DEF Die, StreamInv
<1>4. ASSUME NEW t \in Tasks, Add(t) PROVE StreamInv'
  <2>1. /\ callbacks[t] = "none"
        /\ callbacks' = [callbacks EXCEPT ![t] = "in_queue"]
        /\ stream' = Append(stream, t)
        /\ UNCHANGED <<proc, deaths>>
    BY <1>4 DEF Add
  <2>2. proc[t] = Idle /\ ~Sent(t)
    BY <1>0, <2>1 DEF Sound
  <2>3. /\ DOMAIN stream = 1 .. Len(stream)
        /\ Len(stream) \in Nat
        /\ DOMAIN stream' = 1 .. Len(stream) + 1
        /\ \A i \in 1 .. Len(stream) : stream'[i] = stream[i]
        /\ stream'[Len(stream) + 1] = t
    BY <2>1, AppendFact DEF TypeOK
  <2>4. SentOnce' /\ \A u \in Tasks \ {t} : Sent(u)' => Sent(u)
    BY <2>2, <2>3 DEF SentOnce, Sent, StreamInv
  <2>5. Sound(t)'
    BY <2>1, <2>2 DEF Sound, Idle, TypeOK
  <2>6. ASSUME NEW u \in Tasks \ {t} PROVE Sound(u)'
    <3>1. callbacks'[u] = callbacks[u]
      BY <2>1 DEF TypeOK
    <3> QED BY <1>0, <2>1, <2>4, <3>1, SoundKept
  <2> QED BY <2>4, <2>5, <2>6 DEF StreamInv
<1>5. ASSUME NEW t \in Tasks, ProcessCallback(t) PROVE StreamInv'
  <2>1. UNCHANGED <<stream, deaths>>
    BY <1>5 DEF ProcessCallback, Acquire, Complete, Drop, EndBackoff, SessionRefuses,
                LookupFails, BeginCommitFails, FinishCommitFails, BackOff
  <2>2. SentOnce' /\ \A u : Sent(u)' <=> Sent(u)
    BY <2>1 DEF StreamInv, SentOnce, Sent
  \* The coroutine leaves the semaphore, having made an attempt or not.
  <2>3. ASSUME Holding(t), Left(t), NEW u \in Tasks,
               \/ callbacks'[u] = callbacks[u]
               \/ callbacks[u] # "none" /\ callbacks'[u] # "none"
        PROVE  Sound(u)'
    <3>1. CASE u = t
      BY <1>0, <2>1, <2>2, <2>3, <3>1, SemaphoreReleased, SoundKept
    <3>2. CASE u # t
      <4>1. \/ proc'[u] = proc[u]
            \/ /\ proc[u].pc = "waiting" /\ proc'[u].pc = "granted"
               /\ proc'[u].broken = proc[u].broken
        BY <2>3, <3>2, SemaphoreReleased
      <4> QED BY <1>0, <2>1, <2>2, <2>3, <4>1, SoundKept
    <3> QED BY <3>1, <3>2
  <2>4. CASE Acquire(t)
    BY <1>0, <2>1, <2>2, <2>4, SemaphoreAcquired, SoundKept DEF Acquire, StreamInv
  <2>5. CASE Complete(t)
    <3>1. Attempt(t, "success") /\ Holding(t) /\ Left(t)
      BY <2>5 DEF Complete, Attempt, Holding, Left
    <3>2. callbacks[t] # "none" /\ callbacks'[t] # "none"
      BY <1>0, <3>1, AttemptAdded
    <3>3. Sound(t)'
      BY <2>3, <3>1, <3>2
    <3>4. \A u \in Tasks \ {t} : Sound(u)'
      BY <2>3, <3>1, OthersAttempted
    <3> QED BY <2>2, <3>3, <3>4 DEF StreamInv
  <2>6. CASE Drop(t)
    <3>1. Holding(t) /\ Left(t) /\ UNCHANGED callbacks
      BY <2>6 DEF Drop, Holding, Left
    <3> QED BY <2>2, <2>3, <3>1 DEF StreamInv
  <2>7. CASE EndBackoff(t)
    <3>1. UNCHANGED callbacks
      BY <2>7 DEF EndBackoff
    <3>2. CASE LastAttempt(proc[t])
      <4>1. Holding(t) /\ Left(t)
        BY <2>7, <3>2 DEF EndBackoff, Holding, Left
      <4> QED BY <2>2, <2>3, <3>1, <4>1 DEF StreamInv
    <3>3. CASE ~LastAttempt(proc[t])
      <4>1. \A u \in Tasks : \/ proc'[u] = proc[u]
                             \/ /\ proc[u].pc \in {"waiting", "backoff"}
                                /\ proc'[u].pc \in {"waiting", "granted"}
                                /\ proc'[u].broken = proc[u].broken
        BY <2>7, <3>3, SemaphoreRequeued DEF LastAttempt
      <4> QED BY <1>0, <2>1, <2>2, <3>1, <4>1, SoundKept DEF StreamInv
    <3> QED BY <3>2, <3>3
  <2>8. ASSUME NEW brk \in BOOLEAN, BackOff(t, brk), proc[t].pc = "granted"
        PROVE  /\ proc'[t].pc = "backoff" /\ proc'[t].broken = brk
               /\ \A u \in Tasks \ {t} : proc'[u] = proc[u]
    BY <2>8 DEF BackOff, TypeOK, Proc
  <2>9. CASE SessionRefuses(t) \/ LookupFails(t)
    <3>1. /\ UNCHANGED callbacks
          /\ proc[t].pc = "granted"
          /\ BackOff(t, proc[t].broken)
          /\ proc[t].broken \in BOOLEAN
      BY <2>9 DEF SessionRefuses, LookupFails, TypeOK, Proc
    <3> QED BY <1>0, <2>1, <2>2, <2>8, <3>1, SoundKept DEF StreamInv
  <2>10. CASE BeginCommitFails(t) \/ FinishCommitFails(t)
    <3>1. Attempt(t, callbacks[t]) \/ Attempt(t, "in_progress")
      BY <2>10 DEF BeginCommitFails, FinishCommitFails
    <3>2. BackOff(t, TRUE) /\ proc[t].pc = "granted"
      BY <2>10 DEF BeginCommitFails, FinishCommitFails, Attempt
    <3>3. Sound(t)'
      BY <1>0, <2>1, <2>2, <2>8, <3>1, <3>2, AttemptAdded, SoundKept
    <3>4. ASSUME NEW u \in Tasks \ {t} PROVE Sound(u)'
      BY <1>0, <2>1, <2>2, <2>8, <3>1, <3>2, OthersAttempted, SoundKept
    <3> QED BY <2>2, <3>3, <3>4 DEF StreamInv
  <2> QED BY <1>5, <2>4, <2>5, <2>6, <2>7, <2>9, <2>10 DEF ProcessCallback
<1>6. CASE UNCHANGED vars
  BY <1>1, <1>6 DEF vars, memory
<1>7. CASE Restart
  BY <1>1, <1>7 DEF Restart
<1>8. CASE RetentionNext /\ UNCHANGED <<callbacks, memory, faults, deaths>>
  BY <1>1, <1>8 DEF memory
<1> QED BY <1>2, <1>3, <1>4, <1>5, <1>6, <1>7, <1>8 DEF Next

\* A coroutine is spawned for an id of the stream, which has none before.
LEMMA StepSemaphore ==
  TypeOK /\ TypeOK' /\ SemaphoreInv /\ StreamInv /\ [Next]_vars => SemaphoreInv'
<1> SUFFICES ASSUME TypeOK, TypeOK', SemaphoreInv, StreamInv, [Next]_vars PROVE SemaphoreInv'
  OBVIOUS
<1>1. CASE UNCHANGED <<proc, permit, waiters>>
  BY <1>1, SemaphoreKept DEF Holding
<1>2. CASE Receive
  <2>0. PICK h \in Tasks : h = Head(stream) /\ h = stream[1] /\ 1 \in DOMAIN stream
    BY <1>2, TailFact DEF Receive, TypeOK
  <2>1. proc[h] = Idle
    BY <2>0 DEF StreamInv, Sound, Sent
  <2>2. \A c \in Tasks : proc'[c] = IF c = h THEN [Idle EXCEPT !.pc = "spawned"]
                                             ELSE proc[c]
    BY <1>2, <2>0, <2>1 DEF Receive, TypeOK
  <2> QED BY <1>2, <2>1, <2>2, SemaphoreKept DEF Receive, semaphore, Holding, Idle
<1>3. CASE Die
  BY <1>3 DEF Die, SemaphoreInv, Conserved, WaitersWait, Holding, Idle
<1>4. ASSUME NEW t \in Tasks, ProcessCallback(t) PROVE SemaphoreInv'
  <2>1. CASE Acquire(t)
    BY <2>1, SemaphoreAcquired
  <2>2. CASE Complete(t)
    <3>1. Holding(t) /\ Left(t)
      BY <2>2 DEF Complete, Attempt, Holding, Left
    <3> QED BY <3>1, SemaphoreReleased
  <2>3. CASE Drop(t)
    <3>1. Holding(t) /\ Left(t)
      BY <2>3 DEF Drop, Holding, Left
    <3> QED BY <3>1, SemaphoreReleased
  <2>4. CASE EndBackoff(t)
    <3>1. CASE LastAttempt(proc[t])
      <4>1. Holding(t) /\ Left(t)
        BY <2>4, <3>1 DEF EndBackoff, Holding, Left
      <4> QED BY <4>1, SemaphoreReleased
    <3>2. CASE ~LastAttempt(proc[t])
      BY <2>4, <3>2, SemaphoreRequeued DEF LastAttempt
    <3> QED BY <3>1, <3>2
  <2>5. ASSUME NEW brk \in BOOLEAN, BackOff(t, brk), proc[t].pc = "granted"
        PROVE  SemaphoreInv'
    <3>1. \A c \in Tasks : proc'[c] = IF c = t THEN [proc[t] EXCEPT !.pc = "backoff",
                                                                    !.broken = brk]
                                               ELSE proc[c]
      BY <2>5 DEF BackOff, TypeOK
    <3>2. proc'[t].pc = "backoff"
      BY <3>1 DEF TypeOK, Proc
    <3>3. UNCHANGED <<permit, waiters>>
      BY <2>5 DEF BackOff, semaphore
    <3> QED BY <2>5, <3>1, <3>2, <3>3, SemaphoreKept DEF Holding
  <2>6. CASE \/ SessionRefuses(t) \/ LookupFails(t)
             \/ BeginCommitFails(t) \/ FinishCommitFails(t)
    <3>1. proc[t].pc = "granted" /\ (BackOff(t, TRUE) \/ BackOff(t, FALSE))
      BY <2>6 DEF SessionRefuses, LookupFails, BeginCommitFails, FinishCommitFails,
                  Attempt
    <3> QED BY <2>5, <3>1
  <2> QED BY <1>4, <2>1, <2>2, <2>3, <2>4, <2>6 DEF ProcessCallback
<1>5. CASE UNCHANGED vars
  BY <1>1, <1>5 DEF vars, memory, semaphore
<1>6. CASE Restart
  BY <1>1, <1>6 DEF Restart, semaphore
<1>7. ASSUME NEW t \in Tasks, Add(t) PROVE SemaphoreInv'
  BY <1>1, <1>7 DEF Add, semaphore
<1>8. CASE RetentionNext /\ UNCHANGED <<callbacks, memory, faults, deaths>>
  BY <1>1, <1>8 DEF memory, semaphore
<1> QED BY <1>2, <1>3, <1>4, <1>5, <1>6, <1>7, <1>8 DEF Next

----------------------------------------------------------------------------
(* The retention.                                                          *)

LEMMA Remainder ==
  ASSUME NEW d \in Nat \ {0}, NEW n \in Nat, NEW q \in Nat, NEW r \in 0 .. d - 1,
         n = d * q + r
  PROVE  r = n % d
  OBVIOUS

\* The hour within the day, one hour later.
LEMMA NextHour ==
  ASSUME NEW d \in Nat \ {0}, NEW n \in Nat
  PROVE  /\ n % d \in 0 .. d - 1
         /\ (n + 1) % d = IF n % d = d - 1 THEN 0 ELSE (n % d) + 1
<1>1. PICK q \in Nat, r \in 0 .. d - 1 : q = n \div d /\ r = n % d
  OBVIOUS
<1>2. n = d * q + r
  BY <1>1
<1>3. CASE r = d - 1
  <2>1. n + 1 = d * (q + 1) + 0
    BY <1>2, <1>3
  <2>2. q + 1 \in Nat /\ n + 1 \in Nat /\ 0 \in 0 .. d - 1
    OBVIOUS
  <2>3. 0 = (n + 1) % d
    BY <2>1, <2>2, Remainder
  <2> QED BY <1>1, <1>3, <2>3
<1>4. CASE r # d - 1
  <2>1. n + 1 = d * q + (r + 1) /\ r + 1 \in 0 .. d - 1
    BY <1>2, <1>4
  <2>2. r + 1 \in 0 .. d - 1 /\ n + 1 \in Nat
    BY <1>4
  <2>3. r + 1 = (n + 1) % d
    BY <2>1, <2>2, Remainder
  <2> QED BY <1>1, <1>4, <2>3
<1> QED BY <1>3, <1>4

LastNight == now - (now % Day)

\* Nights on which the job of the SUCCESS rows has not done its work, tonight
\* included as long as it is due.
Lost == IF "success" \in due THEN skips + 1 ELSE skips

\* ReapedInTime at the last night, from which at most a day has passed.
Reaped(t) ==
  status[t] = "success" =>
     \E since \in {created[t] + Retention, completed[t]} : LastNight <= since + Day * Lost

NightInv ==
  /\ due # {} => now % Day = 0
  /\ \A t \in Tasks : Reaped(t)

LEMMA InitNight == Init => NightInv
  BY DEF Init, RetentionInit, NightInv, Reaped, Worker!Init

LEMMA RetentionStep == [Next]_vars => [RetentionNext]_retention
<1> SUFFICES ASSUME [Next]_vars, UNCHANGED retention \/ ~UNCHANGED retention
             PROVE  [RetentionNext]_retention
  OBVIOUS
<1>1. ASSUME NEW t \in Tasks, ProcessCallback(t) PROVE UNCHANGED retention
  BY <1>1 DEF ProcessCallback, Acquire, Complete, Drop, EndBackoff, SessionRefuses,
              LookupFails, BeginCommitFails, FinishCommitFails, BackOff
<1> QED BY <1>1 DEF Next, vars, Receive, Die, Restart, Add

LEMMA StepNight ==
  RetentionTypeOK /\ NightInv /\ [RetentionNext]_retention => NightInv'
<1> SUFFICES ASSUME RetentionTypeOK, NightInv, [RetentionNext]_retention
             PROVE  NightInv'
  OBVIOUS
<1>0. /\ now \in Nat /\ skips \in Nat /\ Day \in Nat \ {0} /\ Retention \in Nat
      /\ now % Day \in 0 .. Day - 1
      /\ \A t \in Tasks : created[t] \in Nat /\ completed[t] \in Nat
  BY RetentionAssumption, NextHour DEF RetentionTypeOK
<1>1. CASE UNCHANGED retention
  BY <1>1 DEF NightInv, Reaped, LastNight, Lost, retention, times
<1>2. CASE Tick
  <2>1. /\ due = {} /\ now' = now + 1
        /\ due' = IF now' % Day = 0 THEN Targets ELSE {}
        /\ UNCHANGED <<status, created, completed, skips>>
    BY <1>2 DEF Tick, times
  <2>2. CASE now' % Day = 0
    <3>1. now % Day = Day - 1
      <4>1. 0 = IF now % Day = Day - 1 THEN 0 ELSE (now % Day) + 1
        BY <1>0, <2>1, <2>2, NextHour
      <4> QED BY <1>0, <4>1
    <3>2. LastNight' = LastNight + Day /\ LastNight \in Int
      BY <1>0, <2>1, <2>2, <3>1 DEF LastNight
    <3>3. Lost = skips /\ Lost' = skips + 1
      BY <2>1, <2>2 DEF Lost, Targets
    <3>4. Day * (skips + 1) = Day * skips + Day /\ Day * skips \in Nat
      BY <1>0
    <3>5. ASSUME NEW t \in Tasks PROVE Reaped(t)'
      BY <1>0, <2>1, <3>2, <3>3, <3>4 DEF Reaped, NightInv
    <3> QED BY <2>2, <3>5 DEF NightInv
  <2>3. CASE now' % Day # 0
    <3>1. now' % Day = (now % Day) + 1
      BY <1>0, <2>1, <2>3, NextHour
    <3>2. LastNight' = LastNight
      BY <1>0, <2>1, <3>1 DEF LastNight
    <3>3. Lost' = Lost /\ due' = {}
      BY <2>1, <2>3 DEF Lost
    <3> QED BY <2>1, <3>2, <3>3 DEF NightInv, Reaped
  <2> QED BY <2>2, <2>3
<1>3. ASSUME NEW t \in Tasks, Submit(t) \/ Succeed(t) \/ Proceed(t) PROVE NightInv'
  <2>1. UNCHANGED <<now, due, skips>>
    BY <1>3 DEF Submit, Succeed, Proceed
  <2>2. LastNight' = LastNight /\ Lost' = Lost
    BY <2>1 DEF LastNight, Lost
  <2>3. ASSUME NEW u \in Tasks PROVE Reaped(u)'
    <3>1. CASE status'[u] # "success"
      BY <3>1 DEF Reaped
    <3>2. CASE Succeed(t) /\ u = t
      <4>1. completed'[u] = now
        BY <3>2 DEF Succeed, RetentionTypeOK
      <4>2. LastNight <= now + Day * Lost
        <5>1. Lost \in Nat /\ Day * Lost \in Nat
          BY <1>0 DEF Lost
        <5> QED BY <1>0, <5>1 DEF LastNight
      <4> QED BY <2>2, <4>1, <4>2 DEF Reaped
    <3>3. CASE status'[u] = "success" /\ ~(Succeed(t) /\ u = t)
      <4>1. UNCHANGED <<status[u], created[u], completed[u]>>
        BY <1>3, <3>3 DEF Submit, Succeed, Proceed, times, Worker!Submit,
              Worker!Succeed, Worker!Begin, Worker!Cancel, Worker!Move, RetentionTypeOK
      <4> QED BY <2>2, <4>1 DEF Reaped, NightInv
    <3> QED BY <3>1, <3>2, <3>3
  <2> QED BY <2>1, <2>3 DEF NightInv
<1>4. ASSUME NEW s \in Targets, Cleanup(s) PROVE NightInv'
  <2>1. PICK old \in SUBSET Tasks :
           /\ old = {t \in Tasks : status[t] = s /\ Expired(t)}
           /\ s \in due
           /\ Worker!Purge(old)
           /\ created' = [t \in Tasks |-> IF t \in old THEN 0 ELSE created[t]]
           /\ completed' = [t \in Tasks |-> IF t \in old THEN 0 ELSE completed[t]]
           /\ due' = due \ {s}
           /\ UNCHANGED <<now, skips>>
    BY <1>4 DEF Cleanup
  <2>2. now % Day = 0 /\ now' = now /\ LastNight' = LastNight /\ LastNight = now
    BY <1>0, <2>1 DEF NightInv, LastNight
  <2>3. Lost \in Nat /\ Lost' \in Nat /\ Day * Lost' \in Nat
    BY <1>0, <2>1 DEF Lost
  <2>4. ASSUME NEW t \in Tasks, status'[t] = "success" PROVE Reaped(t)'
    <3>1. /\ t \notin old
          /\ status'[t] = status[t]
          /\ created'[t] = created[t] /\ completed'[t] = completed[t]
      BY <2>1, <2>4 DEF Worker!Purge
    <3>2. CASE s = "success"
      <4>1. ~(created[t] + Retention < now)
        BY <2>1, <2>4, <3>1, <3>2 DEF Expired
      <4> QED BY <1>0, <2>2, <2>3, <3>1, <4>1 DEF Reaped
    <3>3. CASE s # "success"
      <4>1. Lost' = Lost
        BY <2>1, <3>3 DEF Lost
      <4> QED BY <2>2, <3>1, <4>1 DEF Reaped, NightInv
    <3> QED BY <3>2, <3>3
  <2>5. \A t \in Tasks : Reaped(t)'
    BY <2>4 DEF Reaped
  <2> QED BY <2>2, <2>5 DEF NightInv
<1>5. ASSUME NEW s \in Targets, Skip(s) PROVE NightInv'
  <2>1. /\ s \in due /\ due' = due \ {s} /\ skips' = skips + 1
        /\ UNCHANGED <<status, created, completed, now>>
    BY <1>5 DEF Skip, times
  <2>2. LastNight' = LastNight /\ LastNight \in Int
    BY <1>0, <2>1 DEF LastNight
  <2>3. /\ Lost \in Nat /\ Lost' \in Nat /\ Lost <= Lost'
        /\ Day * Lost \in Nat /\ Day * Lost' \in Nat /\ Day * Lost <= Day * Lost'
    <3>1. Lost \in Nat /\ (Lost' = Lost \/ Lost' = Lost + 1)
      BY <1>0, <2>1 DEF Lost
    <3>2. Day * (Lost + 1) = Day * Lost + Day
      BY <1>0, <3>1
    <3> QED BY <1>0, <3>1, <3>2
  <2>4. ASSUME NEW t \in Tasks PROVE Reaped(t)'
    BY <1>0, <2>1, <2>2, <2>3 DEF Reaped, NightInv
  <2> QED BY <2>1, <2>4 DEF NightInv
<1> QED BY <1>1, <1>2, <1>3, <1>4, <1>5 DEF RetentionNext

LEMMA NightIsReaped == RetentionTypeOK /\ NightInv => ReapedInTime
<1> SUFFICES ASSUME RetentionTypeOK, NightInv, NEW t \in Tasks, status[t] = "success"
             PROVE  \E since \in {created[t] + Retention, completed[t]} :
                       now <= since + Day * (1 + skips)
  BY DEF ReapedInTime, ReapedWithin
<1>1. /\ now \in Nat /\ skips \in Nat /\ Day \in Nat \ {0} /\ Retention \in Nat
      /\ now % Day \in 0 .. Day - 1
      /\ created[t] \in Nat /\ completed[t] \in Nat
  BY RetentionAssumption, NextHour DEF RetentionTypeOK
<1>2. PICK since \in {created[t] + Retention, completed[t]} :
         LastNight <= since + Day * Lost
  BY DEF NightInv, Reaped
<1>3. since \in Nat /\ now = LastNight + (now % Day) /\ LastNight \in Int
  <2>1. since \in Nat
    BY <1>1
  <2>2. now % Day \in Int
    BY <1>1
  <2> QED BY <1>1, <2>1, <2>2 DEF LastNight
<1>4. Day * (1 + skips) = Day * skips + Day /\ Day * skips \in Nat
  BY <1>1
<1>5. CASE "success" \in due
  <2>1. now = LastNight /\ Lost = 1 + skips
    BY <1>1, <1>3, <1>5 DEF NightInv, Lost
  <2> QED BY <1>2, <2>1
<1>6. CASE "success" \notin due
  <2>1. LastNight <= since + Day * skips
    BY <1>2, <1>6 DEF Lost
  <2>2. now <= since + Day * (1 + skips)
    BY <1>1, <1>3, <1>4, <2>1
  <2> QED BY <2>2
<1> QED BY <1>5, <1>6

----------------------------------------------------------------------------
(* The theorems.                                                           *)

IInv == TypeOK /\ SemaphoreInv /\ StreamInv /\ NightInv

LEMMA Invariant == Spec => []IInv
<1>1. Init => IInv
  BY InitType, InitStream, InitNight
  DEF IInv, SemaphoreInv, Conserved, WaitersWait, Init, Holding, Idle
<1>2. IInv /\ [Next]_vars => IInv'
  BY StepType, StepStream, StepSemaphore, RetentionStep, StepNight DEF IInv, TypeOK
<1> QED BY <1>1, <1>2, PTL DEF Spec

\* callback_semaphore lets one callback be processed at a time: over retries,
\* returns and errors its permit is neither lost nor given twice.
THEOREM OnePermit == Spec => []OneAtATime
<1>1. IInv => OneAtATime
  BY ConservedIsOneAtATime DEF IInv, SemaphoreInv
<1> QED BY <1>1, Invariant, PTL

\* run_cleanup removes every SUCCESS row the first night after its retention,
\* whatever the hours of a day, the retention and the nights that were lost.
THEOREM RowsReaped == Spec => []ReapedInTime
<1>1. IInv => ReapedInTime
  BY NightIsReaped DEF IInv, TypeOK
<1> QED BY <1>1, Invariant, PTL

----------------------------------------------------------------------------
(* The worker below the clock.                                             *)

LEMMA RetentionStepIsWorkerStep ==
  RetentionTypeOK /\ [RetentionNext]_retention => [Worker!Next]_status
<1> SUFFICES ASSUME RetentionTypeOK, [RetentionNext]_retention, status' # status
             PROVE  Worker!Next
  OBVIOUS
<1>1. CASE \E t \in Tasks : Submit(t) \/ Succeed(t) \/ Proceed(t)
  BY <1>1 DEF Submit, Succeed, Proceed, Worker!Next
<1>2. ASSUME NEW s \in Targets, Cleanup(s) PROVE Worker!Next
  <2>1. \E S \in SUBSET Tasks : Worker!Purge(S)
    BY <1>2 DEF Cleanup
  <2> QED BY <2>1 DEF Worker!Next
<1> QED BY <1>1, <1>2 DEF RetentionNext, retention, Tick, Skip

\* Whatever the callbacks do beside it, the retention runs as if alone: no step
\* of theirs touches a row of taskpayload.
THEOREM CallbacksKeepRetention == Spec => RetentionSpec
<1>1. Init => RetentionInit
  BY DEF Init
<1> QED BY <1>1, RetentionStep, PTL DEF Spec, RetentionSpec

\* Given a clock and the nightly deletion, a row still changes its status in the
\* order TaskLifecycle promises.
THEOREM RetentionKeepsLifecycle == RetentionSpec => Worker!Spec
<1>1. RetentionInit => RetentionTypeOK /\ Worker!Init
  BY InitRetention DEF RetentionInit
<1> QED BY <1>1, StepRetention, RetentionStepIsWorkerStep, PTL
        DEF RetentionSpec, Worker!Spec

----------------------------------------------------------------------------
(* Nobody waits in vain.                                                   *)

\* The steps of a coroutine leave the others as they are, but for the oldest
\* waiter, who may get the semaphore.
LEMMA OthersUntouched ==
  ASSUME TypeOK, NEW c \in Tasks, ProcessCallback(c), NEW d \in Tasks \ {c}
  PROVE  /\ proc'[d].retries = proc[d].retries
         /\ proc'[d].broken = proc[d].broken
         /\ \/ proc'[d].pc = proc[d].pc
            \/ waiters # <<>> /\ d = Head(waiters) /\ proc'[d].pc = "granted"
<1>1. \/ \E v : proc' = [proc EXCEPT ![c] = v]
      \/ \E v : /\ waiters # <<>>
                /\ proc' = [proc EXCEPT ![c] = v, ![Head(waiters)].pc = "granted"]
  <2>1. CASE Acquire(c)
    <3>1. proc' = [proc EXCEPT ![c] =
                     [proc[c] EXCEPT !.pc = IF Free THEN "granted" ELSE "waiting"]]
      BY <2>1 DEF Acquire, TypeOK
    <3> QED BY <3>1
  <2>2. CASE Left(c)
    <3>1. CASE waiters = <<>>
      BY <2>2, <3>1 DEF Left, Release
    <3>2. CASE waiters # <<>>
      <4>1. proc' = [proc EXCEPT ![c] = Idle, ![Head(waiters)].pc = "granted"]
        BY <2>2, <3>2 DEF Left, Release
      <4> QED BY <3>2, <4>1
    <3> QED BY <3>1, <3>2
  <2>3. CASE EndBackoff(c) /\ ~LastAttempt(proc[c])
    <3>1. CASE waiters = <<>>
      BY <2>3, <3>1 DEF EndBackoff
    <3>2. CASE waiters # <<>>
      <4>1. PICK v : proc' = [proc EXCEPT ![c] = v, ![Head(waiters)].pc = "granted"]
        BY <2>3, <3>2 DEF EndBackoff
      <4> QED BY <3>2, <4>1
    <3> QED BY <3>1, <3>2
  <2>4. ASSUME NEW brk \in BOOLEAN, BackOff(c, brk)
        PROVE  \E v : proc' = [proc EXCEPT ![c] = v]
    <3>1. proc' = [proc EXCEPT ![c] = [proc[c] EXCEPT !.pc = "backoff", !.broken = brk]]
      BY <2>4 DEF BackOff, TypeOK
    <3> QED BY <3>1
  <2> QED BY <2>1, <2>2, <2>3, <2>4
          DEF ProcessCallback, Complete, Drop, EndBackoff, SessionRefuses, LookupFails,
              BeginCommitFails, FinishCommitFails, Left
<1>2. ASSUME NEW v, proc' = [proc EXCEPT ![c] = v] PROVE proc'[d] = proc[d]
  BY <1>2 DEF TypeOK
<1>3. ASSUME NEW v, waiters # <<>>,
             proc' = [proc EXCEPT ![c] = v, ![Head(waiters)].pc = "granted"]
      PROVE  proc'[d] = IF d = Head(waiters) THEN [proc[d] EXCEPT !.pc = "granted"]
                                             ELSE proc[d]
  <2>1. Head(waiters) \in Tasks
    BY <1>3, TailFact DEF TypeOK
  <2> QED BY <1>3, <2>1 DEF TypeOK
<1>4. proc[d] \in Proc
  BY DEF TypeOK
<1> QED BY <1>1, <1>2, <1>3, <1>4 DEF Proc

\* Who waits for the semaphore is queued on it.
WaitersQueued ==
  \A c \in Tasks : proc[c].pc = "waiting" => \E i \in DOMAIN waiters : waiters[i] = c

\* A coroutine of a callback waits only while another owns the semaphore, and
\* has a place of its own in the queue of those it will be handed to.
NoLostWakeup ==
  \A c \in Tasks : proc[c].pc = "waiting" =>
     /\ \E d \in Tasks \ {c} : Holding(d)
     /\ \E i \in DOMAIN waiters : \A j \in DOMAIN waiters : waiters[j] = c <=> j = i

\* The head of the queue is no more in it; c may be appended to the rest.
LEMMA TailQueued ==
  ASSUME TypeOK, waiters # <<>>, WaitersQueued,
         \/ waiters' = Tail(waiters)
         \/ \E c \in Tasks : waiters' = Append(Tail(waiters), c),
         \A d \in Tasks : proc'[d].pc = "waiting" =>
            \/ proc[d].pc = "waiting" /\ d # Head(waiters)
            \/ waiters' = Append(Tail(waiters), d)
  PROVE  WaitersQueued'
<1>1. PICK n \in Nat \ {0} :
         /\ Head(waiters) = waiters[1] /\ DOMAIN waiters = 1 .. n
         /\ DOMAIN Tail(waiters) = 1 .. n - 1 /\ Tail(waiters) \in Seq(Tasks)
         /\ \A i \in 1 .. n - 1 : Tail(waiters)[i] = waiters[i + 1]
  BY TailFact DEF TypeOK
<1>2. /\ 1 .. n - 1 \subseteq DOMAIN waiters'
      /\ \A i \in 1 .. n - 1 : waiters'[i] = waiters[i + 1]
  <2>1. CASE waiters' = Tail(waiters)
    BY <1>1, <2>1
  <2>2. ASSUME NEW c \in Tasks, waiters' = Append(Tail(waiters), c)
        PROVE  /\ 1 .. n - 1 \subseteq DOMAIN waiters'
               /\ \A i \in 1 .. n - 1 : waiters'[i] = waiters[i + 1]
    BY <1>1, <2>2, AppendFact
  <2> QED BY <2>1, <2>2
<1> SUFFICES ASSUME NEW d \in Tasks, proc'[d].pc = "waiting"
             PROVE  \E i \in DOMAIN waiters' : waiters'[i] = d
  BY DEF WaitersQueued
<1>3. CASE proc[d].pc = "waiting" /\ d # Head(waiters)
  <2>1. PICK i \in 1 .. n : waiters[i] = d
    BY <1>1, <1>3 DEF WaitersQueued
  <2>2. i - 1 \in 1 .. n - 1 /\ (i - 1) + 1 = i
    BY <1>1, <1>3, <2>1
  <2> QED BY <1>2, <2>1, <2>2
<1>4. CASE waiters' = Append(Tail(waiters), d)
  BY <1>1, <1>4, AppendFact
<1> QED BY <1>3, <1>4

LEMMA LeftQueued ==
  ASSUME TypeOK, WaitersQueued, NEW c \in Tasks, Left(c),
         \A d \in Tasks \ {c} :
            \/ proc'[d].pc = proc[d].pc
            \/ waiters # <<>> /\ d = Head(waiters) /\ proc'[d].pc = "granted"
  PROVE  WaitersQueued'
<1>1. CASE waiters = <<>>
  BY <1>1 DEF Left, Release, TypeOK, WaitersQueued, Idle
<1>2. CASE waiters # <<>>
  <2>1. Head(waiters) \in Tasks
    BY <1>2, TailFact DEF TypeOK
  <2>2. /\ proc' = [[proc EXCEPT ![c] = Idle] EXCEPT ![Head(waiters)].pc = "granted"]
        /\ waiters' = Tail(waiters)
    BY <1>2 DEF Left, Release
  <2>3. \A d \in Tasks : proc'[d].pc = "waiting" =>
           proc[d].pc = "waiting" /\ d # Head(waiters)
    BY <2>1, <2>2 DEF TypeOK, Proc, Idle
  <2> QED BY <1>2, <2>2, <2>3, TailQueued
<1> QED BY <1>1, <1>2

LEMMA QueuedStep ==
  ASSUME IInv, WaitersQueued, [Next]_vars
  PROVE  WaitersQueued'
<1>1. TypeOK /\ SemaphoreInv /\ StreamInv
  BY DEF IInv
<1>2. CASE UNCHANGED <<proc, waiters>>
  BY <1>2 DEF WaitersQueued
<1>3. CASE Die
  BY <1>3 DEF Die, WaitersQueued, Idle
<1>4. CASE Receive
  <2>1. Head(stream) \in Tasks
    BY <1>1, <1>4, TailFact DEF Receive, TypeOK
  <2>2. UNCHANGED waiters /\ proc' = [proc EXCEPT ![Head(stream)].pc = "spawned"]
    BY <1>4 DEF Receive, semaphore
  <2> QED BY <1>1, <2>1, <2>2 DEF WaitersQueued, TypeOK, Proc
<1>5. ASSUME NEW c \in Tasks, ProcessCallback(c) PROVE WaitersQueued'
  <2>1. \A d \in Tasks \ {c} :
           \/ proc'[d].pc = proc[d].pc
           \/ waiters # <<>> /\ d = Head(waiters) /\ proc'[d].pc = "granted"
    BY <1>1, <1>5, OthersUntouched
  <2>2. CASE Left(c)
    BY <1>1, <2>1, <2>2, LeftQueued
  <2>3. CASE Acquire(c) /\ Free
    <3>1. UNCHANGED waiters /\ proc'[c].pc = "granted" /\ waiters = <<>>
      BY <1>1, <2>3 DEF Acquire, Free, TypeOK, Proc
    <3> QED BY <2>1, <3>1 DEF WaitersQueued
  <2>4. CASE Acquire(c) /\ ~Free
    <3>1. waiters' = Append(waiters, c) /\ proc' = [proc EXCEPT ![c].pc = "waiting"]
      BY <2>4 DEF Acquire
    <3>2. \A d \in Tasks \ {c} : proc'[d].pc = proc[d].pc
      BY <1>1, <3>1 DEF TypeOK
    <3>3. /\ DOMAIN waiters = 1 .. Len(waiters) /\ Len(waiters) \in Nat
          /\ DOMAIN waiters' = 1 .. Len(waiters) + 1
          /\ \A i \in 1 .. Len(waiters) : waiters'[i] = waiters[i]
          /\ waiters'[Len(waiters) + 1] = c
      BY <1>1, <3>1, AppendFact DEF TypeOK
    <3> QED BY <3>2, <3>3 DEF WaitersQueued
  <2>5. CASE EndBackoff(c) /\ ~LastAttempt(proc[c]) /\ waiters = <<>>
    <3>1. PICK next : proc' = [proc EXCEPT ![c] = [next EXCEPT !.pc = "granted"]]
      BY <2>5 DEF EndBackoff
    <3>2. UNCHANGED waiters
      BY <2>5 DEF EndBackoff, semaphore
    <3>3. proc'[c].pc = "granted"
      BY <1>1, <2>5 DEF EndBackoff, NextAttempt, TypeOK, Proc
    <3> QED BY <2>1, <2>5, <3>2, <3>3 DEF WaitersQueued
  <2>6. CASE EndBackoff(c) /\ ~LastAttempt(proc[c]) /\ waiters # <<>>
    <3>1. Head(waiters) \in Tasks
      BY <1>1, <2>6, TailFact DEF TypeOK
    <3>2. PICK next : proc' = [proc EXCEPT ![c] = next, ![Head(waiters)].pc = "granted"]
      BY <2>6 DEF EndBackoff
    <3>3. waiters' = Append(Tail(waiters), c)
      BY <2>6 DEF EndBackoff
    <3>4. \A d \in Tasks \ {c} : proc'[d].pc = "waiting" =>
             proc[d].pc = "waiting" /\ d # Head(waiters)
      BY <1>1, <3>1, <3>2 DEF TypeOK, Proc
    <3> QED BY <1>1, <2>6, <3>3, <3>4, TailQueued
  <2>7. ASSUME NEW brk \in BOOLEAN, BackOff(c, brk) PROVE WaitersQueued'
    <3>1. /\ proc' = [proc EXCEPT ![c].pc = "backoff", ![c].broken = brk]
          /\ UNCHANGED waiters
      BY <2>7 DEF BackOff, semaphore
    <3> QED BY <1>1, <3>1 DEF WaitersQueued, TypeOK, Proc
  <2> QED BY <1>5, <2>2, <2>3, <2>4, <2>5, <2>6, <2>7
          DEF ProcessCallback, Complete, Drop, EndBackoff, SessionRefuses, LookupFails,
              BeginCommitFails, FinishCommitFails, Left
<1>6. \/ UNCHANGED <<proc, waiters>> \/ Die \/ Receive
      \/ \E c \in Tasks : ProcessCallback(c)
  BY DEF Next, vars, memory, semaphore, Add, Restart
<1> QED BY <1>2, <1>3, <1>4, <1>5, <1>6

\* callback_semaphore forgets nobody: whoever waits is in its queue once, while
\* somebody else owns it.
THEOREM NobodyForgotten == Spec => []NoLostWakeup
<1>1. Init => WaitersQueued
  BY DEF Init, WaitersQueued, Idle
<1>2. IInv /\ WaitersQueued /\ [Next]_vars => WaitersQueued'
  BY QueuedStep
<1>3. IInv /\ WaitersQueued => NoLostWakeup
  <2> SUFFICES ASSUME TypeOK, SemaphoreInv, WaitersQueued,
                      NEW c \in Tasks, proc[c].pc = "waiting"
               PROVE  /\ \E d \in Tasks \ {c} : Holding(d)
                      /\ \E i \in DOMAIN waiters : \A j \in DOMAIN waiters :
                            waiters[j] = c <=> j = i
    BY DEF IInv, NoLostWakeup
  <2>1. PICK i \in DOMAIN waiters : waiters[i] = c
    BY DEF WaitersQueued
  <2>2. \A j \in DOMAIN waiters : waiters[j] = c <=> j = i
    BY <2>1 DEF SemaphoreInv, WaitersWait
  <2>3. \E d \in Tasks \ {c} : Holding(d)
    BY <2>1 DEF SemaphoreInv, Conserved, Holding
  <2> QED BY <2>1, <2>2, <2>3
<1> QED BY Invariant, <1>1, <1>2, <1>3, PTL DEF Spec

----------------------------------------------------------------------------
(* What an error costs.                                                    *)

\* A callback is sent for a task with its result, which only the retention takes.
Answered == \A t \in Tasks : callbacks[t] # "none" => status[t] \in {"success", "deleted"}

\* An error has hit the coroutine: it may end without a SUCCESS.
Struck(t) == proc[t].pc = "backoff" \/ proc[t].retries > 0 \/ proc[t].broken

\* The callbacks nothing but a struck coroutine carries.  Each has had an error
\* of its own.
Risk(t) ==
  /\ callbacks[t] \notin {"none", "success"}
  /\ status[t] # "deleted"
  /\ ~Sent(t)
  /\ proc[t].pc = "idle" \/ Struck(t)
AtRisk == {t \in Tasks : Risk(t)}

LossInv == deaths = 0 => IsFiniteSet(AtRisk) /\ Cardinality(AtRisk) <= faults

LEMMA NoNewRisk ==
  ASSUME LossInv, deaths' = 0 => deaths = 0, faults \in Nat, faults' = faults,
         \A t \in Tasks : Risk(t)' => Risk(t)
  PROVE  LossInv'
<1> SUFFICES ASSUME deaths' = 0
             PROVE  IsFiniteSet(AtRisk') /\ Cardinality(AtRisk') <= faults'
  BY DEF LossInv
<1>1. AtRisk' \subseteq AtRisk
  BY DEF AtRisk
<1>2. IsFiniteSet(AtRisk) /\ Cardinality(AtRisk) <= faults
  BY DEF LossInv
<1>3. /\ IsFiniteSet(AtRisk') /\ Cardinality(AtRisk') <= Cardinality(AtRisk)
      /\ Cardinality(AtRisk) \in Nat /\ Cardinality(AtRisk') \in Nat
  BY <1>1, <1>2, FS_Subset, FS_CardinalityType
<1> QED BY <1>2, <1>3

LEMMA OneNewRisk ==
  ASSUME LossInv, deaths' = 0 => deaths = 0, faults \in Nat, faults' = faults + 1,
         NEW x, \A t \in Tasks : Risk(t)' => Risk(t) \/ t = x
  PROVE  LossInv'
<1> SUFFICES ASSUME deaths' = 0
             PROVE  IsFiniteSet(AtRisk') /\ Cardinality(AtRisk') <= faults'
  BY DEF LossInv
<1>1. AtRisk' \subseteq AtRisk \cup {x}
  BY DEF AtRisk
<1>2. IsFiniteSet(AtRisk) /\ Cardinality(AtRisk) <= faults
  BY DEF LossInv
<1>3. /\ IsFiniteSet(AtRisk \cup {x})
      /\ Cardinality(AtRisk \cup {x}) \in {Cardinality(AtRisk), Cardinality(AtRisk) + 1}
  BY <1>2, FS_AddElement
<1>4. /\ IsFiniteSet(AtRisk') /\ Cardinality(AtRisk') <= Cardinality(AtRisk \cup {x})
      /\ Cardinality(AtRisk) \in Nat /\ Cardinality(AtRisk') \in Nat
  BY <1>1, <1>2, <1>3, FS_Subset, FS_CardinalityType
<1> QED BY <1>2, <1>3, <1>4

LEMMA FinishedStays ==
  ASSUME RetentionTypeOK, [RetentionNext]_retention, NEW t \in Tasks
  PROVE  /\ status[t] = "success" => status'[t] \in {"success", "deleted"}
         /\ status[t] = "deleted" => status'[t] = "deleted"
<1>1. CASE \E u \in Tasks : Submit(u) \/ Succeed(u) \/ Proceed(u)
  BY <1>1 DEF Submit, Succeed, Proceed, Worker!Submit, Worker!Succeed, Worker!Begin,
              Worker!Cancel, Worker!Move, RetentionTypeOK
<1>2. ASSUME NEW s \in Targets, Cleanup(s)
      PROVE  status'[t] \in {status[t], "deleted"}
  BY <1>2 DEF Cleanup, Worker!Purge
<1> QED BY <1>1, <1>2 DEF RetentionNext, retention, Tick, Skip

\* A callback never changes from or to "none" but when it is added.
LEMMA CallbackFrame ==
  ASSUME IInv, [Next]_vars, NEW t \in Tasks
  PROVE  callbacks[t] = "none" /\ ~Add(t) => callbacks'[t] = "none"
<1>1. TypeOK /\ Sound(t)
  BY DEF IInv, StreamInv
<1>2. ASSUME NEW u \in Tasks, NEW s, Attempt(u, s), callbacks[t] = "none"
      PROVE  callbacks'[t] = "none"
  <2>1. u # t
    BY <1>1, <1>2 DEF Attempt, Sound, Idle
  <2> QED BY <1>1, <1>2, <2>1, OthersAttempted
<1>3. CASE callbacks' = callbacks
  BY <1>3
<1>4. ASSUME NEW u \in Tasks, Add(u), u # t PROVE callbacks'[t] = callbacks[t]
  BY <1>1, <1>4 DEF Add, TypeOK
<1>5. \/ callbacks' = callbacks
      \/ \E u \in Tasks : Add(u)
      \/ \E u \in Tasks : \E s \in {"success", "in_progress", callbacks[u]} : Attempt(u, s)
  BY DEF Next, vars, Receive, Die, Restart, ProcessCallback, Acquire, Complete, Drop,
         EndBackoff, SessionRefuses, LookupFails, BeginCommitFails, FinishCommitFails
<1> QED BY <1>2, <1>3, <1>4, <1>5

LEMMA AnsweredStep == IInv /\ Answered /\ [Next]_vars => Answered'
<1> SUFFICES ASSUME IInv, Answered, [Next]_vars, NEW t \in Tasks, callbacks'[t] # "none"
             PROVE  status'[t] \in {"success", "deleted"}
  BY DEF Answered
<1>1. CASE Add(t)
  BY <1>1 DEF Add, retention
<1>2. CASE ~Add(t)
  <2>1. status[t] \in {"success", "deleted"}
    BY <1>2, CallbackFrame DEF Answered
  <2> QED BY <2>1, RetentionStep, FinishedStays DEF IInv, TypeOK
<1> QED BY <1>1, <1>2

LEMMA LossStep == IInv /\ Answered /\ LossInv /\ [Next]_vars => LossInv'
<1> SUFFICES ASSUME IInv, Answered, LossInv, [Next]_vars PROVE LossInv'
  OBVIOUS
<1>0. TypeOK /\ SemaphoreInv /\ StreamInv /\ faults \in Nat /\ deaths \in Nat
  BY CallbackAssumption DEF IInv, TypeOK
<1>1. \A t \in Tasks : status'[t] # "deleted" => status[t] # "deleted"
  BY RetentionStep, FinishedStays DEF IInv, TypeOK
<1>2. CASE UNCHANGED <<callbacks, stream, proc, faults, deaths>>
  <2>1. \A t \in Tasks : Risk(t)' => Risk(t)
    BY <1>1, <1>2 DEF Risk, Sent, Struck
  <2> QED BY <1>0, <1>2, <2>1, NoNewRisk
<1>3. CASE Die
  BY <1>0, <1>3 DEF Die, LossInv
<1>4. CASE Receive
  <2>1. PICK h \in Tasks : h = Head(stream) /\ h = stream[1] /\ 1 \in DOMAIN stream
    BY <1>0, <1>4, TailFact DEF Receive, TypeOK
  <2>2. /\ UNCHANGED <<callbacks, status, faults, deaths>>
        /\ stream' = Tail(stream) /\ proc' = [proc EXCEPT ![h].pc = "spawned"]
    BY <1>4, <2>1 DEF Receive, retention
  <2>3. proc[h] = Idle
    BY <1>0, <2>1 DEF StreamInv, Sound, Sent
  <2>4. ~Risk(h)'
    <3>1. /\ proc'[h].pc = "spawned" /\ proc'[h].retries = 0
          /\ proc'[h].broken = FALSE
      BY <1>0, <2>2, <2>3 DEF Idle, TypeOK
    <3> QED BY <3>1 DEF Risk, Struck
  <2>5. ASSUME NEW t \in Tasks, t # h, Risk(t)' PROVE Risk(t)
    <3>1. proc'[t] = proc[t]
      BY <1>0, <2>2, <2>5 DEF TypeOK
    <3>2. Sent(t) => Sent(t)'
      <4> SUFFICES ASSUME NEW i \in DOMAIN stream, stream[i] = t
                   PROVE  \E j \in DOMAIN Tail(stream) : Tail(stream)[j] = t
        BY <2>2 DEF Sent
      <4>1. PICK n \in Nat \ {0} :
               /\ DOMAIN stream = 1 .. n /\ DOMAIN Tail(stream) = 1 .. n - 1
               /\ \A j \in 1 .. n - 1 : Tail(stream)[j] = stream[j + 1]
        BY <1>0, <1>4, TailFact DEF Receive, TypeOK
      <4>2. i # 1 /\ i - 1 \in 1 .. n - 1 /\ (i - 1) + 1 = i
        BY <2>1, <2>5, <4>1
      <4> QED BY <4>1, <4>2
    <3> QED BY <2>2, <2>5, <3>1, <3>2 DEF Risk, Struck
  <2> QED BY <1>0, <2>2, <2>4, <2>5, NoNewRisk
<1>5. ASSUME NEW c \in Tasks, Add(c) PROVE LossInv'
  <2>1. /\ callbacks' = [callbacks EXCEPT ![c] = "in_queue"]
        /\ stream' = Append(stream, c)
        /\ UNCHANGED <<status, proc, faults, deaths>>
    BY <1>5 DEF Add, retention
  <2>2. /\ DOMAIN stream = 1 .. Len(stream) /\ Len(stream) \in Nat
        /\ DOMAIN stream' = 1 .. Len(stream) + 1
        /\ \A i \in 1 .. Len(stream) : stream'[i] = stream[i]
        /\ stream'[Len(stream) + 1] = c
    BY <1>0, <2>1, AppendFact DEF TypeOK
  <2>3. Sent(c)' /\ \A t \in Tasks : Sent(t) => Sent(t)'
    BY <2>2 DEF Sent
  <2>4. ASSUME NEW t \in Tasks, Risk(t)' PROVE Risk(t)
    <3>1. t # c
      BY <2>3, <2>4 DEF Risk
    <3>2. callbacks'[t] = callbacks[t]
      BY <1>0, <2>1, <3>1 DEF TypeOK
    <3> QED BY <2>1, <2>3, <2>4, <3>2 DEF Risk, Struck
  <2> QED BY <1>0, <2>1, <2>4, NoNewRisk
<1>6. ASSUME NEW c \in Tasks, ProcessCallback(c) PROVE LossInv'
  <2>1. UNCHANGED <<status, stream, deaths>>
    BY <1>6 DEF ProcessCallback, Acquire, Complete, Drop, EndBackoff, SessionRefuses,
                LookupFails, BeginCommitFails, FinishCommitFails, BackOff, retention
  <2>2. \A t : Sent(t)' <=> Sent(t)
    BY <2>1 DEF Sent
  <2>3. ASSUME NEW t \in Tasks \ {c}, Risk(t)' PROVE Risk(t)
    <3>1. callbacks'[t] = callbacks[t]
      <4>1. \/ callbacks' = callbacks
            \/ \E s \in {"success", "in_progress", callbacks[c]} : Attempt(c, s)
        BY <1>6 DEF ProcessCallback, Acquire, Complete, Drop, EndBackoff, SessionRefuses,
                    LookupFails, BeginCommitFails, FinishCommitFails
      <4> QED BY <1>0, <4>1, OthersAttempted
    <3>2. /\ proc'[t].retries = proc[t].retries
          /\ proc'[t].broken = proc[t].broken
          /\ proc'[t].pc = proc[t].pc \/ proc'[t].pc = "granted"
      BY <1>0, <1>6, OthersUntouched
    <3> QED BY <2>1, <2>2, <2>3, <3>1, <3>2 DEF Risk, Struck
  <2>4. ASSUME Risk(c)', faults' = faults PROVE Risk(c)
    <3>1. /\ Sound(c) /\ proc[c].pc # "idle"
          /\ callbacks[c] # "none" /\ ~Sent(c)
      <4>1. Sound(c) /\ proc[c].pc # "idle"
        BY <1>0, <1>6 DEF StreamInv, ProcessCallback, Acquire, Complete, Drop, EndBackoff,
              SessionRefuses, LookupFails, BeginCommitFails, FinishCommitFails, Attempt
      <4> QED BY <4>1 DEF Sound, Idle
    <3>2. CASE Acquire(c)
      <4>1. /\ proc'[c].pc \in {"granted", "waiting"}
            /\ proc'[c].broken = proc[c].broken
            /\ proc'[c].retries = proc[c].retries
            /\ callbacks' = callbacks
        BY <1>0, <3>2 DEF Acquire, TypeOK, Proc
      <4> QED BY <2>1, <2>4, <3>1, <4>1 DEF Risk, Struck
    <3>3. CASE Complete(c)
      BY <1>0, <2>4, <3>3 DEF Complete, Attempt, Risk, TypeOK
    <3>4. CASE Drop(c)
      <4>1. status[c] = "deleted"
        BY <3>1, <3>4 DEF Drop, HasRow, Answered
      <4> QED BY <2>1, <2>4, <4>1 DEF Risk
    <3>5. CASE EndBackoff(c) \/ SessionRefuses(c)
      <4>1. Struck(c) /\ callbacks' = callbacks
        BY <3>5 DEF EndBackoff, SessionRefuses, Struck
      <4> QED BY <2>1, <2>4, <3>1, <4>1 DEF Risk
    <3>6. ~DatabaseError
      BY <1>0, <2>4 DEF DatabaseError
    <3> QED BY <1>6, <3>2, <3>3, <3>4, <3>5, <3>6
            DEF ProcessCallback, LookupFails, BeginCommitFails, FinishCommitFails
  <2>5. faults' = faults \/ faults' = faults + 1
    BY <1>6 DEF ProcessCallback, Acquire, Complete, Drop, EndBackoff, SessionRefuses,
                LookupFails, BeginCommitFails, FinishCommitFails, DatabaseError
  <2>6. CASE faults' = faults
    <3>1. \A t \in Tasks : Risk(t)' => Risk(t)
      BY <2>3, <2>4, <2>6
    <3> QED BY <1>0, <2>1, <2>6, <3>1, NoNewRisk
  <2>7. CASE faults' = faults + 1
    <3>1. \A t \in Tasks : Risk(t)' => Risk(t) \/ t = c
      BY <2>3
    <3> QED BY <1>0, <2>1, <2>7, <3>1, OneNewRisk
  <2> QED BY <2>5, <2>6, <2>7
<1>7. \/ UNCHANGED <<callbacks, stream, proc, faults, deaths>> \/ Die \/ Receive
      \/ \E c \in Tasks : Add(c) \/ ProcessCallback(c)
  BY DEF Next, vars, memory, Restart
<1> QED BY <1>2, <1>3, <1>4, <1>5, <1>6, <1>7

\* The errors of the database lose at most one callback each, however they, the
\* retries and the retention fall together.
THEOREM ErrorsLoseOneCallback == Spec => []CallbacksLostOnlyToErrors
<1>1. Init => Answered /\ LossInv
  <2> SUFFICES ASSUME Init PROVE Answered /\ LossInv
    OBVIOUS
  <2>1. AtRisk = {} /\ faults = 0
    BY DEF Init, AtRisk, Risk
  <2> QED BY <2>1, FS_EmptySet DEF Init, Answered, LossInv
<1>2. IInv /\ Answered /\ LossInv /\ [Next]_vars => Answered' /\ LossInv'
  BY AnsweredStep, LossStep
<1>3. IInv /\ LossInv => CallbacksLostOnlyToErrors
  <2> SUFFICES ASSUME TypeOK, LossInv, deaths = 0 PROVE Cardinality(Abandoned) <= faults
    BY DEF IInv, CallbacksLostOnlyToErrors
  <2>1. Abandoned \subseteq AtRisk
    BY DEF Abandoned, AtRisk, Risk
  <2>2. IsFiniteSet(AtRisk) /\ Cardinality(AtRisk) <= faults /\ faults \in Nat
    BY CallbackAssumption DEF LossInv, TypeOK
  <2>3. /\ Cardinality(Abandoned) <= Cardinality(AtRisk)
        /\ Cardinality(Abandoned) \in Nat /\ Cardinality(AtRisk) \in Nat
    BY <2>1, <2>2, FS_Subset, FS_CardinalityType
  <2> QED BY <2>2, <2>3
<1> QED BY Invariant, <1>1, <1>2, <1>3, PTL DEF Spec

============================================================================
