------------------------ MODULE BackgroundJobsProofs ------------------------
(***************************************************************************)
(* Theorems of BackgroundJobs, for any number of POSTs, health checks,     *)
(* uids and crashes.                                                       *)
(***************************************************************************)
EXTENDS BackgroundJobs, SequenceTheorems, TLAPS

----------------------------------------------------------------------------
(* The inductive invariant.                                                *)

\* Who is in the queue waits in it, once.
Line ==
  /\ \A i \in 1 .. Len(queue) : req[queue[i]].at = "queued"
  /\ \A i, j \in 1 .. Len(queue) : queue[i] = queue[j] => i = j

\* A POST has a uid from its arrival on.
Addressed ==
  \A p \in Posts : IF req[p].at = "new" THEN req[p].uid = NoJob ELSE req[p].uid \in Uids

\* The dictionary has, under a uid, an object posted for it to this process.
Filed ==
  \A u \in Uids, p \in Posts :
     jobs[u] = p => req[p].uid = u /\ req[p].at \notin {"new", "lost"}

\* A job under way finds its uid in the dictionary, ...
Present ==
  \A p \in Posts : req[p].at \notin {"new", "done", "lost"} => jobs[req[p].uid] \in Posts

\* ... and the object it has fetched is one of the same uid.
Fetched ==
  \A p \in Posts : req[p].at \in {"mark", "finish"} =>
     /\ req[p].obj \in Posts
     /\ req[req[p].obj].uid = req[p].uid
     /\ req[req[p].obj].at \notin {"new", "lost"}

\* An object is complete only after a run of its uid, also when the dictionary
\* no longer has it.
RanBefore ==
  \A o \in Posts : status[o] = "complete" =>
     \E q \in Posts : req[q].uid = req[o].uid /\ req[q].at = "done"

IInv ==
  /\ TypeOK /\ Line /\ Addressed /\ Filed /\ Present /\ Fetched
  /\ RanBefore /\ StatusTellsTheRun

LEMMA Initially == Init => IInv
<1> SUFFICES ASSUME Init PROVE IInv
  OBVIOUS
<1>1. \A r \in Requests : req[r] = NotReceived
  BY DEF Init
<1>2. TypeOK
  BY ConstantsAssumption DEF Init, TypeOK, NotReceived, Request, Steps, Statuses
<1>3. \A u \in Uids, p \in Posts : jobs[u] # p
  BY ConstantsAssumption DEF Init
<1>4. Line /\ Filed /\ StatusTellsTheRun
  BY <1>3 DEF Init, Line, Filed, StatusTellsTheRun
<1>5. Addressed /\ Present /\ Fetched /\ RanBefore
  BY <1>1 DEF Init, Addressed, Present, Fetched, RanBefore, NotReceived, Requests
<1> QED BY <1>2, <1>4, <1>5 DEF IInv

----------------------------------------------------------------------------
(* The limiter: what Wait and Leave do to the queue and to the requests.   *)

LEMMA WaitEffect ==
  ASSUME TypeOK, Line, NEW r \in Requests, Wait(r)
  PROVE  /\ TypeOK' /\ Line'
         /\ \A q \in Requests : req'[q].uid = req[q].uid /\ req'[q].obj = req[q].obj
         /\ \A q \in Requests : q # r => req'[q].at = req[q].at
         /\ req[r].at = "calling" /\ req'[r].at \in {"started", "queued"}
<1> USE DEF TypeOK, Request, Steps
<1>1. /\ req[r].at = "calling" /\ UNCHANGED <<jobs, status, checked, crashes>>
      /\ req \in [Requests -> Request]
  BY DEF Wait
<1>2. \A i \in 1 .. Len(queue) : queue[i] \in Requests /\ queue[i] # r
  BY <1>1 DEF Line
<1>3. CASE thread = {} /\ queue = <<>>
  <2>1. thread' = {r} /\ queue' = queue /\ req' = [req EXCEPT ![r].at = "started"]
    BY <1>3 DEF Wait
  <2>2. req' \in [Requests -> Request]
    BY <1>1, <2>1
  <2>3. Line'
    BY <1>3, <2>1 DEF Line
  <2> QED BY <1>1, <2>1, <2>2, <2>3
<1>4. CASE ~(thread = {} /\ queue = <<>>)
  <2>1. /\ thread' = thread /\ queue' = Append(queue, r)
        /\ req' = [req EXCEPT ![r].at = "queued"]
    BY <1>4 DEF Wait
  <2>2. req' \in [Requests -> Request]
    BY <1>1, <2>1
  <2>3. /\ Len(queue') = Len(queue) + 1 /\ Len(queue) \in Nat
        /\ \A i \in 1 .. Len(queue) : queue'[i] = queue[i]
        /\ queue'[Len(queue) + 1] = r
        /\ queue' \in Seq(Requests)
    BY <2>1
  <2>4. \A i \in 1 .. Len(queue') : req'[queue'[i]].at = "queued"
    BY <1>1, <1>2, <2>1, <2>3 DEF Line
  <2>5. \A i, j \in 1 .. Len(queue') : queue'[i] = queue'[j] => i = j
    <3>1. \A i \in 1 .. Len(queue') : i \in 1 .. Len(queue) \/ i = Len(queue) + 1
      BY <2>3
    <3>2. \A i, j \in 1 .. Len(queue) : queue'[i] = queue'[j] => i = j
      BY <2>3 DEF Line
    <3>3. \A i \in 1 .. Len(queue) : queue'[i] # queue'[Len(queue) + 1]
      BY <1>2, <2>3
    <3> QED BY <3>1, <3>2, <3>3
  <2>6. Line'
    BY <2>4, <2>5 DEF Line
  <2>7. TypeOK'
    BY <1>1, <2>1, <2>2, <2>3
  <2>8. /\ req'[r].at = "queued"
        /\ \A q \in Requests : req'[q].uid = req[q].uid /\ req'[q].obj = req[q].obj
        /\ \A q \in Requests : q # r => req'[q].at = req[q].at
    BY <1>1, <2>1
  <2> QED BY <1>1, <2>6, <2>7, <2>8
<1> QED BY <1>3, <1>4

LEMMA LeaveEffect ==
  ASSUME TypeOK, Line, NEW r \in Requests, NEW next \in {"calling", "done"},
         req[r].at # "queued", Leave(r, next)
  PROVE  /\ req' \in [Requests -> Request]
         /\ thread' \in {{}} \cup {{q} : q \in Requests}
         /\ queue' \in Seq(Requests) /\ Line'
         /\ \A q \in Requests : req'[q].uid = req[q].uid /\ req'[q].obj = req[q].obj
         /\ req'[r].at = next
         /\ \A q \in Requests : \/ q = r
                                \/ req'[q].at = req[q].at
                                \/ req[q].at = "queued" /\ req'[q].at = "started"
<1> USE DEF TypeOK, Request, Steps
<1>1. req \in [Requests -> Request] /\ queue \in Seq(Requests)
  OBVIOUS
<1>2. CASE queue = <<>>
  <2>1. thread' = {} /\ queue' = queue /\ req' = [req EXCEPT ![r].at = next]
    BY <1>2 DEF Leave
  <2>2. req' \in [Requests -> Request]
    BY <1>1, <2>1
  <2>3. Line'
    BY <1>2, <2>1 DEF Line
  <2> QED BY <1>1, <2>1, <2>2, <2>3
<1>3. CASE queue # <<>>
  <2> DEFINE h == Head(queue)
  <2>1. /\ thread' = {h} /\ queue' = Tail(queue)
        /\ req' = [req EXCEPT ![r].at = next, ![h].at = "started"]
    BY <1>3 DEF Leave
  <2>2. /\ Len(queue) \in Nat \ {0} /\ h = queue[1] /\ h \in Requests
        /\ queue' \in Seq(Requests) /\ Len(queue') = Len(queue) - 1
        /\ \A i \in 1 .. Len(queue') : queue'[i] = queue[i + 1]
    BY <1>1, <1>3, <2>1
  <2>3. req[h].at = "queued" /\ h # r
    BY <2>2 DEF Line
  <2>4. \A i \in 1 .. Len(queue') :
           /\ i + 1 \in 1 .. Len(queue)
           /\ queue'[i] \in Requests /\ queue'[i] # h /\ queue'[i] # r
           /\ req[queue'[i]].at = "queued"
    <3> SUFFICES ASSUME NEW i \in 1 .. Len(queue')
                 PROVE  /\ i + 1 \in 1 .. Len(queue)
                        /\ queue'[i] \in Requests /\ queue'[i] # h /\ queue'[i] # r
                        /\ req[queue'[i]].at = "queued"
      OBVIOUS
    <3>1. /\ i + 1 \in 1 .. Len(queue) /\ i + 1 # 1 /\ 1 \in 1 .. Len(queue)
          /\ queue'[i] = queue[i + 1]
      BY <2>2
    <3>2. queue[i + 1] # queue[1] /\ req[queue[i + 1]].at = "queued"
      BY <3>1 DEF Line
    <3>3. queue[i + 1] \in Requests
      BY <1>1, <3>1
    <3> QED BY <2>2, <3>1, <3>2, <3>3
  <2>5. /\ req' \in [Requests -> Request]
        /\ req'[r].at = next /\ req'[h].at = "started"
        /\ \A q \in Requests : q # r /\ q # h => req'[q] = req[q]
        /\ \A q \in Requests : req'[q].uid = req[q].uid /\ req'[q].obj = req[q].obj
    BY <1>1, <2>1, <2>2, <2>3
  <2>6. \A i \in 1 .. Len(queue') : req'[queue'[i]].at = "queued"
    BY <2>4, <2>5
  <2>7. \A i, j \in 1 .. Len(queue') : queue'[i] = queue'[j] => i = j
    <3> SUFFICES ASSUME NEW i \in 1 .. Len(queue'), NEW j \in 1 .. Len(queue'),
                        queue'[i] = queue'[j]
                 PROVE  i = j
      OBVIOUS
    <3>1. /\ i \in Int /\ j \in Int
          /\ i + 1 \in 1 .. Len(queue) /\ j + 1 \in 1 .. Len(queue)
          /\ queue[i + 1] = queue[j + 1]
      BY <2>2, <2>4
    <3>2. i + 1 = j + 1
      BY <3>1 DEF Line
    <3> QED BY <3>1, <3>2
  <2>8. Line'
    BY <2>6, <2>7 DEF Line
  <2>9. \A q \in Requests : \/ q = r
                            \/ req'[q].at = req[q].at
                            \/ req[q].at = "queued" /\ req'[q].at = "started"
    BY <2>3, <2>5
  <2> QED BY <2>1, <2>2, <2>5, <2>8, <2>9
<1> QED BY <1>2, <1>3

----------------------------------------------------------------------------
(* Steps that write neither the dictionary nor a status and take no job    *)
(* over the boundaries that the invariants speak of.                       *)

Quiet ==
  /\ UNCHANGED <<jobs, status>>
  /\ \A q \in Posts :
        /\ req'[q].uid = req[q].uid
        /\ \A s \in {"new", "lost", "done"} : req'[q].at = s <=> req[q].at = s
        /\ req'[q].at \in {"sleeping", "finish"} <=> req[q].at \in {"sleeping", "finish"}
        /\ req'[q].at \in {"mark", "finish"} =>
              \/ req'[q].obj = jobs[req[q].uid]
              \/ req'[q].obj = req[q].obj /\ req[q].at \in {"mark", "finish"}

LEMMA QuietStep ==
  ASSUME IInv, Quiet, TypeOK', Line'
  PROVE  IInv'
<1> USE DEF IInv, Quiet
<1>1. Addressed' /\ Filed' /\ Present'
  BY DEF Addressed, Filed, Present
<1>2. Fetched'
  <2> SUFFICES ASSUME NEW q \in Posts, req'[q].at \in {"mark", "finish"}
               PROVE  /\ req'[q].obj \in Posts
                      /\ req'[req'[q].obj].uid = req'[q].uid
                      /\ req'[req'[q].obj].at \notin {"new", "lost"}
    BY DEF Fetched
  <2>1. req[q].at \notin {"new", "lost", "done"}
    OBVIOUS
  <2>2. jobs[req[q].uid] \in Posts /\ req[q].uid \in Uids
    BY <2>1 DEF Present, Addressed
  <2>3. CASE req'[q].obj = jobs[req[q].uid]
    BY <2>2, <2>3 DEF Filed
  <2>4. CASE req'[q].obj = req[q].obj /\ req[q].at \in {"mark", "finish"}
    BY <2>4 DEF Fetched
  <2> QED BY <2>3, <2>4
<1>3. RanBefore'
  BY DEF RanBefore
<1>4. \A p \in Posts : Alone(p)' <=> Alone(p)
  BY DEF Alone
<1>5. StatusTellsTheRun'
  BY <1>4 DEF StatusTellsTheRun
<1> QED BY <1>1, <1>2, <1>3, <1>5

\* One request moves, the limiter is not touched.
LEMMA Moves ==
  ASSUME TypeOK, Line, NEW r \in Requests, NEW q \in Request,
         req' = [req EXCEPT ![r] = q], req[r].at # "queued",
         jobs' \in [Uids -> Posts \cup {NoJob}], status' \in [Posts -> Statuses],
         UNCHANGED <<thread, queue, checked, crashes>>
  PROVE  /\ TypeOK' /\ Line'
         /\ req'[r] = q /\ \A p \in Requests : p # r => req'[p] = req[p]
<1>1. /\ req'[r] = q /\ \A p \in Requests : p # r => req'[p] = req[p]
      /\ req' \in [Requests -> Request]
  BY DEF TypeOK
<1>2. TypeOK'
  BY <1>1 DEF TypeOK
<1>3. \A i \in 1 .. Len(queue) : queue[i] \in Requests /\ queue[i] # r
  BY DEF TypeOK, Line
<1>4. Line'
  BY <1>1, <1>3 DEF Line
<1> QED BY <1>1, <1>2, <1>4

LEMMA WaitStep ==
  ASSUME IInv, NEW r \in Requests, Wait(r)
  PROVE  IInv'
<1>1. Quiet /\ TypeOK' /\ Line'
  BY WaitEffect DEF IInv, Quiet, Wait, Requests
<1> QED BY <1>1, QuietStep

LEMMA FetchStep ==
  ASSUME IInv, NEW p \in Posts, Fetch(p) \/ FetchAgain(p)
  PROVE  IInv'
<1> DEFINE to == IF req[p].at = "started" THEN "mark" ELSE "finish"
           q == [req[p] EXCEPT !.obj = jobs[req[p].uid], !.at = to]
<1>1. /\ req[p].at \in {"started", "sleeping"} /\ p \in Requests
      /\ req' = [req EXCEPT ![p] = q]
      /\ UNCHANGED <<jobs, status, thread, queue, checked, crashes>>
  BY DEF Fetch, FetchAgain, IInv, TypeOK, Request, Requests
<1>2. req[p] \in Request /\ req[p].uid \in Uids /\ jobs[req[p].uid] \in Posts
  BY <1>1 DEF IInv, TypeOK, Present, Addressed
<1>3. /\ q \in Request /\ q.uid = req[p].uid /\ q.obj = jobs[req[p].uid]
      /\ q.at = to
  BY <1>2 DEF Request, Steps
<1>4. /\ TypeOK' /\ Line'
      /\ req'[p] = q /\ \A r \in Requests : r # p => req'[r] = req[r]
  <2> HIDE DEF q
  <2> QED BY <1>1, <1>3, Moves DEF IInv, TypeOK
<1>5. Quiet
  BY <1>1, <1>3, <1>4 DEF Quiet, Requests
<1> QED BY <1>4, <1>5, QuietStep

LEMMA CheckStep ==
  ASSUME IInv, NEW h \in Checks, Check(h) \/ Healthy(h) \/ Serialise(h)
  PROVE  IInv'
<1>1. h \in Requests /\ h \notin Posts /\ Posts \subseteq Requests
  BY ConstantsAssumption DEF Requests
<1>2. CASE Check(h)
  <2> DEFINE q == [req[h] EXCEPT !.at = "calling"]
  <2>1. /\ req[h].at = "new" /\ req' = [req EXCEPT ![h] = q] /\ q \in Request
        /\ UNCHANGED <<jobs, status, thread, queue, checked, crashes>>
    BY <1>1, <1>2 DEF Check, NotReceived, IInv, TypeOK, Request, Steps
  <2>2. /\ TypeOK' /\ Line' /\ \A r \in Requests : r # h => req'[r] = req[r]
    <3> HIDE DEF q
    <3> QED BY <1>1, <2>1, Moves DEF IInv, TypeOK
  <2>3. Quiet
    BY <1>1, <2>1, <2>2 DEF Quiet
  <2> QED BY <2>2, <2>3, QuietStep
<1>3. CASE Healthy(h) \/ Serialise(h)
  <2>1. /\ Leave(h, "calling") \/ Leave(h, "done")
        /\ req[h].at = "started" /\ checked' \in SUBSET Checks
        /\ UNCHANGED <<jobs, status, crashes>>
    BY <1>3 DEF Healthy, Serialise, IInv, TypeOK
  <2>2. Quiet /\ TypeOK' /\ Line'
    BY <1>1, <2>1, LeaveEffect DEF IInv, TypeOK, Quiet
  <2> QED BY <2>2, QuietStep
<1> QED BY <1>2, <1>3

----------------------------------------------------------------------------
(* The steps that write a status or the dictionary.                        *)

\* A job that nobody shares its uid with has fetched its own object.
LEMMA OwnObject ==
  ASSUME IInv, NEW p \in Posts, req[p].at \in {"mark", "finish"},
         NEW u \in Uids, NEW o \in Posts, jobs[u] = o, Alone(o)
  PROVE  req[p].obj = o <=> p = o
<1>1. /\ req[p].obj \in Posts /\ req[req[p].obj].uid = req[p].uid
      /\ req[req[p].obj].at # "lost"
  BY DEF IInv, Fetched
<1> QED BY <1>1 DEF Alone

LEMMA EnqueueStep ==
  ASSUME IInv, NEW p \in Posts, NEW u \in Uids, Enqueue(p, u)
  PROVE  IInv'
<1> DEFINE q == [at |-> "calling", uid |-> u, obj |-> NoJob]
<1>1. /\ req[p] = NotReceived /\ p \in Requests
      /\ jobs' = [jobs EXCEPT ![u] = p]
      /\ status' = [status EXCEPT ![p] = "in_queue"]
      /\ req' = [req EXCEPT ![p] = q]
      /\ UNCHANGED <<thread, queue, checked, crashes>>
  BY DEF Enqueue, Requests
<1>2. q \in Request /\ req[p].at = "new" /\ req[p].uid = NoJob
  BY <1>1 DEF Request, Steps, NotReceived
<1>3. /\ jobs' \in [Uids -> Posts \cup {NoJob}] /\ status' \in [Posts -> Statuses]
      /\ jobs'[u] = p /\ \A v \in Uids : v # u => jobs'[v] = jobs[v]
      /\ status'[p] = "in_queue" /\ \A o \in Posts : o # p => status'[o] = status[o]
  BY <1>1 DEF IInv, TypeOK, Statuses
<1>4. /\ TypeOK' /\ Line'
      /\ req'[p] = q /\ \A r \in Requests : r # p => req'[r] = req[r]
  <2> HIDE DEF q
  <2> QED BY <1>1, <1>2, <1>3, Moves DEF IInv
<1>5. /\ req'[p].at = "calling" /\ req'[p].uid = u
      /\ \A r \in Posts : r # p => req'[r] = req[r]
  BY <1>4 DEF Requests
<1>6. NoJob \notin Uids
  BY ConstantsAssumption
<1>7. Addressed' /\ Present'
  BY <1>3, <1>5 DEF IInv, Addressed, Present
<1>8. Filed'
  BY <1>2, <1>3, <1>5 DEF IInv, Filed
<1>9. Fetched'
  BY <1>2, <1>5 DEF IInv, Fetched
<1>10. RanBefore'
  BY <1>2, <1>3, <1>5 DEF IInv, RanBefore
<1>11. StatusTellsTheRun'
  <2> SUFFICES ASSUME NEW v \in Uids, NEW o \in Posts, jobs'[v] = o, Alone(o)'
               PROVE  /\ status'[o] = "in_progress" <=> req'[o].at \in {"sleeping", "finish"}
                      /\ status'[o] = "complete" <=> req'[o].at = "done"
    BY DEF StatusTellsTheRun
  <2>1. CASE o = p
    BY <1>3, <1>5, <2>1
  <2>2. CASE o # p
    <3>1. v # u /\ jobs[v] = o
      BY <1>3, <2>2
    <3>2. req[o].uid = v
      BY <3>1 DEF IInv, Filed
    <3>3. Alone(o)
      BY <1>2, <1>5, <1>6, <2>2, <3>2 DEF Alone
    <3>4. status'[o] = status[o] /\ req'[o] = req[o]
      BY <1>3, <1>5, <2>2
    <3> QED BY <3>1, <3>3, <3>4 DEF IInv, StatusTellsTheRun
  <2> QED BY <2>1, <2>2
<1> QED BY <1>4, <1>7, <1>8, <1>9, <1>10, <1>11 DEF IInv

LEMMA MarkStep ==
  ASSUME IInv, NEW p \in Posts, Mark(p)
  PROVE  IInv'
<1> DEFINE q == [req[p] EXCEPT !.at = "sleeping"]
<1>1. /\ req[p].at = "mark" /\ p \in Requests /\ req[p] \in Request
      /\ status' = [status EXCEPT ![req[p].obj] = "in_progress"]
      /\ req' = [req EXCEPT ![p] = q] /\ q \in Request
      /\ UNCHANGED <<jobs, thread, queue, checked, crashes>>
  BY DEF Mark, IInv, TypeOK, Request, Steps, Requests
<1>2. req[p].obj \in Posts
  BY <1>1 DEF IInv, Fetched
<1>3. /\ status' \in [Posts -> Statuses]
      /\ status'[req[p].obj] = "in_progress"
      /\ \A o \in Posts : o # req[p].obj => status'[o] = status[o]
  BY <1>1, <1>2 DEF IInv, TypeOK, Statuses
<1>4. /\ TypeOK' /\ Line'
      /\ req'[p] = q /\ \A r \in Requests : r # p => req'[r] = req[r]
  <2> HIDE DEF q
  <2> QED BY <1>1, <1>3, Moves DEF IInv, TypeOK
<1>5. /\ req'[p].at = "sleeping" /\ req'[p].uid = req[p].uid
      /\ \A r \in Posts : r # p => req'[r] = req[r]
  BY <1>1, <1>4 DEF Requests, Request
<1>6. \A r \in Posts : req'[r].uid = req[r].uid /\ (req'[r].at = "lost" <=> req[r].at = "lost")
  BY <1>1, <1>5
<1>7. Addressed' /\ Present' /\ Filed' /\ Fetched' /\ RanBefore'
  BY <1>1, <1>3, <1>5 DEF IInv, Addressed, Present, Filed, Fetched, RanBefore
<1>8. \A o \in Posts : Alone(o)' <=> Alone(o)
  BY <1>6 DEF Alone
<1>9. StatusTellsTheRun'
  BY <1>1, <1>3, <1>5, <1>8, OwnObject DEF IInv, StatusTellsTheRun
<1> QED BY <1>4, <1>7, <1>9 DEF IInv

LEMMA FinishStep ==
  ASSUME IInv, NEW p \in Posts, Finish(p)
  PROVE  IInv'
<1>1. /\ req[p].at = "finish" /\ p \in Requests /\ Leave(p, "done")
      /\ status' = [status EXCEPT ![req[p].obj] = "complete"]
      /\ UNCHANGED <<jobs, checked, crashes>>
  BY DEF Finish, Requests
<1>2. /\ req[p].obj \in Posts /\ req[req[p].obj].uid = req[p].uid
  BY <1>1 DEF IInv, Fetched
<1>3. /\ status' \in [Posts -> Statuses]
      /\ status'[req[p].obj] = "complete"
      /\ \A o \in Posts : o # req[p].obj => status'[o] = status[o]
  BY <1>1, <1>2 DEF IInv, TypeOK, Statuses
<1>4. /\ TypeOK' /\ Line' /\ req'[p].at = "done"
      /\ \A r \in Posts : req'[r].uid = req[r].uid /\ req'[r].obj = req[r].obj
      /\ \A r \in Posts : \/ r = p
                          \/ req'[r].at = req[r].at
                          \/ req[r].at = "queued" /\ req'[r].at = "started"
  BY <1>1, <1>3, LeaveEffect DEF IInv, TypeOK, Requests
<1>5. \A r \in Posts : req'[r].at = "lost" <=> req[r].at = "lost"
  BY <1>1, <1>4
<1>6. Addressed' /\ Present' /\ Filed' /\ Fetched'
  BY <1>1, <1>4 DEF IInv, Addressed, Present, Filed, Fetched
<1>7. RanBefore'
  BY <1>1, <1>2, <1>3, <1>4 DEF IInv, RanBefore
<1>8. \A o \in Posts : Alone(o)' <=> Alone(o)
  BY <1>4, <1>5 DEF Alone
<1>9. StatusTellsTheRun'
  BY <1>1, <1>3, <1>4, <1>8, OwnObject DEF IInv, StatusTellsTheRun
<1> QED BY <1>4, <1>6, <1>7, <1>9 DEF IInv

LEMMA CrashStep ==
  ASSUME IInv, Crash
  PROVE  IInv'
<1>1. /\ crashes' \in 0 .. MaxCrashes
      /\ \A u \in Uids : jobs'[u] = NoJob
      /\ jobs' \in [Uids -> Posts \cup {NoJob}]
      /\ thread' = {} /\ queue' = <<>> /\ UNCHANGED <<status, checked>>
  BY ConstantsAssumption DEF Crash, IInv, TypeOK
<1>2. \A r \in Requests :
         /\ req'[r] \in Request /\ req'[r].uid = req[r].uid
         /\ req'[r].at \in {"new", "done", "lost"}
         /\ \A s \in {"new", "done"} : req'[r].at = s <=> req[r].at = s
  BY DEF Crash, IInv, TypeOK, Request, Steps
<1>3. req' = [r \in Requests |-> req'[r]]
  BY DEF Crash
<1>4. req' \in [Requests -> Request]
  BY <1>2, <1>3
<1>5. TypeOK'
  BY <1>1, <1>4 DEF IInv, TypeOK
<1>6. Line' /\ Filed' /\ StatusTellsTheRun'
  BY <1>1, ConstantsAssumption DEF Line, Filed, StatusTellsTheRun
<1>7. Addressed' /\ Present' /\ Fetched' /\ RanBefore'
  BY <1>1, <1>2 DEF IInv, Addressed, Present, Fetched, RanBefore, Requests
<1> QED BY <1>5, <1>6, <1>7 DEF IInv

LEMMA Stutter ==
  ASSUME IInv, UNCHANGED vars
  PROVE  IInv'
BY DEF vars, IInv, TypeOK, Line, Addressed, Filed, Present, Fetched, RanBefore,
       StatusTellsTheRun, Alone

LEMMA Inductive == IInv /\ [Next]_vars => IInv'
<1> SUFFICES ASSUME IInv, [Next]_vars PROVE IInv'
  OBVIOUS
<1>1. CASE Crash
  BY <1>1, CrashStep
<1>2. ASSUME NEW r \in Requests, Wait(r) PROVE IInv'
  BY <1>2, WaitStep
<1>3. ASSUME NEW p \in Posts, Run(p) PROVE IInv'
  BY <1>3, FetchStep, MarkStep, FinishStep DEF Run
<1>4. ASSUME NEW p \in Posts, NEW u \in Uids, Enqueue(p, u) PROVE IInv'
  BY <1>4, EnqueueStep
<1>5. ASSUME NEW h \in Checks, Check(h) \/ Healthy(h) \/ Serialise(h) PROVE IInv'
  BY <1>5, CheckStep
<1>6. CASE UNCHANGED vars
  BY <1>6, Stutter
<1> QED BY <1>1, <1>2, <1>3, <1>4, <1>5, <1>6 DEF Next

LEMMA Invariant == Spec => []IInv
BY Initially, Inductive, PTL DEF Spec

----------------------------------------------------------------------------
(* The theorems.                                                           *)

\* Every variable keeps its type: whatever is posted while the thread is at
\* work, the thread only ever finds an object, and one request has the thread.
THEOREM TypeCorrect == Spec => []TypeOK
<1>1. IInv => TypeOK
  BY DEF IInv
<1> QED BY <1>1, Invariant, PTL

\* A job whose uid no other request posted shows exactly where its run is.
THEOREM StatusIsExact == Spec => []StatusTellsTheRun
<1>1. IInv => StatusTellsTheRun
  BY DEF IInv
<1> QED BY <1>1, Invariant, PTL

\* However POSTs of one uid overlap, complete is shown only after a run.
THEOREM CompleteAfterRun == Spec => []CompleteMeansRun
<1>1. IInv => CompleteMeansRun
  BY DEF IInv, Filed, RanBefore, CompleteMeansRun
<1> QED BY <1>1, Invariant, PTL

----------------------------------------------------------------------------
(* Nobody waits for an idle thread.                                        *)

AtWork(r) == req[r].at \in {"started", "mark", "sleeping", "finish"}

\* The thread has the one request that is at work in it, the queue everybody
\* who waits, and nobody does when the thread is free.
LimiterInv ==
  /\ thread = {r \in Requests : AtWork(r)}
  /\ \A r \in Requests : req[r].at = "queued" => \E i \in 1 .. Len(queue) : queue[i] = r
  /\ thread = {} => queue = <<>>

\* Who waits for the thread has a place of its own in the queue, and another
\* request is at work in the thread.
NoLostThread ==
  \A r \in Requests : req[r].at = "queued" =>
     /\ \E q \in Requests \ {r} : thread = {q} /\ AtWork(q)
     /\ \E i \in 1 .. Len(queue) : \A j \in 1 .. Len(queue) : queue[j] = r <=> j = i

\* A step of one request that neither takes the thread nor gives it back.
LEMMA LimiterKept ==
  ASSUME TypeOK, LimiterInv, NEW r \in Requests,
         \A q \in Requests \ {r} : req'[q].at = req[q].at,
         req'[r].at # "queued", req[r].at # "queued", AtWork(r)' <=> AtWork(r),
         UNCHANGED <<thread, queue>>
  PROVE  LimiterInv'
<1>1. \A q \in Requests : AtWork(q)' <=> AtWork(q)
  BY DEF AtWork
<1>2. \A q \in Requests : req'[q].at = "queued" => req[q].at = "queued"
  OBVIOUS
<1> QED BY <1>1, <1>2 DEF LimiterInv

LEMMA WaitLimits ==
  ASSUME TypeOK, Line, LimiterInv, NEW r \in Requests, Wait(r)
  PROVE  LimiterInv'
<1>1. /\ \A q \in Requests : q # r => req'[q].at = req[q].at
      /\ req[r].at = "calling"
  BY WaitEffect
<1>2. CASE thread = {} /\ queue = <<>>
  <2>1. thread' = {r} /\ queue' = <<>> /\ req'[r].at = "started"
    BY <1>2 DEF Wait, TypeOK, Request
  <2>2. \A q \in Requests : AtWork(q)' <=> q = r
    BY <1>1, <1>2, <2>1 DEF LimiterInv, AtWork
  <2>3. \A q \in Requests : req'[q].at # "queued"
    BY <1>1, <1>2, <2>1 DEF LimiterInv
  <2> QED BY <2>1, <2>2, <2>3 DEF LimiterInv
<1>3. CASE ~(thread = {} /\ queue = <<>>)
  <2>1. /\ thread' = thread /\ thread # {} /\ queue' = Append(queue, r)
        /\ req'[r].at = "queued"
    BY <1>3 DEF Wait, TypeOK, Request, LimiterInv
  <2>2. /\ Len(queue') = Len(queue) + 1 /\ Len(queue) \in Nat
        /\ \A i \in 1 .. Len(queue) : queue'[i] = queue[i]
        /\ queue'[Len(queue) + 1] = r
    BY <2>1 DEF TypeOK
  <2>3. \A q \in Requests : AtWork(q)' <=> AtWork(q)
    BY <1>1, <2>1 DEF AtWork
  <2>4. \A q \in Requests : req'[q].at = "queued" =>
           \E i \in 1 .. Len(queue') : queue'[i] = q
    BY <1>1, <2>2 DEF LimiterInv
  <2> QED BY <2>1, <2>3, <2>4 DEF LimiterInv
<1> QED BY <1>2, <1>3

LEMMA LeaveLimits ==
  ASSUME TypeOK, Line, LimiterInv, NEW r \in Requests, AtWork(r),
         NEW next \in {"calling", "done"}, Leave(r, next)
  PROVE  LimiterInv'
<1>1. thread = {r} /\ \A q \in Requests : AtWork(q) => q = r
  BY DEF LimiterInv, TypeOK
<1>2. CASE queue = <<>>
  <2>1. thread' = {} /\ queue' = <<>> /\ req' = [req EXCEPT ![r].at = next]
    BY <1>2 DEF Leave
  <2>2. req'[r].at = next /\ \A q \in Requests \ {r} : req'[q] = req[q]
    BY <2>1 DEF TypeOK, Request
  <2>3. \A q \in Requests : ~AtWork(q)' /\ req'[q].at # "queued"
    BY <1>1, <1>2, <2>2 DEF AtWork, LimiterInv
  <2> QED BY <2>1, <2>3 DEF LimiterInv
<1>3. CASE queue # <<>>
  <2>1. PICK h \in Requests, n \in Nat \ {0} :
           /\ h = Head(queue) /\ h = queue[1] /\ n = Len(queue)
           /\ Len(Tail(queue)) = n - 1
           /\ \A i \in 1 .. n - 1 : Tail(queue)[i] = queue[i + 1]
    BY <1>3 DEF TypeOK
  <2>2. /\ thread' = {h} /\ queue' = Tail(queue)
        /\ req' = [req EXCEPT ![r].at = next, ![h].at = "started"]
    BY <1>3, <2>1 DEF Leave
  <2>3. req[h].at = "queued" /\ h # r
    BY <2>1 DEF Line, AtWork
  <2>4. /\ req'[r].at = next /\ req'[h].at = "started"
        /\ \A q \in Requests \ {r, h} : req'[q] = req[q]
    BY <2>2, <2>3 DEF TypeOK, Request
  <2>5. \A q \in Requests : AtWork(q)' <=> q = h
    BY <1>1, <2>3, <2>4 DEF AtWork
  <2>6. ASSUME NEW q \in Requests, req'[q].at = "queued"
        PROVE  \E i \in 1 .. Len(queue') : queue'[i] = q
    <3>1. q # h /\ req[q].at = "queued"
      BY <2>4, <2>6
    <3>2. PICK i \in 1 .. n : queue[i] = q
      BY <2>1, <3>1 DEF LimiterInv
    <3>3. i - 1 \in 1 .. n - 1 /\ (i - 1) + 1 = i
      BY <2>1, <3>1, <3>2
    <3> QED BY <2>1, <2>2, <3>2, <3>3
  <2> QED BY <2>2, <2>5, <2>6 DEF LimiterInv
<1> QED BY <1>2, <1>3

LEMMA LimiterStep ==
  ASSUME IInv, LimiterInv, [Next]_vars
  PROVE  LimiterInv'
<1>0. TypeOK /\ Line /\ Posts \subseteq Requests /\ Checks \subseteq Requests
  BY DEF IInv, Requests
<1>1. CASE Crash
  <2>1. \A r \in Requests : req'[r].at \in {"new", "done", "lost"}
    BY <1>0, <1>1 DEF Crash, TypeOK, Request
  <2> QED BY <1>1, <2>1 DEF Crash, LimiterInv, AtWork
<1>2. ASSUME NEW r \in Requests, Wait(r) PROVE LimiterInv'
  BY <1>0, <1>2, WaitLimits
<1>3. ASSUME NEW p \in Posts, Fetch(p) \/ Mark(p) \/ FetchAgain(p) PROVE LimiterInv'
  <2>1. /\ UNCHANGED <<thread, queue>> /\ AtWork(p)
        /\ \E o : req' = [req EXCEPT ![p] = o] /\ o.at \in {"mark", "sleeping", "finish"}
    <3>1. CASE Fetch(p)
      <4> DEFINE o == [req[p] EXCEPT !.obj = jobs[req[p].uid], !.at = "mark"]
      <4>1. req' = [req EXCEPT ![p] = o] /\ o.at = "mark"
        BY <1>0, <3>1 DEF Fetch, TypeOK, Request
      <4> QED BY <3>1, <4>1 DEF Fetch, AtWork
    <3>2. CASE Mark(p)
      <4> DEFINE o == [req[p] EXCEPT !.at = "sleeping"]
      <4>1. req' = [req EXCEPT ![p] = o] /\ o.at = "sleeping"
        BY <1>0, <3>2 DEF Mark, TypeOK, Request
      <4> QED BY <3>2, <4>1 DEF Mark, AtWork
    <3>3. CASE FetchAgain(p)
      <4> DEFINE o == [req[p] EXCEPT !.obj = jobs[req[p].uid], !.at = "finish"]
      <4>1. req' = [req EXCEPT ![p] = o] /\ o.at = "finish"
        BY <1>0, <3>3 DEF FetchAgain, TypeOK, Request
      <4> QED BY <3>3, <4>1 DEF FetchAgain, AtWork
    <3> QED BY <1>3, <3>1, <3>2, <3>3
  <2>2. /\ req'[p].at \in {"mark", "sleeping", "finish"}
        /\ \A q \in Requests \ {p} : req'[q] = req[q]
    BY <1>0, <2>1 DEF TypeOK
  <2> QED BY <1>0, <2>1, <2>2, LimiterKept DEF AtWork
<1>4. ASSUME NEW r \in Requests, NEW next \in {"calling", "done"}, Leave(r, next), AtWork(r)
      PROVE  LimiterInv'
  BY <1>0, <1>4, LeaveLimits
<1>5. ASSUME NEW p \in Posts, NEW u \in Uids, Enqueue(p, u) PROVE LimiterInv'
  <2>1. /\ UNCHANGED <<thread, queue>> /\ req[p].at = "new" /\ req'[p].at = "calling"
        /\ \A q \in Requests \ {p} : req'[q] = req[q]
    BY <1>0, <1>5 DEF Enqueue, NotReceived, TypeOK
  <2> QED BY <1>0, <2>1, LimiterKept DEF AtWork
<1>6. ASSUME NEW h \in Checks, Check(h) PROVE LimiterInv'
  <2>1. /\ UNCHANGED <<thread, queue>> /\ req[h].at = "new" /\ req'[h].at = "calling"
        /\ \A q \in Requests \ {h} : req'[q] = req[q]
    BY <1>0, <1>6 DEF Check, NotReceived, TypeOK, Request
  <2> QED BY <1>0, <2>1, LimiterKept DEF AtWork
<1>7. CASE UNCHANGED vars
  BY <1>7 DEF vars, LimiterInv, AtWork
<1>8. \A r : Finish(r) \/ Healthy(r) \/ Serialise(r) =>
              AtWork(r) /\ \E next \in {"calling", "done"} : Leave(r, next)
  BY DEF Finish, Healthy, Serialise, AtWork
<1> QED BY <1>0, <1>1, <1>2, <1>3, <1>4, <1>5, <1>6, <1>7, <1>8 DEF Next, Run

\* The limiter of one thread forgets nobody, whatever is posted and checked
\* while the thread sleeps in a job: no wakeup is lost.
THEOREM NobodyForgotten == Spec => []NoLostThread
<1>1. Init => LimiterInv
  <2> SUFFICES ASSUME Init PROVE LimiterInv
    OBVIOUS
  <2>1. \A r \in Requests : req[r].at = "new"
    BY DEF Init, NotReceived
  <2> QED BY <2>1 DEF Init, LimiterInv, AtWork
<1>2. IInv /\ LimiterInv /\ [Next]_vars => LimiterInv'
  BY LimiterStep
<1>3. IInv /\ LimiterInv => NoLostThread
  <2> SUFFICES ASSUME TypeOK, Line, LimiterInv, NEW r \in Requests, req[r].at = "queued"
               PROVE  /\ \E q \in Requests \ {r} : thread = {q} /\ AtWork(q)
                      /\ \E i \in 1 .. Len(queue) : \A j \in 1 .. Len(queue) :
                            queue[j] = r <=> j = i
    BY DEF IInv, NoLostThread
  <2>1. PICK i \in 1 .. Len(queue) : queue[i] = r
    BY DEF LimiterInv
  <2>2. \A j \in 1 .. Len(queue) : queue[j] = r <=> j = i
    BY <2>1 DEF Line
  <2>3. PICK q \in Requests : thread = {q}
    BY <2>1 DEF LimiterInv, TypeOK
  <2>4. AtWork(q) /\ q # r
    BY <2>3 DEF LimiterInv, AtWork
  <2> QED BY <2>1, <2>2, <2>3, <2>4
<1> QED BY <1>1, <1>2, <1>3, Invariant, PTL DEF Spec

----------------------------------------------------------------------------
(* No job is abandoned.                                                    *)

\* A step that writes no dictionary entry and no status, and takes no run past
\* its second lookup but with the object of the uid.
LEMMA AbandonsNone ==
  ASSUME NoJobAbandoned, UNCHANGED <<jobs, status>>,
         \A p \in Posts : req'[p].uid = req[p].uid,
         \A u \in Uids, p, o \in Posts :
            jobs[u] = o /\ req[p].uid = u /\ Completes(p, o) => Completes(p, o)'
  PROVE  NoJobAbandoned'
<1> SUFFICES ASSUME NEW u \in Uids, NEW o \in Posts, jobs[u] = o, status[o] # "complete"
             PROVE  \E p \in Posts : req'[p].uid = u /\ Completes(p, o)'
  BY DEF NoJobAbandoned
<1>1. PICK p \in Posts : req[p].uid = u /\ Completes(p, o)
  BY DEF NoJobAbandoned
<1> QED BY <1>1

LEMMA AbandonedStep ==
  ASSUME IInv, NoJobAbandoned, [Next]_vars
  PROVE  NoJobAbandoned'
<1>0. TypeOK /\ Line /\ Posts \subseteq Requests
  BY DEF IInv, Requests
<1>1. CASE Crash
  BY <1>1, ConstantsAssumption DEF Crash, NoJobAbandoned
<1>2. ASSUME NEW r \in Requests, Wait(r) PROVE NoJobAbandoned'
  <2>1. /\ \A q \in Requests : req'[q].uid = req[q].uid /\ req'[q].obj = req[q].obj
        /\ \A q \in Requests : q # r => req'[q].at = req[q].at
        /\ req'[r].at \in {"started", "queued"}
    BY <1>0, <1>2, WaitEffect
  <2>2. \A p, o \in Posts : Completes(p, o) => Completes(p, o)'
    BY <1>0, <2>1 DEF Completes
  <2> QED BY <1>0, <1>2, <2>1, <2>2, AbandonsNone DEF Wait
<1>3. ASSUME NEW h \in Checks, Check(h) \/ Healthy(h) \/ Serialise(h) PROVE NoJobAbandoned'
  <2>1. h \in Requests /\ h \notin Posts /\ UNCHANGED <<jobs, status>>
    BY <1>3, ConstantsAssumption DEF Requests, Check, Healthy, Serialise
  <2>2. \A p \in Posts : /\ req'[p].uid = req[p].uid /\ req'[p].obj = req[p].obj
                         /\ \/ req'[p].at = req[p].at
                            \/ req[p].at = "queued" /\ req'[p].at = "started"
    <3>1. CASE Check(h)
      BY <1>0, <2>1, <3>1 DEF Check, TypeOK
    <3>2. CASE Healthy(h) \/ Serialise(h)
      <4>1. /\ req[h].at = "started"
            /\ \E next \in {"calling", "done"} : Leave(h, next)
        BY <3>2 DEF Healthy, Serialise
      <4> QED BY <1>0, <2>1, <4>1, LeaveEffect
    <3> QED BY <1>3, <3>1, <3>2
  <2>3. \A p, o \in Posts : Completes(p, o) => Completes(p, o)'
    BY <2>2 DEF Completes
  <2> QED BY <2>1, <2>2, <2>3, AbandonsNone
<1>4. ASSUME NEW p \in Posts, NEW u \in Uids, Enqueue(p, u) PROVE NoJobAbandoned'
  <2>1. /\ req[p].at = "new" /\ req'[p].at = "calling" /\ req'[p].uid = u
        /\ \A q \in Posts \ {p} : req'[q] = req[q]
        /\ jobs'[u] = p /\ \A v \in Uids \ {u} : jobs'[v] = jobs[v]
        /\ \A o \in Posts \ {p} : status'[o] = status[o]
    BY <1>0, <1>4 DEF Enqueue, NotReceived, TypeOK
  <2> SUFFICES ASSUME NEW v \in Uids, NEW o \in Posts, jobs'[v] = o,
                      status'[o] # "complete"
               PROVE  \E q \in Posts : req'[q].uid = v /\ Completes(q, o)'
    BY DEF NoJobAbandoned
  <2>2. CASE v = u
    BY <2>1, <2>2 DEF Completes
  <2>3. CASE v # u
    <3>1. jobs[v] = o /\ o # p /\ status[o] # "complete"
      BY <2>1, <2>3 DEF IInv, Filed
    <3>2. PICK q \in Posts : req[q].uid = v /\ Completes(q, o)
      BY <3>1 DEF NoJobAbandoned
    <3>3. q # p
      BY <2>1, <3>2 DEF Completes
    <3>4. req'[q].uid = v /\ Completes(q, o)'
      BY <2>1, <3>2, <3>3 DEF Completes
    <3> QED BY <3>4
  <2> QED BY <2>2, <2>3
<1>5. ASSUME NEW p \in Posts, Fetch(p) \/ FetchAgain(p) PROVE NoJobAbandoned'
  <2>1. /\ UNCHANGED <<jobs, status>>
        /\ req'[p].uid = req[p].uid /\ req'[p].obj = jobs[req[p].uid]
        /\ req'[p].at \in {"mark", "finish"}
        /\ \A q \in Posts \ {p} : req'[q] = req[q]
    BY <1>0, <1>5 DEF Fetch, FetchAgain, TypeOK, Request
  <2>2. \A u \in Uids, q, o \in Posts :
           jobs[u] = o /\ req[q].uid = u /\ Completes(q, o) => Completes(q, o)'
    BY <2>1 DEF Completes
  <2> QED BY <2>1, <2>2, AbandonsNone
<1>6. ASSUME NEW p \in Posts, Mark(p) PROVE NoJobAbandoned'
  <2>1. /\ req[p].at = "mark" /\ req'[p].at = "sleeping"
        /\ req'[p].uid = req[p].uid
        /\ \A q \in Posts \ {p} : req'[q] = req[q]
        /\ jobs' = jobs /\ status' = [status EXCEPT ![req[p].obj] = "in_progress"]
    BY <1>0, <1>6 DEF Mark, TypeOK, Request
  <2>2. \A q, o \in Posts : Completes(q, o) => Completes(q, o)'
    BY <2>1 DEF Completes
  <2> SUFFICES ASSUME NEW u \in Uids, NEW o \in Posts, jobs'[u] = o,
                      status'[o] # "complete"
               PROVE  \E q \in Posts : req'[q].uid = u /\ Completes(q, o)'
    BY DEF NoJobAbandoned
  <2>3. CASE o = req[p].obj
    <3>1. req[p].uid = u
      BY <2>1, <2>3 DEF IInv, Filed, Fetched
    <3> QED BY <2>1, <3>1 DEF Completes
  <2>4. CASE o # req[p].obj
    <3>1. status[o] # "complete"
      BY <1>0, <2>1, <2>4 DEF TypeOK
    <3>2. PICK q \in Posts : req[q].uid = u /\ Completes(q, o)
      BY <2>1, <3>1 DEF NoJobAbandoned
    <3>3. req'[q].uid = u /\ Completes(q, o)'
      BY <2>1, <2>2, <3>2
    <3> QED BY <3>3
  <2> QED BY <2>3, <2>4
<1>7. ASSUME NEW p \in Posts, Finish(p) PROVE NoJobAbandoned'
  <2>1. /\ req[p].at = "finish" /\ Leave(p, "done") /\ p \in Requests
        /\ jobs' = jobs /\ status' = [status EXCEPT ![req[p].obj] = "complete"]
    BY <1>0, <1>7 DEF Finish
  <2>2. \A q \in Posts : /\ req'[q].uid = req[q].uid /\ req'[q].obj = req[q].obj
                         /\ \/ q = p
                            \/ req'[q].at = req[q].at
                            \/ req[q].at = "queued" /\ req'[q].at = "started"
    BY <1>0, <2>1, LeaveEffect
  <2> SUFFICES ASSUME NEW u \in Uids, NEW o \in Posts, jobs'[u] = o,
                      status'[o] # "complete"
               PROVE  \E q \in Posts : req'[q].uid = u /\ Completes(q, o)'
    BY DEF NoJobAbandoned
  <2>3. o # req[p].obj /\ status[o] # "complete"
    BY <1>0, <2>1 DEF TypeOK
  <2>4. PICK q \in Posts : req[q].uid = u /\ Completes(q, o)
    BY <2>1, <2>3 DEF NoJobAbandoned
  <2>5. q # p
    BY <2>1, <2>3, <2>4 DEF Completes
  <2>6. req'[q].uid = u /\ Completes(q, o)'
    BY <2>2, <2>4, <2>5 DEF Completes
  <2> QED BY <2>6
<1>8. CASE UNCHANGED vars
  BY <1>8 DEF vars, NoJobAbandoned, Completes
<1> QED BY <1>1, <1>2, <1>3, <1>4, <1>5, <1>6, <1>7, <1>8 DEF Next, Run

\* Whatever POSTs of one uid overlap with its runs, a job that is not complete
\* is still to be completed by a run that is under way.
THEOREM JobsAreKept == Spec => []NoJobAbandoned
<1>1. Init => NoJobAbandoned
  BY ConstantsAssumption DEF Init, NoJobAbandoned
<1>2. IInv /\ NoJobAbandoned /\ [Next]_vars => NoJobAbandoned'
  BY AbandonedStep
<1> QED BY <1>1, <1>2, Invariant, PTL DEF Spec

============================================================================
