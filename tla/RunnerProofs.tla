---------------------------- MODULE RunnerProofs ----------------------------
(* The runner's rate limiter is an ideal token bucket, and the pool is       *)
(* closed only when every request has its answer: for any number of          *)
(* requests, workers and deaths, any queue and any bucket.                   *)
EXTENDS Runner, SequenceTheorems, FiniteSetTheorems, TLAPS

-----------------------------------------------------------------------------
(* The limiter alone *)

\* What refill computes lies between the stored amount and the capacity.
LEMMA RefilledInRange ==
    ASSUME LimiterTypeOK
    PROVE  Refilled \in 0 .. Capacity /\ Refilled >= tokens
<1>1. tokens \in 0 .. Capacity /\ elapsed \in 0 .. Capacity /\ Capacity \in Nat /\ Rate \in Nat
  BY LimiterAssumption DEF LimiterTypeOK
<1>2. elapsed * Rate \in Nat
  BY <1>1
<1> QED BY <1>1, <1>2 DEF Refilled, AtMost

\* A caller that sleeps does so for at most the time one token takes.
LEMMA SleepInRange ==
    ASSUME LimiterTypeOK, Refilled < Cost
    PROVE  RoundUp(Cost - Refilled, Rate) \in 0 .. Cost
<1> DEFINE n == Cost - Refilled
<1>1. n \in Nat /\ 1 <= n /\ n <= Cost /\ Rate \in Nat \ {0} /\ Cost \in Nat
  BY RefilledInRange, LimiterAssumption
<1>2. n + Rate - 1 \in Nat
  BY <1>1
<1> HIDE DEF n
<1>3. (n + Rate - 1) \div Rate <= n
  <2>1. n + Rate - 1 <= n * Rate
    <3>1. (n - 1) * (Rate - 1) >= 0
      BY <1>1
    <3> QED BY <1>1, <3>1
  <2> QED BY <1>1, <1>2, <2>1, Z3
<1>4. (n + Rate - 1) \div Rate >= 0
  BY <1>1, <1>2, Z3
<1>5. (n + Rate - 1) \div Rate \in Int
  BY <1>1, <1>2
<1> QED BY <1>1, <1>3, <1>4, <1>5 DEF RoundUp, n

LEMMA LimiterTypes == LimiterSpec => []LimiterTypeOK
<1>1. LimiterInit => LimiterTypeOK
  BY LimiterAssumption DEF LimiterInit, LimiterTypeOK
<1>2. LimiterTypeOK /\ [LimiterNext]_limiterVars => LimiterTypeOK'
  <2> SUFFICES ASSUME LimiterTypeOK, [LimiterNext]_limiterVars PROVE LimiterTypeOK'
    OBVIOUS
  <2>1. ASSUME NEW c \in Callers, Grant(c) PROVE LimiterTypeOK'
    <3>1. tokens' \in 0 .. Capacity
      BY <2>1, RefilledInRange, LimiterAssumption DEF Grant
    <3> QED BY <2>1, <3>1, LimiterAssumption DEF Grant, RefillTime, LimiterTypeOK
  <2>2. ASSUME NEW c \in Callers, GoToSleep(c) PROVE LimiterTypeOK'
    <3>1. tokens' \in 0 .. Capacity
      BY <2>2, RefilledInRange DEF GoToSleep
    <3>2. sleep' \in [Callers -> 0 .. Cost]
      BY <2>2, SleepInRange DEF GoToSleep, LimiterTypeOK
    <3> QED BY <2>2, <3>1, <3>2, LimiterAssumption DEF GoToSleep, RefillTime, LimiterTypeOK
  <2>3. CASE Tick
    <3>1. elapsed' \in 0 .. Capacity
      BY <2>3, LimiterAssumption DEF Tick, AtMost, LimiterTypeOK
    <3>2. sleep' \in [Callers -> 0 .. Cost]
      BY <2>3, LimiterAssumption DEF Tick, LimiterTypeOK
    <3> QED BY <2>3, <3>1, <3>2 DEF Tick, LimiterTypeOK
  <2>4. CASE UNCHANGED limiterVars
    BY <2>4 DEF limiterVars, LimiterTypeOK
  <2> QED BY <2>1, <2>2, <2>3, <2>4 DEF LimiterNext
<1> QED BY <1>1, <1>2, PTL DEF LimiterSpec

\* A tick of the clock fills the ideal bucket by Rate, or leaves it full.
LEMMA TickFills ==
    ASSUME LimiterTypeOK, Tick PROVE Ideal!Fill
<1>0. Granted' = Granted
  BY DEF Tick, Granted
<1>1. /\ tokens \in 0 .. Capacity /\ elapsed \in 0 .. Capacity
      /\ Capacity \in Nat /\ Rate \in Nat \ {0}
      /\ tokens' = tokens /\ elapsed' = IF elapsed + 1 > Capacity THEN Capacity ELSE elapsed + 1
  BY LimiterAssumption DEF LimiterTypeOK, Tick, AtMost
<1>2. CASE elapsed + 1 <= Capacity
  <2>1. elapsed' * Rate = elapsed * Rate + Rate /\ elapsed * Rate \in Nat
    BY <1>1, <1>2
  <2> QED BY <1>0, <1>1, <2>1 DEF Ideal!Fill, Refilled, AtMost
<1>3. CASE elapsed + 1 > Capacity
  <2>1. elapsed = Capacity /\ elapsed' = Capacity
    BY <1>1, <1>3
  <2>2. Capacity * Rate \in Nat /\ Capacity * Rate >= Capacity
    BY <1>1
  <2> QED BY <1>0, <1>1, <2>1, <2>2 DEF Ideal!Fill, Refilled, AtMost
<1> QED BY <1>1, <1>2, <1>3

\* Nothing is added to a bucket that was just refilled.
LEMMA AskedJustNow ==
    ASSUME elapsed' = 0, tokens' \in 0 .. Capacity PROVE Refilled' = tokens'
<1>1. Capacity \in Nat /\ Rate \in Nat /\ tokens' \in Nat /\ tokens' <= Capacity
  BY LimiterAssumption
<1>2. elapsed' * Rate = 0
  BY <1>1
<1>3. Refilled' = AtMost(Capacity, tokens' + 0)
  BY <1>2, Zenon DEF Refilled
<1>4. \A t \in 0 .. Capacity : AtMost(Capacity, t + 0) = t
  BY <1>1 DEF AtMost
<1> QED BY <1>3, <1>4

\* Counting tokens only when somebody asks is as good as filling the bucket
\* continuously (rate-limiter.mjs:9-29).
LEMMA LimiterImplementsBucket == LimiterSpec => Ideal!Spec
<1>1. LimiterInit => Ideal!Init
  BY LimiterAssumption DEF LimiterInit, Ideal!Init, Refilled, AtMost, Granted
<1>2. LimiterTypeOK /\ LimiterTypeOK' /\ [LimiterNext]_limiterVars
          => [Ideal!Next]_<<Refilled, Granted>>
  <2> SUFFICES ASSUME LimiterTypeOK, LimiterTypeOK', [LimiterNext]_limiterVars
               PROVE  [Ideal!Next]_<<Refilled, Granted>>
    OBVIOUS
  <2>0. Rate \in Nat /\ Capacity \in Nat /\ Cost \in Nat
    BY LimiterAssumption
  <2>1. ASSUME NEW c \in Callers, Grant(c) PROVE Ideal!Pass(c)
    <3>1. Refilled' = tokens'
      <4>1. tokens' \in 0 .. Capacity /\ elapsed' = 0
        BY <2>1 DEF LimiterTypeOK, Grant, RefillTime
      <4> QED BY <4>1, AskedJustNow
    <3>2. Granted' = Granted \cup {c} /\ c \notin Granted
      BY <2>1 DEF Grant, MayTry, Granted, LimiterTypeOK
    <3> QED BY <2>1, <3>1, <3>2 DEF Ideal!Pass, Grant
  <2>2. ASSUME NEW c \in Callers, GoToSleep(c)
        PROVE  Refilled' = Refilled /\ Granted' = Granted
    <3>1. tokens' \in 0 .. Capacity /\ elapsed' = 0 /\ tokens' = Refilled
      BY <2>2 DEF LimiterTypeOK, GoToSleep, RefillTime
    <3>2. Refilled' = tokens'
      BY <3>1, AskedJustNow
    <3>3. Granted' = Granted
      BY <2>2 DEF GoToSleep, MayTry, Granted, LimiterTypeOK
    <3> QED BY <3>1, <3>2, <3>3
  <2>3. CASE Tick
    BY <2>3, TickFills DEF Ideal!Next
  <2>4. CASE UNCHANGED limiterVars
    BY <2>4 DEF limiterVars, Refilled, AtMost, Granted
  <2> QED BY <2>1, <2>2, <2>3, <2>4 DEF LimiterNext, Ideal!Next
<1> QED BY <1>1, <1>2, LimiterTypes, PTL DEF LimiterSpec, Ideal!Spec

-----------------------------------------------------------------------------
(* The runner *)

\* Every step of the runner is a step of the limiter or none.
LEMMA RunsLimiter == Spec => LimiterSpec
<1>1. Init => LimiterInit
  BY DEF Init
<1>2. [Next]_vars => [LimiterNext]_limiterVars
  <2> SUFFICES ASSUME [Next]_vars PROVE [LimiterNext]_limiterVars
    OBVIOUS
  <2>1. ASSUME NEW j \in Jobs, Request(j) PROVE [LimiterNext]_limiterVars
    <3>1. j \in Callers
      BY RequestAssumption
    <3>2. CASE AcquireAndSubmit(j)
      BY <3>1, <3>2 DEF AcquireAndSubmit, LimiterNext
    <3>3. CASE Wait(j)
      BY <3>1, <3>3 DEF Wait, LimiterNext
    <3>4. ASSUME NEW parsed \in BOOLEAN, Continue(j, parsed) PROVE UNCHANGED limiterVars
      BY <3>4 DEF Continue
    <3>5. CASE Edited(j)
      BY <3>5 DEF Edited
    <3> QED BY <2>1, <3>2, <3>3, <3>4, <3>5 DEF Request
  <2>2. CASE Clock
    BY <2>2 DEF Clock, LimiterNext
  <2>3. CASE Pool
    BY <2>3 DEF Pool
  <2>4. CASE Finish
    BY <2>4 DEF Finish
  <2>5. CASE UNCHANGED vars
    BY <2>5 DEF vars
  <2> QED BY <2>1, <2>2, <2>3, <2>4, <2>5 DEF Next
<1> QED BY <1>1, <1>2, PTL DEF Spec, LimiterSpec

\* No request passes the limiter before the ideal bucket lets it
\* (rate-limiter.mjs:20).
THEOREM RunnerKeepsRate == Spec => LimiterIsBucket
BY RunsLimiter, LimiterImplementsBucket, PTL DEF LimiterIsBucket

-----------------------------------------------------------------------------
(* Types of the pool *)

LEMMA SubmitTypes ==
    ASSUME PoolTypeOK, NEW j \in Jobs, Submit(j) PROVE PoolTypeOK'
<1>1. UNCHANGED <<replies, thread, answer, deaths>>
  BY DEF Submit
<1>2. CASE Overflow(j)
  BY <1>1, <1>2 DEF Overflow, PoolTypeOK
<1>3. CASE StartNow(j)
  <2> DEFINE w == idleWorkers[Len(idleWorkers)]
  <2>1. w \in Workers /\ SubSeq(idleWorkers, 1, Len(idleWorkers) - 1) \in Seq(Workers)
    <3>1. idleWorkers \in Seq(Workers) /\ idleWorkers # <<>>
      BY <1>3 DEF StartNow, PoolTypeOK
    <3>2. Len(idleWorkers) \in 1 .. Len(idleWorkers)
      BY <3>1, EmptySeq, LenProperties
    <3> QED BY <3>1, <3>2, ElementOfSeq, SubSeqProperties
  <2> HIDE DEF w
  <2>2. /\ pendingByWorker' = [pendingByWorker EXCEPT ![w] = j]
        /\ working' = IF thread[w] = "up" THEN [working EXCEPT ![w] = j] ELSE working
        /\ job' = [job EXCEPT ![j] = "open"]
        /\ idleWorkers' = SubSeq(idleWorkers, 1, Len(idleWorkers) - 1)
        /\ queue' = queue
    BY <1>3 DEF StartNow, Dispatch, w
  <2> QED BY <1>1, <2>1, <2>2 DEF PoolTypeOK
<1>4. CASE Enqueue(j)
  <2>1. queue \in Seq(Jobs) /\ Len(queue) < MaxQueue
    BY <1>4, PoolAssumption DEF Enqueue, Full, PoolTypeOK
  <2>2. Append(queue, j) \in Seq(Jobs) /\ Len(Append(queue, j)) <= MaxQueue
    BY <2>1, AppendProperties, PoolAssumption
  <2> QED BY <1>1, <1>4, <2>2 DEF Enqueue, PoolTypeOK
<1> QED BY <1>2, <1>3, <1>4 DEF Submit

LEMMA HandleMessageTypes ==
    ASSUME PoolTypeOK, NEW r \in replies, HandleMessage(r) PROVE PoolTypeOK'
<1> DEFINE w == r.worker
<1> DEFINE j == pendingByWorker[r.worker]
<1>1. r \in Reply /\ w \in Workers /\ r.job \in Jobs
  BY DEF PoolTypeOK, Reply
<1>2. replies' = replies \ {r} /\ UNCHANGED <<thread, deaths>>
  BY DEF HandleMessage
<1>3. CASE j = None
  BY <1>2, <1>3 DEF HandleMessage, PoolTypeOK
<1>4. CASE j # None
  <2>1. j \in Jobs
    BY <1>1, <1>4 DEF PoolTypeOK
  <2>2. Settle(j, r) /\ TakeNext(w)
    BY <1>4 DEF HandleMessage
  <2> HIDE DEF j, w
  <2>3. /\ job' \in [Jobs -> {"new", "open", "resolved", "rejected"}]
        /\ answer' \in [Jobs -> Jobs \cup {None}]
    BY <1>1, <2>1, <2>2 DEF Settle, PoolTypeOK
  <2>4. CASE queue # <<>>
    <3>1. Head(queue) \in Jobs /\ Tail(queue) \in Seq(Jobs) /\ Len(Tail(queue)) = Len(queue) - 1
          /\ Len(queue) \in Nat
      BY <2>4, HeadTailProperties, LenProperties DEF PoolTypeOK
    <3> DEFINE h == Head(queue)
    <3>2. /\ pendingByWorker' = [pendingByWorker EXCEPT ![w] = h]
          /\ working' = IF thread[w] = "up" THEN [working EXCEPT ![w] = h] ELSE working
          /\ queue' = Tail(queue) /\ idleWorkers' = idleWorkers
      BY <2>2, <2>4 DEF TakeNext, Dispatch
    <3>3. h \in Jobs
      BY <3>1
    <3> HIDE DEF h
    <3>4. /\ pendingByWorker' \in [Workers -> Jobs \cup {None}]
          /\ working' \in [Workers -> Jobs \cup {None}]
      BY <1>1, <3>2, <3>3 DEF PoolTypeOK
    <3>5. Len(queue') <= MaxQueue /\ queue' \in Seq(Jobs)
      BY <3>1, <3>2, PoolAssumption DEF PoolTypeOK
    <3> QED BY <1>2, <2>3, <3>2, <3>4, <3>5 DEF PoolTypeOK
  <2>5. CASE queue = <<>>
    <3>1. /\ idleWorkers' = Append(idleWorkers, w)
          /\ pendingByWorker' = [pendingByWorker EXCEPT ![w] = None]
          /\ UNCHANGED <<queue, working>>
      BY <2>2, <2>5 DEF TakeNext
    <3>2. idleWorkers' \in Seq(Workers)
      BY <1>1, <3>1, AppendProperties DEF PoolTypeOK
    <3> QED BY <1>1, <1>2, <2>3, <3>1, <3>2 DEF PoolTypeOK
  <2> QED BY <2>4, <2>5
<1> QED BY <1>3, <1>4

LEMMA RejectPendingTypes ==
    ASSUME PoolTypeOK, NEW w \in Workers, RejectPending(w)
    PROVE  /\ job' \in [Jobs -> {"new", "open", "resolved", "rejected"}]
           /\ pendingByWorker' \in [Workers -> Jobs \cup {None}]
BY DEF RejectPending, PoolTypeOK

LEMMA PoolStepTypes ==
    ASSUME PoolTypeOK, PoolStep PROVE PoolTypeOK'
<1>1. ASSUME NEW w \in Workers, NEW ok \in BOOLEAN, PostReply(w, ok) PROVE PoolTypeOK'
  <2>1. working[w] \in Jobs
    BY <1>1 DEF PostReply, PoolTypeOK
  <2>2. replies' \in SUBSET Reply
    BY <1>1, <2>1 DEF PostReply, PoolTypeOK, Reply
  <2> QED BY <1>1, <2>2 DEF PostReply, PoolTypeOK
<1>2. ASSUME NEW r \in replies, HandleMessage(r) PROVE PoolTypeOK'
  BY <1>2, HandleMessageTypes
<1>3. ASSUME NEW w \in Workers, HandleWorkerError(w) PROVE PoolTypeOK'
  <2>1. RejectPending(w)
    BY <1>3 DEF HandleWorkerError
  <2> QED BY <1>3, <2>1, RejectPendingTypes DEF HandleWorkerError, PoolTypeOK
<1>4. ASSUME NEW w \in Workers, HandleWorkerExit(w) PROVE PoolTypeOK'
  <2>1. CASE RejectPending(w)
    BY <1>4, <2>1, RejectPendingTypes DEF HandleWorkerExit, PoolTypeOK
  <2>2. CASE UNCHANGED <<job, pendingByWorker>>
    BY <1>4, <2>2 DEF HandleWorkerExit, PoolTypeOK
  <2> QED BY <1>4, <2>1, <2>2 DEF HandleWorkerExit
<1>5. ASSUME NEW w \in Workers, NEW exit \in {"threw", "ended", "left"}, WorkerDies(w, exit)
      PROVE  PoolTypeOK'
  <2>1. deaths' \in SUBSET Death
    <3>1. [worker |-> w, busy |-> working[w] # None, exit |-> exit] \in Death
      BY DEF Death
    <3> QED BY <1>5, <3>1 DEF WorkerDies, PoolTypeOK
  <2>2. thread' \in [Workers -> {"up", "threw", "ended", "left", "gone"}]
    BY <1>5 DEF WorkerDies, PoolTypeOK
  <2>3. working' \in [Workers -> Jobs \cup {None}]
    BY <1>5 DEF WorkerDies, PoolTypeOK
  <2> QED BY <1>5, <2>1, <2>2, <2>3 DEF WorkerDies, PoolTypeOK
<1> QED BY <1>1, <1>2, <1>3, <1>4, <1>5 DEF PoolStep, WorkerStep

LEMMA CloseTypes == ASSUME PoolTypeOK, Close PROVE PoolTypeOK'
BY DEF Close, PoolTypeOK

\* The limiter's types are those it has on its own.
LEMMA TypesOfLimiter == Spec => []LimiterTypeOK
BY RunsLimiter, LimiterTypes, PTL

-----------------------------------------------------------------------------
(* Requests and their jobs *)

Over == {"resolved", "rejected"}

\* The jobs of requests that went on are over, and the pool was closed when
\* all were done.
ResultsFollowJobs ==
    /\ \A j \in Jobs : result[j] # "none" => job[j] \in Over
    /\ run = "closed" => \A j \in Jobs : result[j] = "done"

IInv == TypeOK /\ ResultsFollowJobs

\* A promise is never opened again.
LEMMA SubmitKeepsOver ==
    ASSUME PoolTypeOK, NEW j \in Jobs, Submit(j), NEW k \in Jobs, job[k] \in Over
    PROVE  job'[k] \in Over
BY DEF Submit, Overflow, StartNow, Enqueue, PoolTypeOK, Over

LEMMA PoolKeepsOver ==
    ASSUME PoolTypeOK, PoolStep, NEW k \in Jobs, job[k] \in Over
    PROVE  job'[k] \in Over
<1>1. ASSUME NEW w \in Workers, NEW ok \in BOOLEAN, PostReply(w, ok) PROVE job'[k] \in Over
  BY <1>1 DEF PostReply
<1>2. ASSUME NEW r \in replies, HandleMessage(r) PROVE job'[k] \in Over
  <2>1. CASE pendingByWorker[r.worker] # None
    <3>1. Settle(pendingByWorker[r.worker], r)
      BY <1>2, <2>1 DEF HandleMessage
    <3> QED BY <3>1 DEF Settle, PoolTypeOK, Over
  <2>2. CASE pendingByWorker[r.worker] = None
    BY <1>2, <2>2 DEF HandleMessage
  <2> QED BY <2>1, <2>2
<1>3. ASSUME NEW w \in Workers, HandleWorkerError(w) PROVE job'[k] \in Over
  BY <1>3 DEF HandleWorkerError, RejectPending, PoolTypeOK, Over
<1>4. ASSUME NEW w \in Workers, HandleWorkerExit(w) PROVE job'[k] \in Over
  BY <1>4 DEF HandleWorkerExit, RejectPending, PoolTypeOK, Over
<1>5. ASSUME NEW w \in Workers, NEW exit, WorkerDies(w, exit) PROVE job'[k] \in Over
  BY <1>5 DEF WorkerDies
<1> QED BY <1>1, <1>2, <1>3, <1>4, <1>5 DEF PoolStep, WorkerStep

LEMMA RunnerInit == Init => IInv
<1> SUFFICES ASSUME Init PROVE IInv
  OBVIOUS
<1>1. PoolTypeOK
  <2>1. Size \in Nat /\ [n \in 1 .. Size |-> n] \in [1 .. Size -> Workers]
    BY PoolAssumption DEF Workers
  <2>2. [n \in 1 .. Size |-> n] \in Seq(Workers)
    BY <2>1, SeqDef
  <2>3. <<>> \in Seq(Jobs) /\ Len(<<>>) = 0
    BY EmptySeq
  <2> QED BY <2>2, <2>3, PoolAssumption DEF Init, PoolInit, PoolTypeOK
<1>2. LimiterTypeOK
  BY LimiterAssumption DEF Init, LimiterInit, LimiterTypeOK
<1>3. result \in [Jobs -> {"none", "editing", "done"}] /\ run \in {"running", "closed"}
  BY DEF Init
<1>4. ResultsFollowJobs
  BY DEF Init, ResultsFollowJobs
<1> QED BY <1>1, <1>2, <1>3, <1>4 DEF IInv, TypeOK

LEMMA RunnerStep ==
    ASSUME IInv, LimiterTypeOK', [Next]_vars PROVE IInv'
<1>0. TypeOK /\ PoolTypeOK
  BY DEF IInv, TypeOK
<1>1. ASSUME NEW j \in Jobs, AcquireAndSubmit(j) PROVE IInv'
  <2>1. Submit(j) /\ UNCHANGED <<result, run>>
    BY <1>1 DEF AcquireAndSubmit
  <2>2. PoolTypeOK'
    BY <1>0, <2>1, SubmitTypes
  <2>3. ResultsFollowJobs'
    BY <1>0, <2>1, SubmitKeepsOver DEF IInv, ResultsFollowJobs
  <2> QED BY <1>0, <2>1, <2>2, <2>3 DEF IInv, TypeOK
<1>2. ASSUME NEW j \in Jobs, Wait(j) PROVE IInv'
  <2>1. UNCHANGED <<poolVars, result, run>>
    BY <1>2 DEF Wait
  <2> QED BY <1>0, <2>1 DEF IInv, TypeOK, PoolTypeOK, poolVars, ResultsFollowJobs
<1>3. ASSUME NEW j \in Jobs, NEW parsed \in BOOLEAN, Continue(j, parsed) PROVE IInv'
  <2>1. UNCHANGED <<poolVars, run>> /\ job[j] \in Over /\ result[j] = "none"
        /\ \/ result' = [result EXCEPT ![j] = "editing"]
           \/ result' = [result EXCEPT ![j] = "done"]
    BY <1>3 DEF Continue, Over
  <2>2. result' \in [Jobs -> {"none", "editing", "done"}]
    BY <1>0, <2>1 DEF TypeOK
  <2>3. PoolTypeOK'
    BY <1>0, <2>1 DEF PoolTypeOK, poolVars
  <2>4. ResultsFollowJobs'
    BY <1>0, <2>1 DEF IInv, TypeOK, ResultsFollowJobs, poolVars
  <2> QED BY <1>0, <2>1, <2>2, <2>3, <2>4 DEF IInv, TypeOK
<1>4. ASSUME NEW j \in Jobs, Edited(j) PROVE IInv'
  <2>1. UNCHANGED <<poolVars, run>> /\ result[j] = "editing"
        /\ result' = [result EXCEPT ![j] = "done"]
    BY <1>4 DEF Edited
  <2>2. result' \in [Jobs -> {"none", "editing", "done"}]
    BY <1>0, <2>1 DEF TypeOK
  <2>3. PoolTypeOK'
    BY <1>0, <2>1 DEF PoolTypeOK, poolVars
  <2>4. ResultsFollowJobs'
    BY <1>0, <2>1 DEF IInv, TypeOK, ResultsFollowJobs, poolVars
  <2> QED BY <1>0, <2>1, <2>2, <2>3, <2>4 DEF IInv, TypeOK
<1>5. CASE Clock
  <2>1. UNCHANGED <<poolVars, result, run>>
    BY <1>5 DEF Clock
  <2> QED BY <1>0, <2>1 DEF IInv, TypeOK, PoolTypeOK, poolVars, ResultsFollowJobs
<1>6. CASE Pool
  <2>1. PoolStep /\ UNCHANGED <<result, run>>
    BY <1>6 DEF Pool
  <2>2. PoolTypeOK'
    BY <1>0, <2>1, PoolStepTypes
  <2>3. ResultsFollowJobs'
    BY <1>0, <2>1, PoolKeepsOver DEF IInv, ResultsFollowJobs
  <2> QED BY <1>0, <2>1, <2>2, <2>3 DEF IInv, TypeOK
<1>7. CASE Finish
  <2>1. AllDone /\ Close /\ run' = "closed" /\ result' = result
    BY <1>7 DEF Finish
  <2>2. PoolTypeOK'
    BY <1>0, <2>1, CloseTypes
  <2>3. ResultsFollowJobs'
    BY <2>1 DEF IInv, ResultsFollowJobs, AllDone, Close
  <2> QED BY <1>0, <2>1, <2>2, <2>3 DEF IInv, TypeOK
<1>8. CASE UNCHANGED vars
  BY <1>0, <1>8 DEF IInv, TypeOK, PoolTypeOK, vars, poolVars, ResultsFollowJobs
<1> QED BY <1>1, <1>2, <1>3, <1>4, <1>5, <1>6, <1>7, <1>8 DEF Next, Request

LEMMA RunnerInvariant == Spec => []IInv
<1>1. IInv /\ LimiterTypeOK' /\ [Next]_vars => IInv'
  BY RunnerStep
<1> QED BY RunnerInit, <1>1, TypesOfLimiter, PTL DEF Spec

\* Every variable of pool, limiter and runner keeps its type; in particular the
\* queue never holds more than maxQueue jobs (worker-pool.mjs:26).
THEOREM RunnerTypes == Spec => []TypeOK
<1>1. IInv => TypeOK
  BY DEF IInv
<1> QED BY RunnerInvariant, <1>1, PTL

\* The pool's threads are terminated only when no promise is open
\* (runner.mjs:38).
THEOREM RunnerClosesLast == Spec => []ClosedAfterAll
<1>1. IInv => ClosedAfterAll
  BY DEF IInv, ResultsFollowJobs, ClosedAfterAll, Over
<1> QED BY RunnerInvariant, <1>1, PTL

-----------------------------------------------------------------------------
(* Jobs and their workers *)

\* A thread computes on the job it was given, and has nothing else to say.
Busy ==
    \A w \in Workers :
        /\ thread[w] # "up" => working[w] = None
        /\ working[w] # None => /\ pendingByWorker[w] = working[w]
                                /\ \A r \in replies : r.worker # w

\* A worker has posted at most one reply, to the job it holds, unless that was
\* taken from it when it died.
Replied ==
    \A r \in replies :
        /\ pendingByWorker[r.worker] \in {r.job, None}
        /\ \A s \in replies : s.worker = r.worker => s = r

\* An idle worker is idle once, without a job and with nothing to say.
Idle ==
    \A n \in DOMAIN idleWorkers :
        /\ pendingByWorker[idleWorkers[n]] = None
        /\ \A r \in replies : r.worker # idleWorkers[n]
        /\ \A m \in DOMAIN idleWorkers : idleWorkers[m] = idleWorkers[n] => m = n

\* Open promises are those of the jobs that a worker holds or that queue, and
\* no job is in two places.
Held ==
    \A w \in Workers :
        pendingByWorker[w] # None =>
            /\ job[pendingByWorker[w]] = "open"
            /\ \A v \in Workers : pendingByWorker[v] = pendingByWorker[w] => v = w
            /\ \A n \in DOMAIN queue : queue[n] # pendingByWorker[w]
Queued ==
    \A n \in DOMAIN queue :
        /\ job[queue[n]] = "open"
        /\ \A m \in DOMAIN queue : queue[m] = queue[n] => m = n
Somewhere ==
    \A j \in Jobs :
        job[j] = "open" => \/ \E w \in Workers : pendingByWorker[w] = j
                           \/ \E n \in DOMAIN queue : queue[n] = j

PoolInv == Busy /\ Replied /\ Idle /\ Held /\ Queued /\ Somewhere /\ RightAnswer

\* A job that was not open goes to worker w, which was not at work.
LEMMA DispatchKeeps ==
    ASSUME PoolTypeOK, Busy, Replied, NEW w \in Workers, NEW j \in Jobs,
           working[w] = None, \A r \in replies' : r.worker # w, replies' \subseteq replies,
           thread' = thread, Dispatch(w, j)
    PROVE  Busy' /\ Replied'
<1>1. pendingByWorker' = [pendingByWorker EXCEPT ![w] = j]
      /\ working' = IF thread[w] = "up" THEN [working EXCEPT ![w] = j] ELSE working
  BY DEF Dispatch
<1>2. pendingByWorker'[w] = j /\ \A v \in Workers : v # w => pendingByWorker'[v] = pendingByWorker[v]
  BY <1>1 DEF PoolTypeOK
<1>3. /\ working'[w] \in {j, None} /\ (thread[w] # "up" => working'[w] = None)
      /\ \A v \in Workers : v # w => working'[v] = working[v]
  BY <1>1 DEF PoolTypeOK
<1>4. Busy'
  BY <1>2, <1>3 DEF Busy
<1>5. \A r \in replies : r.worker \in Workers
  BY DEF PoolTypeOK, Reply
<1>6. Replied'
  BY <1>2, <1>5 DEF Replied
<1> QED BY <1>4, <1>6

LEMMA SubmitKeeps ==
    ASSUME PoolTypeOK, PoolInv, NEW j \in Jobs, Submit(j) PROVE PoolInv'
<1>0. /\ job[j] = "new" /\ UNCHANGED <<replies, thread, answer, deaths>>
  BY DEF Submit
<1>1. RightAnswer'
  BY <1>0 DEF PoolInv, RightAnswer
<1>2. (\A w \in Workers : pendingByWorker[w] # j) /\ (\A n \in DOMAIN queue : queue[n] # j)
  <2>1. j # None
    BY PoolAssumption
  <2> QED BY <1>0, <2>1 DEF PoolInv, Held, Queued
<1>3. CASE Overflow(j)
  <2>1. /\ UNCHANGED <<idleWorkers, queue, pendingByWorker, working>>
        /\ job' = [job EXCEPT ![j] = "rejected"]
    BY <1>3 DEF Overflow
  <2>2. job'[j] = "rejected" /\ \A k \in Jobs : k # j => job'[k] = job[k]
    BY <2>1 DEF PoolTypeOK
  <2>3. Busy' /\ Replied' /\ Idle'
    BY <1>0, <2>1 DEF PoolInv, Busy, Replied, Idle
  <2>4. (\A w \in Workers : pendingByWorker[w] # None => pendingByWorker[w] \in Jobs)
        /\ (\A n \in DOMAIN queue : queue[n] \in Jobs)
    BY DEF PoolTypeOK
  <2>5. Held' /\ Queued' /\ Somewhere'
    BY <1>2, <2>1, <2>2, <2>4 DEF PoolInv, Held, Queued, Somewhere
  <2> QED BY <1>1, <2>3, <2>5 DEF PoolInv
<1>4. CASE StartNow(j)
  <2> DEFINE last == Len(idleWorkers)
             w == idleWorkers[last]
  <2>1. /\ idleWorkers \in Seq(Workers) /\ idleWorkers # <<>>
        /\ idleWorkers' = SubSeq(idleWorkers, 1, last - 1)
        /\ queue' = queue /\ job' = [job EXCEPT ![j] = "open"] /\ Dispatch(w, j)
    BY <1>4 DEF StartNow, PoolTypeOK
  <2>2. last \in Nat \ {0} /\ DOMAIN idleWorkers = 1 .. last
    BY <2>1, EmptySeq, LenProperties
  <2>3. w \in Workers
    BY <2>1, <2>2, ElementOfSeq
  <2>4. DOMAIN idleWorkers' = 1 .. last - 1
        /\ \A n \in 1 .. last - 1 : idleWorkers'[n] = idleWorkers[n] /\ n \in DOMAIN idleWorkers /\ n # last
    <3>1. last - 1 \in Int /\ 1 \in Int /\ \A n \in 1 .. last - 1 : idleWorkers[n] \in Workers
      BY <2>1, <2>2, ElementOfSeq
    <3>2. Len(SubSeq(idleWorkers, 1, last - 1)) = last - 1
          /\ \A n \in 1 .. last - 1 : SubSeq(idleWorkers, 1, last - 1)[n] = idleWorkers[n]
      BY <2>1, <2>2, <3>1
    <3>3. SubSeq(idleWorkers, 1, last - 1) \in Seq(Workers)
      BY <2>1, <2>2, <3>1, SubSeqProperties
    <3>4. DOMAIN SubSeq(idleWorkers, 1, last - 1) = 1 .. last - 1
      BY <3>2, <3>3, LenProperties
    <3> HIDE DEF last
    <3>5. \A n \in 1 .. last - 1 : n \in DOMAIN idleWorkers /\ n # last
      BY <2>2
    <3> QED BY <2>1, <3>2, <3>4, <3>5
  <2>5. /\ pendingByWorker[w] = None /\ \A r \in replies : r.worker # w
        /\ \A n \in 1 .. last - 1 : idleWorkers[n] # w
    <3>1. last \in DOMAIN idleWorkers
      BY <2>2
    <3>2. /\ pendingByWorker[w] = None /\ \A r \in replies : r.worker # w
          /\ \A n \in DOMAIN idleWorkers : idleWorkers[n] = w => n = last
      BY <3>1 DEF PoolInv, Idle
    <3> HIDE DEF last, w
    <3> QED BY <2>4, <3>2
  <2> HIDE DEF w, last
  <2>6. working[w] = None
    BY <2>3, <2>5 DEF PoolInv, Busy
  <2>7. Busy' /\ Replied'
    BY <1>0, <2>1, <2>3, <2>5, <2>6, DispatchKeeps DEF PoolInv
  <2>8. pendingByWorker'[w] = j /\ \A v \in Workers : v # w => pendingByWorker'[v] = pendingByWorker[v]
    BY <2>1, <2>3 DEF Dispatch, PoolTypeOK
  <2>9. Idle'
    <3>1. \A n \in 1 .. last - 1 : idleWorkers[n] \in Workers
      BY <2>1, <2>4, ElementOfSeq
    <3> QED BY <1>0, <2>4, <2>5, <2>8, <3>1 DEF PoolInv, Idle
  <2>10. job'[j] = "open" /\ \A k \in Jobs : k # j => job'[k] = job[k]
    BY <2>1 DEF PoolTypeOK
  <2>11. (\A v \in Workers : pendingByWorker[v] # None => pendingByWorker[v] \in Jobs)
         /\ (\A n \in DOMAIN queue : queue[n] \in Jobs)
    BY DEF PoolTypeOK
  <2>12. Held'
    BY <1>2, <2>1, <2>3, <2>8, <2>10, <2>11 DEF PoolInv, Held
  <2>13. Queued'
    BY <1>2, <2>1, <2>10, <2>11 DEF PoolInv, Queued
  <2>14. Somewhere'
    BY <2>1, <2>3, <2>5, <2>8, <2>10, PoolAssumption DEF PoolInv, Somewhere
  <2> QED BY <1>1, <2>7, <2>9, <2>12, <2>13, <2>14 DEF PoolInv
<1>5. CASE Enqueue(j)
  <2>1. /\ queue \in Seq(Jobs) /\ queue' = Append(queue, j)
        /\ job' = [job EXCEPT ![j] = "open"]
        /\ UNCHANGED <<idleWorkers, pendingByWorker, working>>
    BY <1>5 DEF Enqueue, PoolTypeOK
  <2>2. /\ Len(queue) \in Nat /\ DOMAIN queue = 1 .. Len(queue)
        /\ DOMAIN queue' = 1 .. Len(queue) + 1
        /\ queue'[Len(queue) + 1] = j
        /\ \A n \in DOMAIN queue : queue'[n] = queue[n] /\ n \in DOMAIN queue'
    BY <2>1, LenProperties, AppendProperties
  <2>3. \A n \in DOMAIN queue' : n = Len(queue) + 1 \/ n \in DOMAIN queue
    BY <2>2
  <2>4. job'[j] = "open" /\ \A k \in Jobs : k # j => job'[k] = job[k]
    BY <2>1 DEF PoolTypeOK
  <2>5. Busy' /\ Replied' /\ Idle'
    BY <1>0, <2>1 DEF PoolInv, Busy, Replied, Idle
  <2>6. (\A v \in Workers : pendingByWorker[v] # None => pendingByWorker[v] \in Jobs)
         /\ (\A n \in DOMAIN queue : queue[n] \in Jobs)
    BY DEF PoolTypeOK
  <2>7. Held'
    BY <1>2, <2>1, <2>2, <2>3, <2>4, <2>6 DEF PoolInv, Held
  <2>8. Queued'
    BY <1>2, <2>2, <2>3, <2>4, <2>6 DEF PoolInv, Queued
  <2>9. Somewhere'
    <3> SUFFICES ASSUME NEW k \in Jobs, job'[k] = "open"
                 PROVE  \/ \E w \in Workers : pendingByWorker'[w] = k
                        \/ \E n \in DOMAIN queue' : queue'[n] = k
      BY DEF Somewhere
    <3>1. CASE k = j
      BY <2>2, <3>1
    <3>2. CASE k # j
      <4>1. \/ \E w \in Workers : pendingByWorker[w] = k
            \/ \E n \in DOMAIN queue : queue[n] = k
        BY <2>4, <3>2 DEF PoolInv, Somewhere
      <4> QED BY <2>1, <2>2, <4>1
    <3> QED BY <3>1, <3>2
  <2> QED BY <1>1, <2>5, <2>7, <2>8, <2>9 DEF PoolInv
<1> QED BY <1>3, <1>4, <1>5 DEF Submit

LEMMA HandleMessageKeeps ==
    ASSUME PoolTypeOK, PoolInv, NEW r \in replies, HandleMessage(r) PROVE PoolInv'
<1> DEFINE w == r.worker
           j == pendingByWorker[r.worker]
<1>1. r \in Reply /\ w \in Workers /\ r.job \in Jobs
  BY DEF PoolTypeOK, Reply
<1>2. replies' = replies \ {r} /\ UNCHANGED <<thread, deaths>>
  BY DEF HandleMessage
<1>3. replies' \subseteq replies /\ \A s \in replies' : s.worker # w
  BY <1>2 DEF PoolInv, Replied
<1>4. CASE j = None
  <2>1. UNCHANGED <<idleWorkers, queue, pendingByWorker, working, job, answer>>
    BY <1>4 DEF HandleMessage
  <2> QED
    BY <1>2, <1>3, <2>1
    DEF PoolInv, Busy, Replied, Idle, Held, Queued, Somewhere, RightAnswer
<1>5. CASE j # None
  <2>1. j \in Jobs /\ j = r.job
    BY <1>1, <1>5 DEF PoolInv, Replied
  <2>2. Settle(j, r) /\ TakeNext(w)
    BY <1>5 DEF HandleMessage
  <2>3. /\ job[j] = "open"
        /\ \A v \in Workers : pendingByWorker[v] = j => v = w
        /\ \A n \in DOMAIN queue : queue[n] # j
    BY <1>1, <1>5 DEF PoolInv, Held
  <2>4. working[w] = None
    BY <1>1 DEF PoolInv, Busy
  <2>5. \A n \in DOMAIN idleWorkers : idleWorkers[n] # w
    BY <1>5 DEF PoolInv, Idle
  <2>6. pendingByWorker[w] = j
    OBVIOUS
  <2>7. \A s \in replies : s.worker \in Workers
    BY DEF PoolTypeOK, Reply
  <2> HIDE DEF j, w
  <2>8. RightAnswer'
    BY <1>1, <2>1, <2>2 DEF Settle, PoolTypeOK, PoolInv, RightAnswer
  <2>9. job'[j] \in {"resolved", "rejected"} /\ \A k \in Jobs : k # j => job'[k] = job[k]
    BY <2>1, <2>2 DEF Settle, PoolTypeOK
  <2>10. (\A v \in Workers : pendingByWorker[v] # None => pendingByWorker[v] \in Jobs)
         /\ (\A n \in DOMAIN queue : queue[n] \in Jobs)
    BY DEF PoolTypeOK
  <2>11. CASE queue # <<>>
    <3> DEFINE h == Head(queue)
    <3>1. Dispatch(w, h) /\ queue' = Tail(queue) /\ idleWorkers' = idleWorkers
      BY <2>2, <2>11 DEF TakeNext
    <3>2. queue \in Seq(Jobs) /\ Len(queue) \in Nat \ {0} /\ DOMAIN queue = 1 .. Len(queue)
      BY <2>11, EmptySeq, LenProperties DEF PoolTypeOK
    <3>3. h = queue[1] /\ 1 \in DOMAIN queue
      BY <3>2
    <3>4. /\ DOMAIN queue' = 1 .. Len(queue) - 1
          /\ \A n \in DOMAIN queue' : n + 1 \in DOMAIN queue /\ queue'[n] = queue[n + 1]
      <4>1. Tail(queue) \in Seq(Jobs) /\ Len(Tail(queue)) = Len(queue) - 1
        BY <2>11, <3>2, HeadTailProperties
      <4>2. DOMAIN queue' = 1 .. Len(queue) - 1
        BY <3>1, <4>1, LenProperties
      <4>3. \A n \in 1 .. Len(queue) - 1 : n + 1 \in DOMAIN queue /\ Tail(queue)[n] = queue[n + 1]
        BY <3>2, <2>11
      <4> QED BY <3>1, <4>2, <4>3
    <3>5. \A n \in DOMAIN queue : n = 1 \/ (n - 1 \in DOMAIN queue' /\ queue[n] = queue'[n - 1])
      <4> SUFFICES ASSUME NEW n \in DOMAIN queue, n # 1
                   PROVE  n - 1 \in DOMAIN queue' /\ queue[n] = queue'[n - 1]
        OBVIOUS
      <4>1. n \in Int /\ n - 1 \in 1 .. Len(queue) - 1 /\ (n - 1) + 1 = n
        BY <3>2
      <4> QED BY <3>4, <4>1
    <3>6. \A n \in DOMAIN queue' : n + 1 # 1 /\ n \in Int
      BY <3>2, <3>4
    <3>7. h \in Jobs /\ h # j /\ job[h] = "open"
          /\ (\A v \in Workers : pendingByWorker[v] # h)
          /\ \A n \in DOMAIN queue' : queue'[n] # h
      <4>1. h \in Jobs /\ h # j /\ job[h] = "open" /\ h # None
        BY <2>3, <2>10, <3>3, PoolAssumption DEF PoolInv, Queued
      <4>2. \A v \in Workers : pendingByWorker[v] # h
        BY <3>3, <4>1 DEF PoolInv, Held
      <4>3. \A n \in DOMAIN queue' : queue'[n] # h
        BY <3>3, <3>4, <3>6 DEF PoolInv, Queued
      <4> QED BY <4>1, <4>2, <4>3
    <3> HIDE DEF h
    <3>8. Busy' /\ Replied'
      BY <1>1, <1>2, <1>3, <2>4, <3>1, <3>7, DispatchKeeps DEF PoolInv, w
    <3>9. pendingByWorker'[w] = h /\ \A v \in Workers : v # w => pendingByWorker'[v] = pendingByWorker[v]
      BY <1>1, <3>1 DEF Dispatch, PoolTypeOK, w
    <3>10. Idle'
      <4>1. \A n \in DOMAIN idleWorkers : idleWorkers[n] \in Workers
        BY DEF PoolTypeOK
      <4> QED BY <1>3, <2>5, <3>1, <3>9, <4>1 DEF PoolInv, Idle
    <3>11. Held'
      <4> SUFFICES ASSUME NEW v \in Workers, pendingByWorker'[v] # None
                   PROVE  /\ job'[pendingByWorker'[v]] = "open"
                          /\ \A u \in Workers : pendingByWorker'[u] = pendingByWorker'[v] => u = v
                          /\ \A n \in DOMAIN queue' : queue'[n] # pendingByWorker'[v]
        BY DEF Held
      <4>1. CASE v = w
        BY <1>1, <2>9, <3>7, <3>9, <4>1
      <4>2. CASE v # w
        <5>1. pendingByWorker'[v] = pendingByWorker[v] /\ pendingByWorker[v] \in Jobs
              /\ pendingByWorker[v] # j /\ pendingByWorker[v] # h
          BY <2>3, <2>10, <3>7, <3>9, <4>2
        <5>2. job'[pendingByWorker[v]] = "open"
          BY <2>9, <5>1, PoolAssumption DEF PoolInv, Held
        <5>3. \A u \in Workers : pendingByWorker'[u] = pendingByWorker[v] => u = v
          BY <3>9, <5>1, PoolAssumption DEF PoolInv, Held
        <5>4. \A n \in DOMAIN queue' : queue'[n] # pendingByWorker[v]
          BY <3>4, <5>1, PoolAssumption DEF PoolInv, Held
        <5> QED BY <5>1, <5>2, <5>3, <5>4
      <4> QED BY <4>1, <4>2
    <3>12. Queued'
      <4>1. \A n \in DOMAIN queue' : job'[queue'[n]] = "open"
        BY <2>3, <2>9, <2>10, <3>4 DEF PoolInv, Queued
      <4>2. \A n, m \in DOMAIN queue' : queue'[m] = queue'[n] => m = n
        <5> SUFFICES ASSUME NEW n \in DOMAIN queue', NEW m \in DOMAIN queue', queue'[m] = queue'[n]
                     PROVE  m = n
          OBVIOUS
        <5>1. m + 1 = n + 1
          BY <3>4 DEF PoolInv, Queued
        <5> QED BY <3>6, <5>1
      <4> QED BY <4>1, <4>2 DEF Queued
    <3>13. Somewhere'
      <4> SUFFICES ASSUME NEW k \in Jobs, job'[k] = "open"
                   PROVE  \/ \E v \in Workers : pendingByWorker'[v] = k
                          \/ \E n \in DOMAIN queue' : queue'[n] = k
        BY DEF Somewhere
      <4>1. k # j /\ job[k] = "open"
        BY <2>9
      <4>2. CASE \E v \in Workers : pendingByWorker[v] = k
        BY <2>6, <3>9, <4>1, <4>2
      <4>3. CASE \E n \in DOMAIN queue : queue[n] = k
        BY <1>1, <3>3, <3>5, <3>9, <4>3 DEF w
      <4> QED BY <4>1, <4>2, <4>3 DEF PoolInv, Somewhere
    <3> QED BY <2>8, <3>8, <3>10, <3>11, <3>12, <3>13 DEF PoolInv
  <2>12. CASE queue = <<>>
    <3>1. /\ idleWorkers' = Append(idleWorkers, w)
          /\ pendingByWorker' = [pendingByWorker EXCEPT ![w] = None]
          /\ UNCHANGED <<queue, working>>
      BY <2>2, <2>12 DEF TakeNext
    <3>2. pendingByWorker'[w] = None /\ \A v \in Workers : v # w => pendingByWorker'[v] = pendingByWorker[v]
      BY <1>1, <3>1 DEF PoolTypeOK, w
    <3>3. /\ DOMAIN idleWorkers = 1 .. Len(idleWorkers) /\ Len(idleWorkers) \in Nat
          /\ DOMAIN idleWorkers' = 1 .. Len(idleWorkers) + 1
          /\ idleWorkers'[Len(idleWorkers) + 1] = w
          /\ \A n \in DOMAIN idleWorkers : idleWorkers'[n] = idleWorkers[n]
                                           /\ idleWorkers[n] \in Workers
      <4>1. idleWorkers \in Seq(Workers) /\ w \in Workers
        BY <1>1 DEF PoolTypeOK, w
      <4> QED BY <3>1, <4>1, LenProperties, AppendProperties, ElementOfSeq
    <3>4. \A n \in DOMAIN idleWorkers' : n = Len(idleWorkers) + 1 \/ n \in DOMAIN idleWorkers
      BY <3>3
    <3>5. Busy'
      BY <1>2, <1>3, <2>4, <3>1, <3>2 DEF PoolInv, Busy
    <3>6. Replied'
      BY <1>3, <2>7, <3>2 DEF PoolInv, Replied
    <3>7. Idle'
      <4>1. \A n \in DOMAIN idleWorkers' :
                pendingByWorker'[idleWorkers'[n]] = None /\ \A s \in replies' : s.worker # idleWorkers'[n]
        BY <1>3, <2>5, <3>2, <3>3, <3>4 DEF PoolInv, Idle
      <4>2. \A n, m \in DOMAIN idleWorkers' : idleWorkers'[m] = idleWorkers'[n] => m = n
        BY <2>5, <3>3, <3>4 DEF PoolInv, Idle
      <4> QED BY <4>1, <4>2 DEF Idle
    <3>8. Held'
      BY <2>3, <2>9, <2>10, <3>1, <3>2 DEF PoolInv, Held
    <3>9. Queued' /\ DOMAIN queue = {}
      BY <2>12, <3>1 DEF Queued
    <3>10. Somewhere'
      BY <2>6, <2>9, <3>1, <3>2, <3>9 DEF PoolInv, Somewhere
    <3> QED BY <2>8, <3>5, <3>6, <3>7, <3>8, <3>9, <3>10 DEF PoolInv
  <2> QED BY <2>11, <2>12
<1> QED BY <1>4, <1>5

LEMMA RejectKeeps ==
    ASSUME PoolTypeOK, PoolInv, NEW w \in Workers, RejectPending(w), working[w] = None,
           \A v \in Workers : thread'[v] # "up" => working[v] = None,
           UNCHANGED <<idleWorkers, queue, working, replies, answer>>
    PROVE  PoolInv'
<1>1. pendingByWorker'[w] = None /\ \A v \in Workers : v # w => pendingByWorker'[v] = pendingByWorker[v]
  BY DEF RejectPending, PoolTypeOK
<1>2. (\A v \in Workers : pendingByWorker[v] # None => pendingByWorker[v] \in Jobs)
      /\ (\A n \in DOMAIN queue : queue[n] \in Jobs)
      /\ (\A n \in DOMAIN idleWorkers : idleWorkers[n] \in Workers)
      /\ (\A r \in replies : r.worker \in Workers)
  BY DEF PoolTypeOK, Reply
<1>3. \A k \in Jobs : /\ k # pendingByWorker[w] => job'[k] = job[k]
                      /\ k = pendingByWorker[w] => job'[k] = "rejected"
  BY PoolAssumption DEF RejectPending, PoolTypeOK
<1>4. Busy' /\ Replied'
  BY <1>1, <1>2 DEF PoolInv, Busy, Replied
<1>5. Idle'
  BY <1>1, <1>2 DEF PoolInv, Idle
<1>6. Held'
  <2> SUFFICES ASSUME NEW v \in Workers, pendingByWorker'[v] # None
               PROVE  /\ job'[pendingByWorker'[v]] = "open"
                      /\ \A u \in Workers : pendingByWorker'[u] = pendingByWorker'[v] => u = v
                      /\ \A n \in DOMAIN queue' : queue'[n] # pendingByWorker'[v]
    BY DEF Held
  <2>1. v # w /\ pendingByWorker'[v] = pendingByWorker[v] /\ pendingByWorker[v] \in Jobs
    BY <1>1, <1>2
  <2>2. pendingByWorker[v] # pendingByWorker[w]
    BY <1>1, <2>1 DEF PoolInv, Held
  <2> QED BY <1>1, <1>3, <2>1, <2>2, PoolAssumption DEF PoolInv, Held
<1>7. Queued'
  <2>1. \A n \in DOMAIN queue : queue[n] # pendingByWorker[w]
    BY <1>2, PoolAssumption DEF PoolInv, Held
  <2> QED BY <1>2, <1>3, <2>1 DEF PoolInv, Queued
<1>8. Somewhere'
  BY <1>1, <1>3 DEF PoolInv, Somewhere
<1>9. RightAnswer'
  BY DEF PoolInv, RightAnswer
<1> QED BY <1>4, <1>5, <1>6, <1>7, <1>8, <1>9 DEF PoolInv

LEMMA PoolStepKeeps ==
    ASSUME PoolTypeOK, PoolInv, PoolStep PROVE PoolInv'
<1>1. ASSUME NEW w \in Workers, NEW ok \in BOOLEAN, PostReply(w, ok) PROVE PoolInv'
  <2> DEFINE new == [worker |-> w, job |-> working[w], ok |-> ok]
  <2>1. /\ replies' = replies \cup {new} /\ working' = [working EXCEPT ![w] = None]
        /\ UNCHANGED <<idleWorkers, queue, pendingByWorker, thread, job, answer>>
        /\ new.worker = w /\ new.job = working[w]
    BY <1>1 DEF PostReply
  <2>2. /\ pendingByWorker[w] = working[w] /\ working[w] # None
        /\ \A r \in replies : r.worker # w
    BY <1>1 DEF PostReply, PoolInv, Busy
  <2>3. working'[w] = None /\ \A v \in Workers : v # w => working'[v] = working[v]
    BY <2>1 DEF PoolTypeOK
  <2> HIDE DEF new
  <2>4. Busy'
    BY <2>1, <2>3 DEF PoolInv, Busy
  <2>5. Replied'
    BY <2>1, <2>2 DEF PoolInv, Replied
  <2>6. Idle'
    BY <2>1, <2>2 DEF PoolInv, Idle
  <2>7. Held' /\ Queued' /\ Somewhere' /\ RightAnswer'
    BY <2>1 DEF PoolInv, Held, Queued, Somewhere, RightAnswer
  <2> QED BY <2>4, <2>5, <2>6, <2>7 DEF PoolInv
<1>2. ASSUME NEW r \in replies, HandleMessage(r) PROVE PoolInv'
  BY <1>2, HandleMessageKeeps
<1>3. ASSUME NEW w \in Workers, HandleWorkerError(w) PROVE PoolInv'
  <2>1. /\ RejectPending(w) /\ working[w] = None
        /\ UNCHANGED <<idleWorkers, queue, working, replies, answer>>
    BY <1>3 DEF HandleWorkerError, PoolInv, Busy
  <2>2. \A v \in Workers : thread'[v] # "up" => working[v] = None
    BY <1>3 DEF HandleWorkerError, PoolInv, Busy, PoolTypeOK
  <2> QED BY <2>1, <2>2, RejectKeeps
<1>4. ASSUME NEW w \in Workers, HandleWorkerExit(w) PROVE PoolInv'
  <2>1. /\ working[w] = None
        /\ UNCHANGED <<idleWorkers, queue, working, replies, answer>>
    BY <1>4 DEF HandleWorkerExit, PoolInv, Busy
  <2>2. \A v \in Workers : thread'[v] # "up" => working[v] = None
    BY <1>4 DEF HandleWorkerExit, PoolInv, Busy, PoolTypeOK
  <2>3. CASE RejectPending(w)
    BY <2>1, <2>2, <2>3, RejectKeeps
  <2>4. CASE UNCHANGED <<job, pendingByWorker>>
    <3>1. Busy'
      BY <2>1, <2>2, <2>4 DEF PoolInv, Busy
    <3> QED
      BY <2>1, <2>4, <3>1 DEF PoolInv, Replied, Idle, Held, Queued, Somewhere, RightAnswer
  <2> QED BY <1>4, <2>3, <2>4 DEF HandleWorkerExit
<1>5. ASSUME NEW w \in Workers, NEW exit \in {"threw", "ended", "left"}, WorkerDies(w, exit)
      PROVE  PoolInv'
  <2>1. /\ working' = [working EXCEPT ![w] = None]
        /\ \A v \in Workers : v # w => thread'[v] = thread[v]
        /\ UNCHANGED <<idleWorkers, queue, pendingByWorker, replies, job, answer>>
    BY <1>5 DEF WorkerDies, PoolTypeOK
  <2>2. working'[w] = None /\ \A v \in Workers : v # w => working'[v] = working[v]
    BY <2>1 DEF PoolTypeOK
  <2>3. Busy'
    BY <2>1, <2>2 DEF PoolInv, Busy
  <2> QED
    BY <2>1, <2>3 DEF PoolInv, Replied, Idle, Held, Queued, Somewhere, RightAnswer
<1> QED BY <1>1, <1>2, <1>3, <1>4, <1>5 DEF PoolStep, WorkerStep

LEMMA CloseKeeps == ASSUME PoolTypeOK, PoolInv, Close PROVE PoolInv'
<1>1. /\ \A w \in Workers : working'[w] = None
      /\ UNCHANGED <<idleWorkers, queue, pendingByWorker, replies, job, answer>>
  BY DEF Close
<1>2. Busy'
  BY <1>1 DEF Busy
<1> QED BY <1>1, <1>2 DEF PoolInv, Replied, Idle, Held, Queued, Somewhere, RightAnswer

LEMMA PoolInvInitially == PoolInit => PoolInv
<1> SUFFICES ASSUME PoolInit PROVE PoolInv
  OBVIOUS
<1>1. Busy /\ Replied /\ Held /\ Somewhere /\ RightAnswer
  BY DEF PoolInit, Busy, Replied, Held, Somewhere, RightAnswer
<1>2. Idle
  BY DEF PoolInit, Idle, Workers
<1>3. Queued
  BY DEF PoolInit, Queued
<1> QED BY <1>1, <1>2, <1>3 DEF PoolInv

LEMMA PoolInvariant == Spec => []PoolInv
<1>1. Init => PoolInv
  BY PoolInvInitially DEF Init
<1>2. IInv /\ PoolInv /\ [Next]_vars => PoolInv'
  <2> SUFFICES ASSUME IInv, PoolInv, [Next]_vars PROVE PoolInv'
    OBVIOUS
  <2>0. PoolTypeOK
    BY DEF IInv, TypeOK
  <2>1. CASE UNCHANGED poolVars
    BY <2>1 DEF poolVars, PoolInv, Busy, Replied, Idle, Held, Queued, Somewhere, RightAnswer
  <2>2. ASSUME NEW j \in Jobs, Request(j) PROVE PoolInv'
    <3>1. CASE AcquireAndSubmit(j)
      BY <2>0, <3>1, SubmitKeeps DEF AcquireAndSubmit
    <3>2. CASE Wait(j)
      BY <2>1, <3>2 DEF Wait
    <3>3. ASSUME NEW parsed \in BOOLEAN, Continue(j, parsed) PROVE PoolInv'
      BY <2>1, <3>3 DEF Continue
    <3>4. CASE Edited(j)
      BY <2>1, <3>4 DEF Edited
    <3> QED BY <2>2, <3>1, <3>2, <3>3, <3>4 DEF Request
  <2>3. CASE Clock
    BY <2>1, <2>3 DEF Clock
  <2>4. CASE Pool
    BY <2>0, <2>4, PoolStepKeeps DEF Pool
  <2>5. CASE Finish
    BY <2>0, <2>5, CloseKeeps DEF Finish
  <2>6. CASE UNCHANGED vars
    BY <2>1, <2>6 DEF vars
  <2> QED BY <2>2, <2>3, <2>4, <2>5, <2>6 DEF Next
<1> QED BY <1>1, <1>2, RunnerInvariant, PTL DEF Spec

\* No promise is resolved by the answer to another request, although replies
\* are matched by the worker alone (worker-pool.mjs:53).
THEOREM RunnerAnswersRight == Spec => []RightAnswer
<1>1. PoolInv => RightAnswer
  BY DEF PoolInv
<1> QED BY PoolInvariant, <1>1, PTL

\* An open promise is in the queue or with one worker, a settled one nowhere
\* (worker-pool.mjs:26-98).
THEOREM RunnerConservesJobs == Spec => []JobsConserved
<1>1. PoolTypeOK /\ PoolInv => JobsConserved
  <2> SUFFICES ASSUME PoolTypeOK, PoolInv, NEW j \in Jobs
               PROVE  Cardinality(Holders(j)) + Cardinality(Positions(j)) =
                          IF job[j] = "open" THEN 1 ELSE 0
    BY DEF JobsConserved
  <2>0. j # None /\ Cardinality({}) = 0
    BY PoolAssumption, FS_EmptySet
  <2>1. CASE \E w \in Workers : pendingByWorker[w] = j
    <3>1. PICK w \in Workers : pendingByWorker[w] = j
      BY <2>1
    <3>2. /\ job[j] = "open" /\ \A v \in Workers : pendingByWorker[v] = j => v = w
          /\ \A n \in DOMAIN queue : queue[n] # j
      BY <2>0, <3>1 DEF PoolInv, Held
    <3>3. Holders(j) = {w} /\ Positions(j) = {}
      BY <3>1, <3>2 DEF Holders, Positions
    <3> QED BY <2>0, <3>2, <3>3, FS_Singleton
  <2>2. CASE \E n \in DOMAIN queue : queue[n] = j
    <3>1. PICK n \in DOMAIN queue : queue[n] = j
      BY <2>2
    <3>2. /\ job[j] = "open" /\ \A m \in DOMAIN queue : queue[m] = j => m = n
          /\ \A w \in Workers : pendingByWorker[w] # j
      BY <2>0, <3>1 DEF PoolInv, Held, Queued
    <3>3. Holders(j) = {} /\ Positions(j) = {n}
      BY <3>1, <3>2 DEF Holders, Positions
    <3>4. Cardinality({n}) = 1
      BY FS_Singleton
    <3> QED BY <2>0, <3>2, <3>3, <3>4
  <2>3. CASE ~(\E w \in Workers : pendingByWorker[w] = j) /\ ~(\E n \in DOMAIN queue : queue[n] = j)
    <3>1. job[j] # "open"
      BY <2>3 DEF PoolInv, Somewhere
    <3>2. Holders(j) = {} /\ Positions(j) = {}
      BY <2>3 DEF Holders, Positions
    <3> QED BY <2>0, <3>1, <3>2
  <2> QED BY <2>1, <2>2, <2>3
<1>2. TypeOK => PoolTypeOK
  BY DEF TypeOK
<1> QED BY PoolInvariant, RunnerTypes, <1>1, <1>2, PTL

-----------------------------------------------------------------------------
(* Jobs stranded with workers that are gone *)

\* Until the pool is closed, a thread that is not up has died.
Mourned ==
    run = "running" => \A w \in Workers : thread[w] # "up" => \E d \in deaths : d.worker = w

\* A worker that died over a job, with another exit code than 0, says nothing
\* more and is never given another job; its own is taken from it by the exit.
Failed(w) == \E d \in deaths : d.worker = w /\ d.busy /\ d.exit # "left"
Out(w) ==
    /\ thread[w] \notin {"up", "left"}
    /\ thread[w] = "gone" => pendingByWorker[w] = None
    /\ \A n \in DOMAIN idleWorkers : idleWorkers[n] # w
    /\ \A r \in replies : r.worker # w
FailedAreOut == \A w \in Workers : Failed(w) => Out(w)

LEMMA SubmitStrandsNone ==
    ASSUME PoolTypeOK, FailedAreOut, NEW j \in Jobs, Submit(j) PROVE FailedAreOut'
<1>1. UNCHANGED <<replies, thread, deaths>>
  BY DEF Submit
<1>2. CASE UNCHANGED <<idleWorkers, pendingByWorker>>
  BY <1>1, <1>2 DEF FailedAreOut, Failed, Out
<1>3. CASE StartNow(j)
  <2>1. PICK last : last = Len(idleWorkers)
    OBVIOUS
  <2>2. PICK v : v = idleWorkers[last]
    OBVIOUS
  <2>3. /\ idleWorkers \in Seq(Workers) /\ idleWorkers # <<>>
        /\ idleWorkers' = SubSeq(idleWorkers, 1, last - 1)
        /\ pendingByWorker' = [pendingByWorker EXCEPT ![v] = j]
    BY <1>3, <2>1, <2>2 DEF StartNow, Dispatch, PoolTypeOK
  <2>4. last \in Nat \ {0} /\ DOMAIN idleWorkers = 1 .. last
    BY <2>1, <2>3, EmptySeq, LenProperties
  <2>5. \A n \in DOMAIN idleWorkers' : n \in DOMAIN idleWorkers /\ idleWorkers'[n] = idleWorkers[n]
    <3>1. last - 1 \in Int /\ 1 \in Int /\ \A n \in 1 .. last - 1 : idleWorkers[n] \in Workers
      BY <2>3, <2>4, ElementOfSeq
    <3>2. /\ SubSeq(idleWorkers, 1, last - 1) \in Seq(Workers)
          /\ Len(SubSeq(idleWorkers, 1, last - 1)) = last - 1
          /\ \A n \in 1 .. last - 1 : SubSeq(idleWorkers, 1, last - 1)[n] = idleWorkers[n]
      BY <2>3, <2>4, <3>1, SubSeqProperties
    <3>3. DOMAIN SubSeq(idleWorkers, 1, last - 1) = 1 .. last - 1
      BY <3>2, LenProperties
    <3> QED BY <2>3, <2>4, <3>2, <3>3
  <2>6. \A w \in Workers : Failed(w) => w # v
    BY <2>2, <2>4 DEF FailedAreOut, Out
  <2>7. \A w \in Workers : w # v => pendingByWorker'[w] = pendingByWorker[w]
    BY <2>3 DEF PoolTypeOK
  <2> QED BY <1>1, <2>5, <2>6, <2>7 DEF FailedAreOut, Failed, Out
<1> QED BY <1>2, <1>3 DEF Submit, Overflow, Enqueue

LEMMA MessageStrandsNone ==
    ASSUME PoolTypeOK, FailedAreOut, NEW r \in replies, HandleMessage(r) PROVE FailedAreOut'
<1>1. PICK v : v = r.worker
  OBVIOUS
<1>2. v \in Workers /\ ~Failed(v)
  BY <1>1 DEF PoolTypeOK, Reply, FailedAreOut, Out
<1>3. replies' = replies \ {r} /\ UNCHANGED <<thread, deaths>>
  BY DEF HandleMessage
<1>4. \A w \in Workers : w # v => pendingByWorker'[w] = pendingByWorker[w]
  BY <1>1 DEF HandleMessage, TakeNext, Dispatch, PoolTypeOK
<1>5. idleWorkers' = idleWorkers \/ idleWorkers' = Append(idleWorkers, v)
  BY <1>1 DEF HandleMessage, TakeNext
<1>6. \A n \in DOMAIN idleWorkers' :
          idleWorkers'[n] = v \/ (n \in DOMAIN idleWorkers /\ idleWorkers'[n] = idleWorkers[n])
  <2>1. idleWorkers \in Seq(Workers)
    BY DEF PoolTypeOK
  <2>2. CASE idleWorkers' = Append(idleWorkers, v)
    <3>1. PICK longer : longer = Append(idleWorkers, v)
      OBVIOUS
    <3>2. PICK n \in Nat : n = Len(idleWorkers)
      BY <2>1, LenProperties
    <3>3. /\ longer \in Seq(Workers) /\ Len(longer) = n + 1 /\ longer[n + 1] = v
          /\ \A k \in 1 .. n : longer[k] = idleWorkers[k]
      BY <1>2, <2>1, <3>1, <3>2, AppendProperties
    <3>4. DOMAIN longer = 1 .. n + 1 /\ DOMAIN idleWorkers = 1 .. n
      BY <2>1, <3>2, <3>3, LenProperties
    <3> QED BY <2>2, <3>1, <3>3, <3>4
  <2> QED BY <1>5, <2>2
<1> QED BY <1>2, <1>3, <1>4, <1>6 DEF FailedAreOut, Failed, Out

LEMMA DeathsStrandNone ==
    ASSUME PoolTypeOK, PoolInv, FailedAreOut, PoolStep PROVE FailedAreOut'
<1>1. ASSUME NEW w \in Workers, NEW ok \in BOOLEAN, PostReply(w, ok) PROVE FailedAreOut'
  <2>1. PICK new : new = [worker |-> w, job |-> working[w], ok |-> ok]
    OBVIOUS
  <2>2. /\ thread[w] = "up" /\ replies' = replies \cup {new} /\ new.worker = w
        /\ UNCHANGED <<idleWorkers, pendingByWorker, thread, deaths>>
    BY <1>1, <2>1 DEF PostReply
  <2> QED BY <2>2 DEF FailedAreOut, Failed, Out
<1>2. ASSUME NEW r \in replies, HandleMessage(r) PROVE FailedAreOut'
  BY <1>2, MessageStrandsNone
<1>3. ASSUME NEW w \in Workers, HandleWorkerError(w) PROVE FailedAreOut'
  BY <1>3 DEF HandleWorkerError, RejectPending, PoolTypeOK, FailedAreOut, Failed, Out
<1>4. ASSUME NEW w \in Workers, HandleWorkerExit(w) PROVE FailedAreOut'
  BY <1>4 DEF HandleWorkerExit, RejectPending, PoolTypeOK, FailedAreOut, Failed, Out
<1>5. ASSUME NEW w \in Workers, NEW exit \in {"threw", "ended", "left"}, WorkerDies(w, exit)
      PROVE  FailedAreOut'
  <2>1. PICK new : new = [worker |-> w, busy |-> working[w] # None, exit |-> exit]
    OBVIOUS
  <2>2. /\ new.worker = w /\ new.busy = (working[w] # None) /\ new.exit = exit
        /\ deaths' = deaths \cup {new} /\ thread[w] = "up" /\ thread' = [thread EXCEPT ![w] = exit]
        /\ UNCHANGED <<idleWorkers, pendingByWorker, replies>>
    BY <1>5, <2>1 DEF WorkerDies
  <2>3. \A v \in Workers : v # w => /\ thread'[v] = thread[v]
                                    /\ Failed(v)' => Failed(v)
    BY <2>2 DEF Failed, PoolTypeOK
  <2>4. ~Failed(w) /\ thread'[w] = exit
    BY <2>2 DEF FailedAreOut, Out, PoolTypeOK
  <2>5. ASSUME Failed(w)' PROVE working[w] # None /\ exit # "left"
    BY <2>2, <2>4, <2>5 DEF Failed
  <2>6. ASSUME Failed(w)' PROVE Out(w)'
    <3>1. pendingByWorker[w] # None /\ \A r \in replies : r.worker # w
      BY <2>5, <2>6 DEF PoolInv, Busy
    <3>2. \A n \in DOMAIN idleWorkers : idleWorkers[n] # w
      BY <3>1 DEF PoolInv, Idle
    <3> QED BY <2>2, <2>4, <2>5, <2>6, <3>1, <3>2 DEF Out
  <2>7. ASSUME NEW v \in Workers, v # w, Failed(v)' PROVE Out(v)'
    BY <2>2, <2>3, <2>7 DEF FailedAreOut, Out
  <2> QED BY <2>6, <2>7 DEF FailedAreOut
<1> QED BY <1>1, <1>2, <1>3, <1>4, <1>5 DEF PoolStep, WorkerStep

LEMMA CloseStrandsNone ==
    ASSUME PoolTypeOK, FailedAreOut, Close PROVE FailedAreOut'
BY DEF Close, FailedAreOut, Failed, Out, PoolTypeOK

LEMMA MournedStep ==
    ASSUME PoolTypeOK, Mourned, [Next]_vars PROVE Mourned'
<1>1. CASE UNCHANGED <<thread, deaths, run>>
  BY <1>1 DEF Mourned
<1>2. CASE Pool
  <2>1. CASE UNCHANGED <<thread, deaths>>
    BY <1>2, <2>1 DEF Pool, Mourned
  <2>2. ASSUME NEW w \in Workers, HandleWorkerError(w) \/ HandleWorkerExit(w) PROVE Mourned'
    BY <1>2, <2>2 DEF Pool, HandleWorkerError, HandleWorkerExit, Mourned, PoolTypeOK
  <2>3. ASSUME NEW w \in Workers, NEW exit, WorkerDies(w, exit) PROVE Mourned'
    <3>1. PICK new : new = [worker |-> w, busy |-> working[w] # None, exit |-> exit]
      OBVIOUS
    <3>2. /\ new.worker = w /\ deaths' = deaths \cup {new} /\ run' = run
          /\ \A v \in Workers : v # w => thread'[v] = thread[v]
      BY <1>2, <2>3, <3>1 DEF Pool, WorkerDies, PoolTypeOK
    <3> QED BY <3>2 DEF Mourned
  <2> QED BY <1>2, <2>1, <2>2, <2>3 DEF Pool, PoolStep, WorkerStep, PostReply, HandleMessage
<1>3. CASE Finish
  BY <1>3 DEF Finish, Mourned
<1> QED
  BY <1>1, <1>2, <1>3
     DEF Next, Request, AcquireAndSubmit, Submit, Wait, Continue, Edited, Clock, vars, poolVars

\* A job is stranded with a worker that is gone only if that worker died without
\* a job, or left with exit code 0 (worker-pool.mjs:84-94): the job of every
\* other worker that dies is settled, and it gets no other.
THEOREM RunnerStrandsForReason == Spec => []StrandedForReason
<1>1. Init => Mourned /\ FailedAreOut
  BY DEF Init, PoolInit, Mourned, FailedAreOut, Failed
<1>2. IInv /\ PoolInv /\ Mourned /\ FailedAreOut /\ [Next]_vars => Mourned' /\ FailedAreOut'
  <2> SUFFICES ASSUME IInv, PoolInv, Mourned, FailedAreOut, [Next]_vars
               PROVE  Mourned' /\ FailedAreOut'
    OBVIOUS
  <2>0. PoolTypeOK
    BY DEF IInv, TypeOK
  <2>1. FailedAreOut'
    <3>1. CASE UNCHANGED poolVars
      BY <3>1 DEF poolVars, FailedAreOut, Failed, Out
    <3>2. ASSUME NEW j \in Jobs, AcquireAndSubmit(j) PROVE FailedAreOut'
      BY <2>0, <3>2, SubmitStrandsNone DEF AcquireAndSubmit
    <3>3. CASE Pool
      BY <2>0, <3>3, DeathsStrandNone DEF Pool
    <3>4. CASE Finish
      BY <2>0, <3>4, CloseStrandsNone DEF Finish
    <3> QED BY <3>1, <3>2, <3>3, <3>4 DEF Next, Request, Wait, Continue, Edited, Clock, vars
  <2> QED BY <2>0, <2>1, MournedStep
<1>3. IInv /\ PoolInv /\ ClosedAfterAll /\ Mourned /\ FailedAreOut => StrandedForReason
  <2> SUFFICES ASSUME IInv, PoolInv, ClosedAfterAll, Mourned, FailedAreOut, NEW w \in Stranded
               PROVE  StrandedBy(w)
    BY DEF StrandedForReason
  <2>1. w \in Workers /\ thread[w] = "gone" /\ pendingByWorker[w] # None
    BY DEF Stranded
  <2>2. run = "running"
    <3>1. pendingByWorker[w] \in Jobs /\ job[pendingByWorker[w]] = "open"
      BY <2>1 DEF PoolInv, Held, IInv, TypeOK, PoolTypeOK
    <3> QED BY <3>1 DEF ClosedAfterAll, IInv, TypeOK
  <2>3. PICK d \in deaths : d.worker = w
    BY <2>1, <2>2 DEF Mourned
  <2>4. ~Failed(w)
    BY <2>1 DEF FailedAreOut, Out
  <2> QED BY <2>3, <2>4 DEF Failed, StrandedBy
<1> QED BY <1>1, <1>2, <1>3, RunnerInvariant, PoolInvariant, RunnerClosesLast, PTL DEF Spec
=============================================================================
