----------------------------- MODULE WorkerPool -----------------------------
(* The pool of worker threads of the mock-model runner:                      *)
(* src/mock_model_smoke/src/core/worker-pool.mjs and the thread it starts,   *)
(* src/mock_model_smoke/src/workers/request-worker.mjs.                      *)
(*                                                                           *)
(* A worker is a thread: what it posts is delivered later, it may die, and   *)
(* its death is told by an error event (if it threw) and an exit event with  *)
(* the code the thread ended with: 1 after throwing or being terminated, 0   *)
(* when it left by itself.  Messages posted before the death are delivered   *)
(* before the exit event, in any order with the error event.                 *)
EXTENDS Integers, Sequences, FiniteSets

CONSTANTS
    Jobs,       \* payloads, each submitted once
    Size,       \* worker threads
    MaxQueue,   \* jobs that may wait for a worker
    None,
    MaxDeaths   \* bound: workers that die

Workers == 1 .. Size

ASSUME PoolAssumption ==
    /\ Size \in Nat \ {0} /\ MaxQueue \in Nat \ {0} /\ MaxDeaths \in Nat
    /\ None \notin Jobs

VARIABLES
    idleWorkers,      \* a stack
    queue,
    pendingByWorker,  \* the job a worker was given, None if it has none
    working,          \* the payload a worker thread is computing on
    replies,          \* posted by a worker, not delivered yet
    thread,           \* up; threw: both events to come; ended: an exit with
                      \* another code than 0 to come; left: exit 0 to come; gone
    job,              \* the promise submit returned
    answer,           \* whose reply resolved the promise
    deaths            \* workers that died, whether working, with which exit

poolVars == <<idleWorkers, queue, pendingByWorker, working, replies, thread, job,
              answer, deaths>>

Reply == [worker : Workers, job : Jobs, ok : BOOLEAN]
Death == [worker : Workers, busy : BOOLEAN, exit : {"threw", "ended", "left"}]

PoolTypeOK ==
    /\ idleWorkers \in Seq(Workers)
    /\ queue \in Seq(Jobs) /\ Len(queue) <= MaxQueue
    /\ pendingByWorker \in [Workers -> Jobs \cup {None}]
    /\ working \in [Workers -> Jobs \cup {None}]
    /\ replies \in SUBSET Reply
    /\ thread \in [Workers -> {"up", "threw", "ended", "left", "gone"}]
    /\ job \in [Jobs -> {"new", "open", "resolved", "rejected"}]
    /\ answer \in [Jobs -> Jobs \cup {None}]
    /\ deaths \in SUBSET Death

PoolInit ==
    /\ idleWorkers = [n \in 1 .. Size |-> n]
    /\ queue = <<>>
    /\ pendingByWorker = [w \in Workers |-> None]
    /\ working = [w \in Workers |-> None]
    /\ replies = {}
    /\ thread = [w \in Workers |-> "up"]
    /\ job = [j \in Jobs |-> "new"]
    /\ answer = [j \in Jobs |-> None]
    /\ deaths = {}

-----------------------------------------------------------------------------
\* A dead thread never gets the message.
Dispatch(w, j) ==
    /\ pendingByWorker' = [pendingByWorker EXCEPT ![w] = j]
    /\ working' = IF thread[w] = "up" THEN [working EXCEPT ![w] = j] ELSE working

Full == Len(queue) >= MaxQueue

Overflow(j) ==
    /\ Full
    /\ job' = [job EXCEPT ![j] = "rejected"]
    /\ UNCHANGED <<idleWorkers, queue, pendingByWorker, working>>

StartNow(j) ==
    /\ ~Full /\ idleWorkers # <<>>
    /\ job' = [job EXCEPT ![j] = "open"]
    /\ Dispatch(idleWorkers[Len(idleWorkers)], j)
    /\ idleWorkers' = SubSeq(idleWorkers, 1, Len(idleWorkers) - 1)
    /\ UNCHANGED queue

Enqueue(j) ==
    /\ ~Full /\ idleWorkers = <<>>
    /\ job' = [job EXCEPT ![j] = "open"]
    /\ queue' = Append(queue, j)
    /\ UNCHANGED <<idleWorkers, pendingByWorker, working>>

Submit(j) ==
    /\ job[j] = "new"
    /\ Overflow(j) \/ StartNow(j) \/ Enqueue(j)
    /\ UNCHANGED <<replies, thread, answer, deaths>>

\* Variant: the handler posts again when it leaves the try block.
PostReplyTwice(w, ok) ==
    /\ thread[w] = "up" /\ working[w] # None
    /\ replies' = replies \cup {[worker |-> w, job |-> working[w], ok |-> ok]}
    /\ UNCHANGED <<idleWorkers, queue, pendingByWorker, working, thread, job, answer, deaths>>

\* The thread has run the mock model: one message, whether it worked or threw.
PostReply(w, ok) ==
    /\ thread[w] = "up" /\ working[w] # None
    /\ replies' = replies \cup {[worker |-> w, job |-> working[w], ok |-> ok]}
    /\ working' = [working EXCEPT ![w] = None]
    /\ UNCHANGED <<idleWorkers, queue, pendingByWorker, thread, job, answer, deaths>>

Settle(j, r) ==
    /\ job' = [job EXCEPT ![j] = IF r.ok THEN "resolved" ELSE "rejected"]
    /\ answer' = [answer EXCEPT ![j] = r.job]

\* Variant: the worker goes back to the stack and the queue is not looked at.
TakeNextNever(w) ==
    /\ idleWorkers' = Append(idleWorkers, w)
    /\ pendingByWorker' = [pendingByWorker EXCEPT ![w] = None]
    /\ UNCHANGED <<queue, working>>

\* A worker that has answered takes the oldest queued job or becomes idle.
TakeNext(w) ==
    \/ /\ queue # <<>>
       /\ Dispatch(w, Head(queue))
       /\ queue' = Tail(queue)
       /\ UNCHANGED idleWorkers
    \/ /\ queue = <<>>
       /\ idleWorkers' = Append(idleWorkers, w)
       /\ pendingByWorker' = [pendingByWorker EXCEPT ![w] = None]
       /\ UNCHANGED <<queue, working>>

HandleMessage(r) ==
    /\ r \in replies
    /\ replies' = replies \ {r}
    /\ IF pendingByWorker[r.worker] # None
       THEN Settle(pendingByWorker[r.worker], r) /\ TakeNext(r.worker)
       ELSE UNCHANGED <<idleWorkers, queue, pendingByWorker, working, job, answer>>
    /\ UNCHANGED <<thread, deaths>>

WorkerDies(w, exit) ==
    /\ thread[w] = "up"
    /\ Cardinality(deaths) < MaxDeaths
    /\ deaths' = deaths \cup {[worker |-> w, busy |-> working[w] # None, exit |-> exit]}
    /\ thread' = [thread EXCEPT ![w] = exit]
    /\ working' = [working EXCEPT ![w] = None]
    /\ UNCHANGED <<idleWorkers, queue, pendingByWorker, replies, job, answer>>

\* Variant: the job is rejected and stays with the worker.
RejectPendingKeeps(w) ==
    /\ job' = IF pendingByWorker[w] = None THEN job
              ELSE [job EXCEPT ![pendingByWorker[w]] = "rejected"]
    /\ UNCHANGED pendingByWorker

\* The job of a dead worker is rejected; the worker does not become idle and
\* no other one is started in its place.
RejectPending(w) ==
    /\ job' = IF pendingByWorker[w] = None THEN job
              ELSE [job EXCEPT ![pendingByWorker[w]] = "rejected"]
    /\ pendingByWorker' = [pendingByWorker EXCEPT ![w] = None]

HandleWorkerError(w) ==
    /\ thread[w] = "threw"
    /\ thread' = [thread EXCEPT ![w] = "ended"]
    /\ RejectPending(w)
    /\ UNCHANGED <<idleWorkers, queue, working, replies, answer, deaths>>

ExitEvent(w) == \A r \in replies : r.worker # w

\* Variant: the test of the exit code the other way round.
HandleExitSwapped(w) ==
    /\ thread[w] \in {"ended", "left"} /\ ExitEvent(w)
    /\ thread' = [thread EXCEPT ![w] = "gone"]
    /\ \/ thread[w] = "ended" /\ UNCHANGED <<job, pendingByWorker>>
       \/ thread[w] = "left" /\ RejectPending(w)
    /\ UNCHANGED <<idleWorkers, queue, working, replies, answer, deaths>>

\* An exit with code 0 is ignored: the job the worker held stays with it.
HandleWorkerExit(w) ==
    /\ thread[w] \in {"ended", "left"} /\ ExitEvent(w)
    /\ thread' = [thread EXCEPT ![w] = "gone"]
    /\ \/ thread[w] = "left" /\ UNCHANGED <<job, pendingByWorker>>
       \/ thread[w] = "ended" /\ RejectPending(w)
    /\ UNCHANGED <<idleWorkers, queue, working, replies, answer, deaths>>

\* terminate() of every worker; its exit events come later.
Close ==
    /\ thread' = [w \in Workers |-> IF thread[w] \in {"left", "gone"} THEN thread[w] ELSE "ended"]
    /\ working' = [w \in Workers |-> None]
    /\ UNCHANGED <<idleWorkers, queue, pendingByWorker, replies, job, answer, deaths>>

WorkerStep(w) ==
    \/ \E ok \in BOOLEAN : PostReply(w, ok)
    \/ \E r \in replies : r.worker = w /\ HandleMessage(r)
    \/ HandleWorkerError(w) \/ HandleWorkerExit(w)

PoolStep ==
    \/ \E w \in Workers : WorkerStep(w)
    \/ \E w \in Workers, exit \in {"threw", "ended", "left"} : WorkerDies(w, exit)

-----------------------------------------------------------------------------
(* Properties *)

\* Workers that are gone and hold a job: no event will settle it any more.
Stranded == {w \in Workers : thread[w] = "gone" /\ pendingByWorker[w] # None}

Holders(j)   == {w \in Workers : pendingByWorker[w] = j}
Positions(j) == {n \in DOMAIN queue : queue[n] = j}

\* A promise that is not settled is kept in exactly one place, the queue or one
\* worker's entry, and a settled one in none: no job is lost, run twice, or
\* settled a second time, whatever order replies, errors and exits come in.
JobsConserved ==
    \A j \in Jobs : Cardinality(Holders(j)) + Cardinality(Positions(j)) =
                        IF job[j] = "open" THEN 1 ELSE 0

\* A promise is resolved by the reply to its own payload: handleMessage does
\* not compare ids, it relies on a worker having one job at a time.
RightAnswer == \A j \in Jobs : answer[j] \in {j, None}
=============================================================================
