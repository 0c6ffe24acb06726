------------------------------- MODULE Runner -------------------------------
(* executeRequests of src/mock_model_smoke/src/core/runner.mjs: every        *)
(* request acquires a token, is computed by a worker of the pool and, when   *)
(* its answer parses, edits a file; when all have a result the pool is       *)
(* closed.  It composes WorkerPool and RateLimiter.                          *)
EXTENDS WorkerPool, RateLimiter

\* Requests, by their index; each calls acquire once and submits one job.
ASSUME RequestAssumption == Jobs \subseteq Nat /\ Callers = Jobs

VARIABLES
    result,   \* "none", "editing" while executeAction runs, then "done"
    run       \* executeRequests: running, closed when pool.close was called

vars == <<poolVars, limiterVars, result, run>>

TypeOK ==
    /\ PoolTypeOK /\ LimiterTypeOK
    /\ result \in [Jobs -> {"none", "editing", "done"}]
    /\ run \in {"running", "closed"}

Init ==
    /\ PoolInit /\ LimiterInit
    /\ result = [j \in Jobs |-> "none"]
    /\ run = "running"

\* requests.map calls processOneRequest for each request in turn, without
\* coming back to the event loop.
Starting == {j \in Jobs : caller[j] = "calling"}
InTurn(j) == Starting = {} \/ (j \in Starting /\ \A k \in Starting : j <= k)

\* Granted, processOneRequest goes on to submit in the same turn of the event
\* loop, before any other event.
AcquireAndSubmit(j) ==
    /\ Grant(j)
    /\ Submit(j)
    /\ UNCHANGED <<result, run>>

Wait(j) ==
    /\ GoToSleep(j)
    /\ UNCHANGED <<poolVars, result, run>>

Clock == Starting = {} /\ Tick /\ UNCHANGED <<poolVars, result, run>>

Pool == Starting = {} /\ PoolStep /\ UNCHANGED <<limiterVars, result, run>>

\* The continuation of await pool.submit(...): rejected, or resolved with an
\* answer that did not parse, or with an action to execute.
Continue(j, parsed) ==
    /\ result[j] = "none" /\ job[j] \in {"resolved", "rejected"}
    /\ result' = [result EXCEPT ![j] =
                    IF job[j] = "resolved" /\ parsed THEN "editing" ELSE "done"]
    /\ UNCHANGED <<poolVars, limiterVars, run>>

\* executeAction returns or throws: a result either way.
Edited(j) ==
    /\ result[j] = "editing"
    /\ result' = [result EXCEPT ![j] = "done"]
    /\ UNCHANGED <<poolVars, limiterVars, run>>

\* Variant: the first result ends the wait, as with Promise.race.
AllDoneAny == \E j \in Jobs : result[j] = "done"
AllDone == \A j \in Jobs : result[j] = "done"

Finish ==
    /\ run = "running" /\ AllDone
    /\ run' = "closed"
    /\ Close
    /\ UNCHANGED <<limiterVars, result>>

Request(j) ==
    \/ InTurn(j) /\ (AcquireAndSubmit(j) \/ Wait(j))
    \/ \E parsed \in BOOLEAN : Continue(j, parsed)
    \/ Edited(j)

Next == (\E j \in Jobs : Request(j)) \/ Clock \/ Pool \/ Finish

Spec == Init /\ [][Next]_vars

\* Threads, timers and file operations make progress; nobody has to die.
Progress ==
    /\ \A j \in Jobs : WF_vars(Request(j))
    /\ WF_vars(Clock)
    /\ \A w \in Workers :
          WF_vars(Starting = {} /\ WorkerStep(w) /\ UNCHANGED <<limiterVars, result, run>>)
    /\ WF_vars(Finish)

FairSpec == Spec /\ Progress

-----------------------------------------------------------------------------
(* Properties *)

\* The pool is closed only after every submitted request has its answer, so
\* terminating the workers fails none of them.
ClosedAfterAll == run = "closed" => \A j \in Jobs : job[j] \in {"resolved", "rejected"}

\* No caller passes that the ideal bucket would hold back, although tokens are
\* only counted when somebody asks.
LimiterIsBucket == Ideal!Spec

\* With one worker that lives, every request ends with a result and the pool is
\* closed: the job of a dead worker fails and the queue is worked off by the
\* others.  The exception is a job stranded with a worker that is gone; it keeps
\* the run from ending but no other request, and that worker died without a job
\* and was given one later, from the stack it stays in, or left with exit code
\* 0, which handleWorkerExit takes for no failure.
StrandedBy(w) == \E d \in deaths : d.worker = w /\ (~d.busy \/ d.exit = "left")
StrandedForReason == \A w \in Stranded : StrandedBy(w)
Ended(j) == result[j] = "done" \/ \E w \in Stranded : pendingByWorker[w] = j
Finishes ==
    <>[](/\ \A j \in Jobs : Ended(j)
         /\ Stranded = {} => run = "closed"
         /\ StrandedForReason)
=============================================================================
