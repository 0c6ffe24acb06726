----------------------------- MODULE McpServer -----------------------------
(* The MCP server, src/mcp/internal/mcp/server.go and protocol.go: Run reads *)
(* frames from standard input and starts a goroutine for every request; a    *)
(* goroutine takes a slot of the semaphore, calls a tool, and writes its     *)
(* response, two writes under a mutex.  The context is cancelled by a signal *)
(* (src/mcp/cmd/server/main.go).  What a tool computes is left out.          *)
EXTENDS Integers, Sequences, FiniteSets

CONSTANTS
    Messages,              \* the frames the peer sends
    Calls,                 \* of these, the requests: well-formed, with an id
    Malformed,             \* of these, the ones that do not parse or ask for
                           \* another JSON-RPC version; the rest has no id
    MaxConcurrentActions,
    Nobody

ASSUME ServerAssumption ==
    /\ Calls \subseteq Messages /\ Malformed \subseteq Messages
    /\ Calls \cap Malformed = {}
    /\ IsFiniteSet(Messages)
    /\ MaxConcurrentActions \in Nat \ {0}   \* config.go refuses less
    /\ Nobody \notin Messages

VARIABLES
    unread,      \* messages the peer has not sent yet
    reader,      \* Run: reading, replying, waiting for the requests, returned,
                 \* failed (a read error) or exited
    malformed,   \* the message Run is replying to
    pc,          \* goroutine of a request
    sem,         \* slots taken
    writeMu,     \* who holds the mutex
    output,      \* what was written: headers and payloads
    cancelled    \* ctx.Done() is closed

vars == <<unread, reader, malformed, pc, sem, writeMu, output, cancelled>>

Piece == [part : {"header", "payload"}, of : Messages]

Steps == {"none", "acquire", "tool", "respond", "header", "payload", "release",
          "done", "dropped"}

TypeOK ==
    /\ unread \in SUBSET Messages
    /\ reader \in {"reading", "respond", "header", "payload", "waiting", "returned",
                   "failed", "exited"}
    /\ malformed \in Messages \cup {Nobody}
    /\ pc \in [Calls -> Steps]
    /\ sem \in 0 .. MaxConcurrentActions
    /\ writeMu \in Messages \cup {Nobody}
    /\ output \in Seq(Piece)
    /\ cancelled \in BOOLEAN

Init ==
    /\ unread = Messages
    /\ reader = "reading" /\ malformed = Nobody
    /\ pc = [r \in Calls |-> "none"]
    /\ sem = 0 /\ writeMu = Nobody /\ output = <<>>
    /\ cancelled = FALSE

\* Requests that were started and have not called Done: the WaitGroup.
Requests == {r \in Calls : pc[r] \notin {"none", "done", "dropped"}}

\* A fatal read error ends the process with every goroutine in it.
Running == reader # "exited"

-----------------------------------------------------------------------------
(* Run *)

\* A request: Add(1) and go.
ReadCall(r) ==
    /\ reader = "reading" /\ r \in unread \cap Calls
    /\ unread' = unread \ {r}
    /\ pc' = [pc EXCEPT ![r] = "acquire"]
    /\ UNCHANGED <<reader, malformed, sem, writeMu, output, cancelled>>

\* Run itself replies to what it cannot use, before it reads on.
ReadMalformed(m) ==
    /\ reader = "reading" /\ m \in unread \cap Malformed
    /\ unread' = unread \ {m}
    /\ malformed' = m
    /\ reader' = "respond"
    /\ UNCHANGED <<pc, sem, writeMu, output, cancelled>>

\* Variant: a message without an id is replied to with a null id.
ReadNotificationReplies(m) ==
    /\ reader = "reading" /\ m \in unread \ (Calls \cup Malformed)
    /\ unread' = unread \ {m}
    /\ malformed' = m
    /\ reader' = "respond"
    /\ UNCHANGED <<pc, sem, writeMu, output, cancelled>>

\* A message without an id is skipped.
ReadNotification(m) ==
    /\ reader = "reading" /\ m \in unread \ (Calls \cup Malformed)
    /\ unread' = unread \ {m}
    /\ UNCHANGED <<reader, malformed, pc, sem, writeMu, output, cancelled>>

\* The peer closes the stream between two frames, or in the middle of one.
ReadEof ==
    /\ reader = "reading"
    /\ reader' = "waiting"
    /\ UNCHANGED <<unread, malformed, pc, sem, writeMu, output, cancelled>>

ReadError ==
    /\ reader = "reading"
    /\ reader' = "failed"
    /\ UNCHANGED <<unread, malformed, pc, sem, writeMu, output, cancelled>>

\* Variant: the count is taken in the goroutine, after the semaphore.
NoneLeftLate == \A r \in Calls : pc[r] \in {"none", "acquire", "done", "dropped"}
NoneLeft == Requests = {}

Return ==
    /\ reader = "waiting" /\ NoneLeft
    /\ reader' = "returned"
    /\ UNCHANGED <<unread, malformed, pc, sem, writeMu, output, cancelled>>

\* log.Fatalf in main, whatever the goroutines are doing.
Exit ==
    /\ reader = "failed"
    /\ reader' = "exited"
    /\ UNCHANGED <<unread, malformed, pc, sem, writeMu, output, cancelled>>

-----------------------------------------------------------------------------
(* A response: send, by the goroutine of a request or by Run *)

Written(part, m) == output' = Append(output, [part |-> part, of |-> m])

\* Variant: the frame is written without the mutex.
LockNot(m) == UNCHANGED writeMu
Lock(m) == writeMu = Nobody /\ writeMu' = m

Unlock(m) == writeMu' = Nobody

RunLocks ==
    /\ reader = "respond" /\ Lock(malformed)
    /\ reader' = "header"
    /\ UNCHANGED <<unread, malformed, pc, sem, output, cancelled>>

RunWritesHeader ==
    /\ reader = "header" /\ Written("header", malformed)
    /\ reader' = "payload"
    /\ UNCHANGED <<unread, malformed, pc, sem, writeMu, cancelled>>

RunWritesPayload ==
    /\ reader = "payload" /\ Written("payload", malformed)
    /\ Unlock(malformed)
    /\ reader' = "reading" /\ malformed' = Nobody
    /\ UNCHANGED <<unread, pc, sem, cancelled>>

RunStep ==
    \/ \E m \in Messages : ReadCall(m) \/ ReadMalformed(m) \/ ReadNotification(m)
    \/ ReadEof \/ ReadError \/ Return \/ Exit
    \/ RunLocks \/ RunWritesHeader \/ RunWritesPayload

Moves(r, from, to) == Running /\ pc[r] = from /\ pc' = [pc EXCEPT ![r] = to]

-----------------------------------------------------------------------------
(* handleRequest *)

\* select picks any ready case: a slot may be taken although ctx is done.
Acquire(r) ==
    /\ Moves(r, "acquire", "tool")
    /\ sem < MaxConcurrentActions /\ sem' = sem + 1
    /\ UNCHANGED <<unread, reader, malformed, writeMu, output, cancelled>>

Drop(r) ==
    /\ cancelled
    /\ Moves(r, "acquire", "dropped")
    /\ UNCHANGED <<unread, reader, malformed, sem, writeMu, output, cancelled>>

\* The tool returns, at the latest when the request times out or ctx is done.
ToolReturns(r) ==
    /\ Moves(r, "tool", "respond")
    /\ UNCHANGED <<unread, reader, malformed, sem, writeMu, output, cancelled>>

Locks(r) ==
    /\ Moves(r, "respond", "header") /\ Lock(r)
    /\ UNCHANGED <<unread, reader, malformed, sem, output, cancelled>>

WritesHeader(r) ==
    /\ Moves(r, "header", "payload") /\ Written("header", r)
    /\ UNCHANGED <<unread, reader, malformed, sem, writeMu, cancelled>>

WritesPayload(r) ==
    /\ Moves(r, "payload", "release") /\ Written("payload", r) /\ Unlock(r)
    /\ UNCHANGED <<unread, reader, malformed, sem, cancelled>>

\* Variant: a return path without the deferred release.
ReleaseNot(r) ==
    /\ Moves(r, "release", "done")
    /\ UNCHANGED <<unread, reader, malformed, sem, writeMu, output, cancelled>>

\* The deferred functions: the slot, then requests.Done().
Release(r) ==
    /\ Moves(r, "release", "done")
    /\ sem' = sem - 1
    /\ UNCHANGED <<unread, reader, malformed, writeMu, output, cancelled>>

RequestStep(r) ==
    \/ Acquire(r) \/ Drop(r) \/ ToolReturns(r)
    \/ Locks(r) \/ WritesHeader(r) \/ WritesPayload(r) \/ Release(r)

\* SIGINT or SIGTERM.  Run is blocked in a read and does not notice.
Cancel ==
    /\ Running /\ ~cancelled
    /\ cancelled' = TRUE
    /\ UNCHANGED <<unread, reader, malformed, pc, sem, writeMu, output>>

Next == RunStep \/ (\E r \in Calls : RequestStep(r)) \/ Cancel

Spec == Init /\ [][Next]_vars

\* Goroutines run, tools return, a contended mutex or semaphore serves
\* everybody who waits for it.  The peer need not send or close anything.
Scheduled ==
    /\ WF_vars(RunWritesHeader) /\ WF_vars(RunWritesPayload) /\ WF_vars(Return)
    /\ SF_vars(RunLocks)
    /\ \A r \in Calls :
          /\ SF_vars(Acquire(r)) /\ SF_vars(Locks(r))
          /\ WF_vars(ToolReturns(r)) /\ WF_vars(WritesHeader(r))
          /\ WF_vars(WritesPayload(r)) /\ WF_vars(Release(r))

FairSpec == Spec /\ Scheduled

-----------------------------------------------------------------------------
(* Properties *)

InService == {r \in Calls : pc[r] \in {"tool", "respond", "header", "payload", "release"}}

\* "Concurrent request handling with configurable action limits" (mcp/README):
\* no more requests than that are past the semaphore, each holding one slot.
SlotsCounted == sem = Cardinality(InService) /\ sem <= MaxConcurrentActions

\* The peer can parse what it gets: on the stream every header is followed by
\* the payload it announces, whoever writes, and the last frame may be cut.
FramesWhole ==
    \A n \in DOMAIN output :
        IF n % 2 = 1 THEN output[n].part = "header"
        ELSE output[n] = [part |-> "payload", of |-> output[n - 1].of]

\* Run returns without an error only when no goroutine is left and everything
\* that was read is answered, but for requests dropped after a signal.
Answered(m) == \E n \in DOMAIN output : output[n] = [part |-> "payload", of |-> m]
ReturnsLast ==
    reader = "returned" =>
        /\ Requests = {}
        /\ \A r \in Calls \ unread : Answered(r) \/ (cancelled /\ pc[r] = "dropped")

\* The responses on the stream are those of the abstract service.
Service == INSTANCE RpcService WITH
    Calls    <- Messages,
    received <- (Calls \cup Malformed) \ unread,
    answered <- {output[n].of : n \in {n \in DOMAIN output : output[n].part = "payload"}}
ServiceImplemented == Service!Spec

\* A request that was read is answered, unless a signal arrives or reading
\* fails.
EveryCallAnswered ==
    [](~cancelled /\ reader # "failed" /\ Running) =>
        \A m \in Calls \cup Malformed : m \notin unread ~> Answered(m)
=============================================================================
