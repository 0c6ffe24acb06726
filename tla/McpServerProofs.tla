-------------------------- MODULE McpServerProofs --------------------------
(* What McpServer promises its peer, for any messages, any number of them,   *)
(* and any number of slots: whole frames, one response for each request that *)
(* was received, no more requests in service than slots, and nothing left    *)
(* unanswered when Run returns.                                              *)
EXTENDS McpServer, Integers, FiniteSets, FiniteSetTheorems, SequenceTheorems, TLAPS

\* The messages whose responses are on the stream.
Payloads == {output[n].of : n \in {n \in DOMAIN output : output[n].part = "payload"}}

\* The mutex is held by who is between Lock and Unlock, and by nobody else.
Mutex ==
    /\ \A r \in Calls : pc[r] \in {"header", "payload"} <=> writeMu = r
    /\ reader \in {"header", "payload"} => writeMu = malformed
    /\ writeMu \in Malformed => reader \in {"header", "payload"}
    /\ writeMu \in Calls \cup Malformed \cup {Nobody}

\* What the stream holds agrees with how far the requests have come.
Bookkeeping ==
    /\ \A r \in Calls : r \in unread <=> pc[r] = "none"
    /\ \A r \in Calls : r \in Payloads <=> pc[r] \in {"release", "done"}
    /\ \A r \in Calls : pc[r] = "dropped" => cancelled
    /\ malformed \in (Malformed \ unread) \cup {Nobody}
    /\ malformed = Nobody <=> reader \notin {"respond", "header", "payload"}
    /\ \A m \in Malformed : m \in Payloads => m \notin unread /\ m # malformed
    /\ reader = "returned" => \A r \in Calls : pc[r] \in {"none", "done", "dropped"}

\* A frame is half written while somebody is about to write its payload.
Midway == reader = "payload" \/ \E r \in Calls : pc[r] = "payload"

Frames ==
    /\ FramesWhole
    /\ Midway => /\ Len(output) % 2 = 1
                 /\ output[Len(output)] = [part |-> "header", of |-> writeMu]
    /\ ~Midway => Len(output) % 2 = 0

IInv == TypeOK /\ Mutex /\ Bookkeeping /\ Frames /\ SlotsCounted

-----------------------------------------------------------------------------
(* Writing to the stream *)

LEMMA Wrote ==
    ASSUME output \in Seq(Piece), NEW part \in {"header", "payload"}, NEW m \in Messages,
           Written(part, m)
    PROVE  /\ output' \in Seq(Piece)
           /\ Len(output) \in Nat /\ Len(output') = Len(output) + 1
           /\ DOMAIN output = 1 .. Len(output) /\ DOMAIN output' = 1 .. Len(output) + 1
           /\ \A n \in 1 .. Len(output) : output'[n] = output[n]
           /\ output'[Len(output) + 1] = [part |-> part, of |-> m]
           /\ Payloads' = IF part = "payload" THEN Payloads \cup {m} ELSE Payloads
<1> DEFINE x == [part |-> part, of |-> m]
<1>1. x \in Piece /\ output' = Append(output, x)
  BY DEF Written, Piece
<1>2. x.part = part /\ x.of = m
  OBVIOUS
<1> HIDE DEF x
<1>3. /\ output' \in Seq(Piece) /\ Len(output) \in Nat /\ Len(output') = Len(output) + 1
      /\ \A n \in 1 .. Len(output) : output'[n] = output[n]
      /\ output'[Len(output) + 1] = x
  BY <1>1, AppendProperties, LenProperties
<1>4. DOMAIN output = 1 .. Len(output) /\ DOMAIN output' = 1 .. Len(output) + 1
  BY <1>3, LenProperties
<1>5. Payloads' = IF part = "payload" THEN Payloads \cup {m} ELSE Payloads
  <2>1. \A y : y \in Payloads' <=> \E n \in 1 .. Len(output) + 1 :
                                      output'[n].part = "payload" /\ y = output'[n].of
    BY <1>4 DEF Payloads
  <2>2. \A y : y \in Payloads <=> \E n \in 1 .. Len(output) :
                                     output[n].part = "payload" /\ y = output[n].of
    BY <1>4 DEF Payloads
  <2>3. \A n : n \in 1 .. Len(output) + 1 <=> n \in 1 .. Len(output) \/ n = Len(output) + 1
    BY <1>3
  <2>4. \A y : y \in Payloads' <=> y \in Payloads \/ (part = "payload" /\ y = m)
    BY <1>2, <1>3, <2>1, <2>2, <2>3
  <2> QED BY <2>4
<1> QED BY <1>3, <1>4, <1>5 DEF x

\* A goroutine that moves on.
LEMMA Moved ==
    ASSUME TypeOK, NEW r \in Calls, NEW from, NEW to \in Steps, Moves(r, from, to)
    PROVE  /\ pc[r] = from /\ pc'[r] = to
           /\ \A q \in Calls : q # r => pc'[q] = pc[q]
           /\ pc' \in [Calls -> Steps]
BY DEF TypeOK, Moves

\* The slots taken are those of the requests in service, if a step moves no
\* request in or out.
LEMMA SameService ==
    ASSUME IInv, sem' = sem,
           \A r \in Calls : r \in InService' <=> r \in InService
    PROVE  SlotsCounted'
<1>1. InService' = InService
  BY DEF InService
<1> QED BY <1>1 DEF IInv, SlotsCounted

LEMMA FiniteService == IsFiniteSet(InService)
<1>1. IsFiniteSet(Calls) /\ InService \subseteq Calls
  BY ServerAssumption, FS_Subset DEF InService
<1> QED BY <1>1, FS_Subset

\* A step that writes nothing and leaves nobody midway who was not keeps the
\* stream as it is.
LEMMA SameStream ==
    ASSUME IInv, output' = output, Midway' <=> Midway, Midway => writeMu' = writeMu
    PROVE  Frames' /\ Payloads' = Payloads
BY DEF IInv, Frames, FramesWhole, Payloads

-----------------------------------------------------------------------------
(* The steps of Run *)

LEMMA ReadsCall == ASSUME IInv, NEW r \in Messages, ReadCall(r) PROVE IInv'
<1>1. /\ r \in Calls /\ pc[r] = "none" /\ pc'[r] = "acquire" /\ reader = "reading"
      /\ \A q \in Calls : q # r => pc'[q] = pc[q]
      /\ pc' \in [Calls -> Steps] /\ unread' = unread \ {r}
  BY DEF IInv, TypeOK, Bookkeeping, ReadCall, Steps
<1>2. Frames' /\ Payloads' = Payloads
  BY <1>1, SameStream DEF Midway, ReadCall
<1>3. TypeOK'
  BY <1>1 DEF IInv, TypeOK, ReadCall
<1>4. Mutex'
  BY <1>1 DEF IInv, Mutex, ReadCall
<1>5. Bookkeeping'
  BY <1>1, <1>2, ServerAssumption DEF IInv, Bookkeeping, ReadCall
<1>6. SlotsCounted'
  BY <1>1, SameService DEF InService, ReadCall
<1> QED BY <1>2, <1>3, <1>4, <1>5, <1>6 DEF IInv

LEMMA ReadsMalformed == ASSUME IInv, NEW m \in Messages, ReadMalformed(m) PROVE IInv'
<1>1. /\ m \in Malformed /\ m \in unread /\ reader = "reading" /\ reader' = "respond"
      /\ unread' = unread \ {m} /\ malformed' = m /\ m \notin Calls /\ m # Nobody
  BY ServerAssumption DEF ReadMalformed
<1>2. Frames' /\ Payloads' = Payloads
  BY <1>1, SameStream DEF Midway, ReadMalformed
<1>3. TypeOK'
  BY <1>1 DEF IInv, TypeOK, ReadMalformed
<1>4. Mutex'
  BY <1>1 DEF IInv, Mutex, ReadMalformed
<1>5. Bookkeeping'
  BY <1>1, <1>2 DEF IInv, Bookkeeping, ReadMalformed
<1>6. SlotsCounted'
  BY SameService DEF InService, ReadMalformed
<1> QED BY <1>2, <1>3, <1>4, <1>5, <1>6 DEF IInv

LEMMA ReadsNotification == ASSUME IInv, NEW m \in Messages, ReadNotification(m) PROVE IInv'
<1>1. /\ m \notin Calls /\ m \notin Malformed /\ unread' = unread \ {m}
  BY DEF ReadNotification
<1>2. Frames' /\ Payloads' = Payloads
  BY <1>1, SameStream DEF Midway, ReadNotification
<1>3. TypeOK'
  BY <1>1 DEF IInv, TypeOK, ReadNotification
<1>4. Mutex'
  BY <1>1 DEF IInv, Mutex, ReadNotification
<1>5. Bookkeeping'
  BY <1>1, <1>2 DEF IInv, Bookkeeping, ReadNotification
<1>6. SlotsCounted'
  BY SameService DEF InService, ReadNotification
<1> QED BY <1>2, <1>3, <1>4, <1>5, <1>6 DEF IInv

\* Run stops reading, waits, returns or exits: nothing else changes.
LEMMA StopsReading ==
    ASSUME IInv, ReadEof \/ ReadError \/ Return \/ Exit
    PROVE  IInv'
<1>1. /\ UNCHANGED <<unread, malformed, pc, sem, writeMu, output, cancelled>>
      /\ reader \notin {"respond", "header", "payload"}
      /\ reader' \in {"waiting", "failed", "returned", "exited"}
      /\ reader' = "returned" => Requests = {}
  BY DEF ReadEof, ReadError, Return, Exit, NoneLeft
<1>2. Frames' /\ Payloads' = Payloads
  BY <1>1, SameStream DEF Midway
<1>3. TypeOK'
  BY <1>1 DEF IInv, TypeOK
<1>4. Mutex'
  BY <1>1 DEF IInv, Mutex
<1>5. Bookkeeping'
  BY <1>1, <1>2 DEF IInv, Bookkeeping, Requests
<1>6. SlotsCounted'
  BY <1>1, SameService DEF InService
<1> QED BY <1>2, <1>3, <1>4, <1>5, <1>6 DEF IInv

LEMMA RunTakesMutex == ASSUME IInv, RunLocks PROVE IInv'
<1>1. /\ reader = "respond" /\ reader' = "header" /\ writeMu = Nobody /\ writeMu' = malformed
      /\ malformed \in Malformed /\ malformed \notin Calls /\ malformed # Nobody
      /\ Nobody \notin Calls
  BY ServerAssumption DEF RunLocks, Lock, IInv, Bookkeeping
<1>2. ~Midway /\ ~Midway'
  BY <1>1 DEF RunLocks, Midway, IInv, Mutex
<1>3. Frames' /\ Payloads' = Payloads
  BY <1>2, SameStream DEF RunLocks
<1>4. TypeOK'
  BY <1>1, ServerAssumption DEF IInv, TypeOK, RunLocks
<1>5. Mutex'
  BY <1>1 DEF IInv, Mutex, RunLocks
<1>6. Bookkeeping'
  BY <1>1, <1>3 DEF IInv, Bookkeeping, RunLocks
<1>7. SlotsCounted'
  BY SameService DEF InService, RunLocks
<1> QED BY <1>3, <1>4, <1>5, <1>6, <1>7 DEF IInv

-----------------------------------------------------------------------------
(* Frames *)

LEMMA OldFramesKept ==
    ASSUME output \in Seq(Piece), FramesWhole,
           \A n \in 1 .. Len(output) : output'[n] = output[n]
    PROVE  \A n \in 1 .. Len(output) :
              IF n % 2 = 1 THEN output'[n].part = "header"
              ELSE output'[n] = [part |-> "payload", of |-> output'[n - 1].of]
<1> SUFFICES ASSUME NEW n \in 1 .. Len(output)
             PROVE  IF n % 2 = 1 THEN output'[n].part = "header"
                    ELSE output'[n] = [part |-> "payload", of |-> output'[n - 1].of]
  OBVIOUS
<1>1. DOMAIN output = 1 .. Len(output) /\ Len(output) \in Nat /\ output'[n] = output[n]
  BY LenProperties
<1>2. IF n % 2 = 1 THEN output[n].part = "header"
      ELSE output[n] = [part |-> "payload", of |-> output[n - 1].of]
  BY <1>1 DEF FramesWhole
<1>3. CASE n % 2 = 1
  BY <1>1, <1>2, <1>3
<1>4. CASE n % 2 # 1
  <2>1. n - 1 \in 1 .. Len(output)
    BY <1>1, <1>4
  <2>2. output'[n - 1] = output[n - 1]
    BY <2>1
  <2> QED BY <1>1, <1>2, <1>4, <2>2
<1> QED BY <1>3, <1>4

\* The holder of the mutex begins a frame when none is begun ...
LEMMA HeaderWritten ==
    ASSUME IInv, NEW m \in Messages, Written("header", m), ~Midway, Midway', writeMu' = m
    PROVE  Frames' /\ Payloads' = Payloads /\ output' \in Seq(Piece)
<1> DEFINE n0 == Len(output)
<1>1. output \in Seq(Piece) /\ FramesWhole /\ Len(output) % 2 = 0
  BY DEF IInv, TypeOK, Frames
<1>2. /\ n0 \in Nat /\ Len(output') = n0 + 1 /\ n0 % 2 = 0
      /\ DOMAIN output = 1 .. n0 /\ DOMAIN output' = 1 .. n0 + 1
      /\ \A n \in 1 .. n0 : output'[n] = output[n]
      /\ output'[n0 + 1] = [part |-> "header", of |-> m]
      /\ Payloads' = Payloads /\ output' \in Seq(Piece)
  BY <1>1, Wrote
<1> HIDE DEF n0
<1>3. (n0 + 1) % 2 = 1
  BY <1>2
<1>4. FramesWhole'
  <2>1. \A n \in 1 .. n0 : IF n % 2 = 1 THEN output'[n].part = "header"
            ELSE output'[n] = [part |-> "payload", of |-> output'[n - 1].of]
    BY <1>1, <1>2, OldFramesKept DEF n0
  <2>2. output'[n0 + 1].part = "header"
    BY <1>2
  <2>3. \A n \in 1 .. n0 + 1 : n \in 1 .. n0 \/ n = n0 + 1
    BY <1>2
  <2> QED BY <1>2, <1>3, <2>1, <2>2, <2>3 DEF FramesWhole
<1> QED BY <1>2, <1>3, <1>4 DEF Frames

\* ... and finishes the one it began.
LEMMA PayloadWritten ==
    ASSUME IInv, NEW m \in Messages, Written("payload", m), Midway, ~Midway', writeMu = m
    PROVE  Frames' /\ Payloads' = Payloads \cup {m} /\ output' \in Seq(Piece)
<1> DEFINE n0 == Len(output)
<1>1. /\ output \in Seq(Piece) /\ FramesWhole /\ n0 % 2 = 1
      /\ output[n0] = [part |-> "header", of |-> m]
  BY DEF IInv, TypeOK, Frames
<1>2. /\ n0 \in Nat /\ Len(output') = n0 + 1
      /\ DOMAIN output = 1 .. n0 /\ DOMAIN output' = 1 .. n0 + 1
      /\ \A n \in 1 .. n0 : output'[n] = output[n]
      /\ output'[n0 + 1] = [part |-> "payload", of |-> m]
      /\ Payloads' = Payloads \cup {m} /\ output' \in Seq(Piece)
  BY <1>1, Wrote
<1> HIDE DEF n0
<1>3. (n0 + 1) % 2 = 0 /\ n0 \in 1 .. n0 /\ (n0 + 1) - 1 = n0
  BY <1>1, <1>2
<1>4. FramesWhole'
  <2>1. \A n \in 1 .. n0 : IF n % 2 = 1 THEN output'[n].part = "header"
            ELSE output'[n] = [part |-> "payload", of |-> output'[n - 1].of]
    BY <1>1, <1>2, OldFramesKept DEF n0
  <2>2. output'[n0 + 1] = [part |-> "payload", of |-> output'[(n0 + 1) - 1].of]
    BY <1>1, <1>2, <1>3
  <2>3. \A n \in 1 .. n0 + 1 : n \in 1 .. n0 \/ n = n0 + 1
    BY <1>2
  <2>4. \A n \in 1 .. n0 + 1 : IF n % 2 = 1 THEN output'[n].part = "header"
            ELSE output'[n] = [part |-> "payload", of |-> output'[n - 1].of]
    <3> SUFFICES ASSUME NEW n \in 1 .. n0 + 1
                 PROVE  IF n % 2 = 1 THEN output'[n].part = "header"
                        ELSE output'[n] = [part |-> "payload", of |-> output'[n - 1].of]
      OBVIOUS
    <3>1. CASE n \in 1 .. n0
      BY <2>1, <3>1
    <3>2. CASE n = n0 + 1
      BY <1>3, <2>2, <3>2
    <3> QED BY <2>3, <3>1, <3>2
  <2> QED BY <1>2, <2>4 DEF FramesWhole
<1> QED BY <1>2, <1>3, <1>4 DEF Frames

LEMMA RunBeginsFrame == ASSUME IInv, RunWritesHeader PROVE IInv'
<1>1. /\ reader = "header" /\ reader' = "payload" /\ writeMu = malformed /\ writeMu' = malformed
      /\ malformed \in Malformed /\ malformed \in Messages /\ malformed \notin Calls
      /\ malformed # Nobody /\ Written("header", malformed)
  BY ServerAssumption DEF RunWritesHeader, IInv, Bookkeeping, Mutex
<1>2. ~Midway /\ Midway'
  BY <1>1 DEF Midway, IInv, Mutex
<1>3. Frames' /\ Payloads' = Payloads /\ output' \in Seq(Piece)
  BY <1>1, <1>2, HeaderWritten
<1>4. TypeOK'
  BY <1>1, <1>3 DEF IInv, TypeOK, RunWritesHeader
<1>5. Mutex'
  BY <1>1 DEF IInv, Mutex, RunWritesHeader
<1>6. Bookkeeping'
  BY <1>1, <1>3 DEF IInv, Bookkeeping, RunWritesHeader
<1>7. SlotsCounted'
  BY SameService DEF InService, RunWritesHeader
<1> QED BY <1>3, <1>4, <1>5, <1>6, <1>7 DEF IInv

LEMMA RunEndsFrame == ASSUME IInv, RunWritesPayload PROVE IInv'
<1>1. /\ reader = "payload" /\ reader' = "reading" /\ writeMu = malformed /\ writeMu' = Nobody
      /\ malformed' = Nobody /\ malformed \in Malformed /\ malformed \notin unread
      /\ malformed \in Messages /\ malformed \notin Calls /\ malformed # Nobody
      /\ Nobody \notin Calls /\ Nobody \notin Malformed
      /\ Written("payload", malformed)
  BY ServerAssumption DEF RunWritesPayload, Unlock, IInv, Bookkeeping, Mutex
<1>2. Midway /\ ~Midway'
  BY <1>1 DEF Midway, IInv, Mutex, RunWritesPayload
<1>3. Frames' /\ Payloads' = Payloads \cup {malformed} /\ output' \in Seq(Piece)
  BY <1>1, <1>2, PayloadWritten
<1>4. TypeOK'
  BY <1>1, <1>3 DEF IInv, TypeOK, RunWritesPayload
<1>5. Mutex'
  BY <1>1, <1>2 DEF IInv, Mutex, Midway, RunWritesPayload
<1>6. Bookkeeping'
  BY <1>1, <1>3 DEF IInv, Bookkeeping, RunWritesPayload
<1>7. SlotsCounted'
  BY SameService DEF InService, RunWritesPayload
<1> QED BY <1>3, <1>4, <1>5, <1>6, <1>7 DEF IInv

-----------------------------------------------------------------------------
(* The steps of a request *)

LEMMA TakesSlot == ASSUME IInv, NEW r \in Calls, Acquire(r) PROVE IInv'
<1>1. /\ pc[r] = "acquire" /\ pc'[r] = "tool" /\ pc' \in [Calls -> Steps]
      /\ \A q \in Calls : q # r => pc'[q] = pc[q]
  BY Moved DEF Acquire, Steps, IInv
<1>2. Frames' /\ Payloads' = Payloads
  BY <1>1, SameStream DEF Midway, Acquire
<1>3. SlotsCounted'
  <2>1. InService' = InService \cup {r} /\ r \notin InService
    BY <1>1 DEF InService
  <2>2. Cardinality(InService') = Cardinality(InService) + 1
    BY <2>1, FiniteService, FS_AddElement
  <2>3. sem' = sem + 1 /\ sem < MaxConcurrentActions /\ sem = Cardinality(InService)
        /\ sem \in Nat /\ MaxConcurrentActions \in Nat
    BY FiniteService, FS_CardinalityType, ServerAssumption DEF Acquire, IInv, SlotsCounted
  <2> QED BY <2>2, <2>3 DEF SlotsCounted
<1>4. TypeOK'
  <2>1. sem' \in 0 .. MaxConcurrentActions
    BY ServerAssumption DEF Acquire, IInv, TypeOK
  <2> QED BY <1>1, <2>1 DEF IInv, TypeOK, Acquire
<1>5. Mutex'
  BY <1>1 DEF IInv, Mutex, Acquire
<1>6. Bookkeeping'
  BY <1>1, <1>2 DEF IInv, Bookkeeping, Acquire
<1> QED BY <1>2, <1>3, <1>4, <1>5, <1>6 DEF IInv

LEMMA IsDropped == ASSUME IInv, NEW r \in Calls, Drop(r) PROVE IInv'
<1>1. /\ pc[r] = "acquire" /\ pc'[r] = "dropped" /\ pc' \in [Calls -> Steps]
      /\ \A q \in Calls : q # r => pc'[q] = pc[q]
      /\ cancelled
  BY Moved DEF Drop, Steps, IInv
<1>2. Frames' /\ Payloads' = Payloads
  BY <1>1, SameStream DEF Midway, Drop
<1>3. SlotsCounted'
  BY <1>1, SameService DEF InService, Drop
<1>4. TypeOK'
  BY <1>1 DEF IInv, TypeOK, Drop
<1>5. Mutex'
  BY <1>1 DEF IInv, Mutex, Drop
<1>6. Bookkeeping'
  BY <1>1, <1>2 DEF IInv, Bookkeeping, Drop
<1> QED BY <1>2, <1>3, <1>4, <1>5, <1>6 DEF IInv

LEMMA ToolEnds == ASSUME IInv, NEW r \in Calls, ToolReturns(r) PROVE IInv'
<1>1. /\ pc[r] = "tool" /\ pc'[r] = "respond" /\ pc' \in [Calls -> Steps]
      /\ \A q \in Calls : q # r => pc'[q] = pc[q]
  BY Moved DEF ToolReturns, Steps, IInv
<1>2. Frames' /\ Payloads' = Payloads
  BY <1>1, SameStream DEF Midway, ToolReturns
<1>3. SlotsCounted'
  BY <1>1, SameService DEF InService, ToolReturns
<1>4. TypeOK'
  BY <1>1 DEF IInv, TypeOK, ToolReturns
<1>5. Mutex'
  BY <1>1 DEF IInv, Mutex, ToolReturns
<1>6. Bookkeeping'
  BY <1>1, <1>2 DEF IInv, Bookkeeping, ToolReturns
<1> QED BY <1>2, <1>3, <1>4, <1>5, <1>6 DEF IInv

LEMMA TakesMutex == ASSUME IInv, NEW r \in Calls, Locks(r) PROVE IInv'
<1>1. /\ pc[r] = "respond" /\ pc'[r] = "header" /\ pc' \in [Calls -> Steps]
      /\ \A q \in Calls : q # r => pc'[q] = pc[q]
      /\ writeMu = Nobody /\ writeMu' = r /\ r \notin Malformed
      /\ r \in Messages /\ Nobody \notin Calls
  BY Moved, ServerAssumption DEF Locks, Lock, Steps, IInv
<1>2. /\ reader \notin {"header", "payload"}
      /\ \A q \in Calls : pc[q] \notin {"header", "payload"}
  BY <1>1 DEF IInv, Mutex, Bookkeeping
<1>3. ~Midway /\ ~Midway'
  BY <1>1, <1>2 DEF Midway, Locks
<1>4. Frames' /\ Payloads' = Payloads
  BY <1>3, SameStream DEF Locks
<1>5. SlotsCounted'
  BY <1>1, SameService DEF InService, Locks
<1>6. TypeOK'
  BY <1>1 DEF IInv, TypeOK, Locks
<1>7. Mutex'
  BY <1>1, <1>2 DEF IInv, Mutex, Locks
<1>8. Bookkeeping'
  BY <1>1, <1>4 DEF IInv, Bookkeeping, Locks
<1> QED BY <1>4, <1>5, <1>6, <1>7, <1>8 DEF IInv

LEMMA BeginsFrame == ASSUME IInv, NEW r \in Calls, WritesHeader(r) PROVE IInv'
<1>1. /\ pc[r] = "header" /\ pc'[r] = "payload" /\ pc' \in [Calls -> Steps]
      /\ \A q \in Calls : q # r => pc'[q] = pc[q]
      /\ writeMu = r /\ writeMu' = r /\ r \notin Malformed
      /\ r \in Messages /\ Written("header", r)
  BY Moved, ServerAssumption DEF WritesHeader, Steps, IInv, Mutex
<1>2. ~Midway /\ Midway'
  BY <1>1 DEF Midway, IInv, Mutex, Bookkeeping
<1>3. Frames' /\ Payloads' = Payloads /\ output' \in Seq(Piece)
  BY <1>1, <1>2, HeaderWritten
<1>4. SlotsCounted'
  BY <1>1, SameService DEF InService, WritesHeader
<1>5. TypeOK'
  BY <1>1, <1>3 DEF IInv, TypeOK, WritesHeader
<1>6. Mutex'
  BY <1>1 DEF IInv, Mutex, WritesHeader
<1>7. Bookkeeping'
  BY <1>1, <1>3 DEF IInv, Bookkeeping, WritesHeader
<1> QED BY <1>3, <1>4, <1>5, <1>6, <1>7 DEF IInv

LEMMA EndsFrame == ASSUME IInv, NEW r \in Calls, WritesPayload(r) PROVE IInv'
<1>1. /\ pc[r] = "payload" /\ pc'[r] = "release" /\ pc' \in [Calls -> Steps]
      /\ \A q \in Calls : q # r => pc'[q] = pc[q]
      /\ writeMu = r /\ writeMu' = Nobody /\ r \notin Malformed
      /\ r \in Messages /\ Nobody \notin Messages /\ Written("payload", r)
      /\ Nobody \notin Calls /\ Nobody \notin Malformed
  BY Moved, ServerAssumption DEF WritesPayload, Unlock, Steps, IInv, Mutex
<1>2. /\ reader \notin {"header", "payload"}
      /\ \A q \in Calls : q # r => pc[q] \notin {"header", "payload"}
  BY <1>1 DEF IInv, Mutex, Bookkeeping
<1>3. Midway /\ ~Midway'
  BY <1>1, <1>2 DEF Midway, WritesPayload
<1>4. Frames' /\ Payloads' = Payloads \cup {r} /\ output' \in Seq(Piece)
  BY <1>1, <1>3, PayloadWritten
<1>5. SlotsCounted'
  BY <1>1, SameService DEF InService, WritesPayload
<1>6. TypeOK'
  BY <1>1, <1>4 DEF IInv, TypeOK, WritesPayload
<1>7. Mutex'
  BY <1>1, <1>2 DEF IInv, Mutex, WritesPayload
<1>8. Bookkeeping'
  BY <1>1, <1>4 DEF IInv, Bookkeeping, WritesPayload
<1> QED BY <1>4, <1>5, <1>6, <1>7, <1>8 DEF IInv

LEMMA GivesSlotBack == ASSUME IInv, NEW r \in Calls, Release(r) PROVE IInv'
<1>1. /\ pc[r] = "release" /\ pc'[r] = "done" /\ pc' \in [Calls -> Steps]
      /\ \A q \in Calls : q # r => pc'[q] = pc[q]
  BY Moved DEF Release, Steps, IInv
<1>2. Frames' /\ Payloads' = Payloads
  BY <1>1, SameStream DEF Midway, Release
<1>3. SlotsCounted' /\ sem' \in 0 .. MaxConcurrentActions
  <2>1. InService' = InService \ {r} /\ r \in InService
    BY <1>1 DEF InService
  <2>2. Cardinality(InService') = Cardinality(InService) - 1 /\ IsFiniteSet(InService')
    BY <2>1, FiniteService, FS_RemoveElement
  <2>3. sem' = sem - 1 /\ sem <= MaxConcurrentActions /\ sem = Cardinality(InService)
        /\ sem \in Nat /\ MaxConcurrentActions \in Nat
    BY FiniteService, FS_CardinalityType, ServerAssumption DEF Release, IInv, SlotsCounted
  <2>4. Cardinality(InService') \in Nat
    BY <2>2, FS_CardinalityType
  <2> QED BY <2>2, <2>3, <2>4 DEF SlotsCounted
<1>4. TypeOK'
  BY <1>1, <1>3 DEF IInv, TypeOK, Release
<1>5. Mutex'
  BY <1>1 DEF IInv, Mutex, Release
<1>6. Bookkeeping'
  BY <1>1, <1>2 DEF IInv, Bookkeeping, Release
<1> QED BY <1>2, <1>3, <1>4, <1>5, <1>6 DEF IInv

\* A signal, or a step that changes nothing.
LEMMA NothingMoves ==
    ASSUME IInv, Cancel \/ UNCHANGED vars
    PROVE  IInv'
<1>1. /\ UNCHANGED <<unread, reader, malformed, pc, sem, writeMu, output>>
      /\ cancelled' \in BOOLEAN /\ (cancelled => cancelled')
  BY DEF Cancel, vars, IInv, TypeOK
<1>2. Frames' /\ Payloads' = Payloads
  BY <1>1, SameStream DEF Midway
<1>3. TypeOK'
  BY <1>1 DEF IInv, TypeOK
<1>4. Mutex'
  BY <1>1 DEF IInv, Mutex
<1>5. Bookkeeping'
  BY <1>1, <1>2 DEF IInv, Bookkeeping
<1>6. SlotsCounted'
  BY <1>1, SameService DEF InService
<1> QED BY <1>2, <1>3, <1>4, <1>5, <1>6 DEF IInv

-----------------------------------------------------------------------------
(* What holds of every execution *)

LEMMA Starts == ASSUME Init PROVE IInv
<1>1. InService = {} /\ Cardinality(InService) = 0
  BY FS_EmptySet DEF Init, InService
<1>2. output = <<>> /\ Len(output) = 0 /\ DOMAIN output = {} /\ output \in Seq(Piece)
  BY DEF Init
<1>3. Payloads = {} /\ ~Midway
  BY <1>2 DEF Payloads, Midway, Init
<1>4. TypeOK
  <2>1. unread \in SUBSET Messages /\ cancelled \in BOOLEAN
    BY Zenon DEF Init
  <2>2. pc \in [Calls -> Steps]
    BY DEF Init, Steps
  <2>3. sem \in 0 .. MaxConcurrentActions
    BY ServerAssumption DEF Init
  <2>4. /\ reader = "reading" /\ malformed \in Messages \cup {Nobody}
        /\ writeMu \in Messages \cup {Nobody}
    BY DEF Init
  <2> QED BY <1>2, <2>1, <2>2, <2>3, <2>4 DEF TypeOK
<1>5. Mutex
  BY ServerAssumption DEF Init, Mutex
<1>6. Bookkeeping
  BY <1>3, ServerAssumption DEF Init, Bookkeeping
<1>7. Frames
  BY <1>2, <1>3 DEF Frames, FramesWhole
<1>8. SlotsCounted
  BY <1>1, ServerAssumption DEF Init, SlotsCounted
<1> QED BY <1>4, <1>5, <1>6, <1>7, <1>8 DEF IInv

LEMMA Preserves == ASSUME IInv, [Next]_vars PROVE IInv'
<1>1. CASE \E m \in Messages : ReadCall(m) \/ ReadMalformed(m) \/ ReadNotification(m)
  BY <1>1, ReadsCall, ReadsMalformed, ReadsNotification
<1>2. CASE ReadEof \/ ReadError \/ Return \/ Exit
  BY <1>2, StopsReading
<1>3. CASE RunLocks \/ RunWritesHeader \/ RunWritesPayload
  BY <1>3, RunTakesMutex, RunBeginsFrame, RunEndsFrame
<1>4. CASE \E r \in Calls : RequestStep(r)
  BY <1>4, TakesSlot, IsDropped, ToolEnds, TakesMutex, BeginsFrame, EndsFrame, GivesSlotBack
     DEF RequestStep
<1>5. CASE Cancel \/ UNCHANGED vars
  BY <1>5, NothingMoves
<1> QED BY <1>1, <1>2, <1>3, <1>4, <1>5 DEF Next, RunStep

LEMMA Inductive == Spec => []IInv
<1>1. Init => IInv
  BY Starts
<1>2. IInv /\ [Next]_vars => IInv'
  BY Preserves
<1> QED BY <1>1, <1>2, PTL DEF Spec

\* The state has the types of the Go values it stands for.
THEOREM ServerTypes == Spec => []TypeOK
<1>1. IInv => TypeOK
  BY DEF IInv
<1> QED BY <1>1, Inductive, PTL

\* The semaphore counts exactly the requests in service, whatever returns
\* early or late, and never more than its size.
THEOREM ServerBounds == Spec => []SlotsCounted
<1>1. IInv => SlotsCounted
  BY DEF IInv
<1> QED BY <1>1, Inductive, PTL

\* However many goroutines and Run itself write to standard output, the peer
\* finds a payload after every header, and it is the one announced.
THEOREM ServerFrames == Spec => []FramesWhole
<1>1. IInv => FramesWhole
  BY DEF IInv, Frames
<1> QED BY <1>1, Inductive, PTL

\* When Run returns no goroutine is left, and what was read is answered or
\* was dropped after a signal.
THEOREM ServerReturnsLast == Spec => []ReturnsLast
<1>1. ASSUME IInv, reader = "returned"
      PROVE  Requests = {} /\ \A r \in Calls \ unread : Answered(r) \/ (cancelled /\ pc[r] = "dropped")
  <2>1. \A r \in Calls : pc[r] \in {"none", "done", "dropped"}
    BY <1>1 DEF IInv, Bookkeeping
  <2>2. Requests = {}
    BY <2>1 DEF Requests
  <2>3. ASSUME NEW r \in Calls \ unread
        PROVE  Answered(r) \/ (cancelled /\ pc[r] = "dropped")
    <3>1. pc[r] = "done" \/ (pc[r] = "dropped" /\ cancelled)
      BY <1>1, <2>1, <2>3 DEF IInv, Bookkeeping
    <3>2. CASE pc[r] = "done"
      <4>1. PICK n \in DOMAIN output : output[n].part = "payload" /\ output[n].of = r
        BY <1>1, <3>2 DEF IInv, Bookkeeping, Payloads
      <4>2. n \in 1 .. Len(output) /\ output[n] \in Piece
        BY <1>1, LenProperties, ElementOfSeq DEF IInv, TypeOK
      <4>3. output[n] = [part |-> "payload", of |-> r]
        BY <4>1, <4>2 DEF Piece
      <4> QED BY <4>3 DEF Answered
    <3> QED BY <3>1, <3>2
  <2> QED BY <2>2, <2>3
<1>2. IInv => ReturnsLast
  BY <1>1 DEF ReturnsLast
<1> QED BY <1>2, Inductive, PTL

-----------------------------------------------------------------------------
(* The server implements the abstract service *)

LEMMA ServiceStarts == ASSUME Init PROVE Service!Init
<1>1. unread = Messages /\ DOMAIN output = {}
  BY DEF Init
<1> QED BY <1>1, ServerAssumption DEF Service!Init

LEMMA ServiceReceives ==
    ASSUME Payloads' = Payloads, NEW m \in Calls \cup Malformed, m \in unread,
           unread' = unread \ {m}
    PROVE  Service!Next
<1>1. Service!Receive(m)
  BY DEF Service!Receive, Payloads
<1> QED BY <1>1, ServerAssumption DEF Service!Next

LEMMA ServiceAnswers ==
    ASSUME NEW m \in Calls \cup Malformed, m \notin unread, m \notin Payloads,
           unread' = unread, Payloads' = Payloads \cup {m}
    PROVE  Service!Next
<1>1. Service!Answer(m)
  BY DEF Service!Answer, Payloads
<1> QED BY <1>1, ServerAssumption DEF Service!Next

LEMMA ServiceSteps ==
    ASSUME IInv, [Next]_vars
    PROVE  Service!Next \/ UNCHANGED <<(Calls \cup Malformed) \ unread, Payloads>>
<1>1. ASSUME NEW m \in Messages, ReadCall(m) \/ ReadMalformed(m)
      PROVE  Service!Next
  <2>1. m \in Calls \cup Malformed /\ m \in unread /\ unread' = unread \ {m} /\ output' = output
    BY <1>1 DEF ReadCall, ReadMalformed
  <2>2. Payloads' = Payloads
    BY <2>1 DEF Payloads
  <2> QED BY <2>1, <2>2, ServiceReceives
<1>2. ASSUME NEW m \in Messages, ReadNotification(m)
      PROVE  UNCHANGED <<(Calls \cup Malformed) \ unread, Payloads>>
  BY <1>2 DEF ReadNotification, Payloads
<1>3. CASE ReadEof \/ ReadError \/ Return \/ Exit \/ RunLocks \/ Cancel \/ UNCHANGED vars
  BY <1>3 DEF ReadEof, ReadError, Return, Exit, RunLocks, Cancel, vars, Payloads
<1>4. CASE RunWritesHeader
  <2>1. malformed \in Messages /\ output \in Seq(Piece) /\ unread' = unread /\ Written("header", malformed)
    BY <1>4, ServerAssumption DEF IInv, TypeOK, Bookkeeping, RunWritesHeader
  <2> QED BY <2>1, Wrote
<1>5. CASE RunWritesPayload
  <2>1. /\ malformed \in Malformed /\ malformed \in Messages /\ malformed \notin unread
        /\ malformed \notin Payloads /\ output \in Seq(Piece) /\ unread' = unread
        /\ Written("payload", malformed)
    BY <1>5, ServerAssumption DEF IInv, TypeOK, Bookkeeping, RunWritesPayload
  <2> QED BY <2>1, Wrote, ServiceAnswers
<1>6. ASSUME NEW r \in Calls, Acquire(r) \/ Drop(r) \/ ToolReturns(r) \/ Locks(r) \/ Release(r)
      PROVE  UNCHANGED <<(Calls \cup Malformed) \ unread, Payloads>>
  BY <1>6 DEF Acquire, Drop, ToolReturns, Locks, Release, Payloads
<1>7. ASSUME NEW r \in Calls, WritesHeader(r)
      PROVE  UNCHANGED <<(Calls \cup Malformed) \ unread, Payloads>>
  <2>1. r \in Messages /\ output \in Seq(Piece) /\ unread' = unread /\ Written("header", r)
    BY <1>7, ServerAssumption DEF IInv, TypeOK, WritesHeader
  <2> QED BY <2>1, Wrote
<1>8. ASSUME NEW r \in Calls, WritesPayload(r)
      PROVE  Service!Next
  <2>1. /\ r \in Messages /\ r \notin unread /\ r \notin Payloads
        /\ output \in Seq(Piece) /\ unread' = unread /\ Written("payload", r)
    BY <1>8, ServerAssumption DEF IInv, TypeOK, Bookkeeping, WritesPayload, Moves
  <2> QED BY <2>1, Wrote, ServiceAnswers
<1> QED BY <1>1, <1>2, <1>3, <1>4, <1>5, <1>6, <1>7, <1>8 DEF Next, RunStep, RequestStep

\* Every response on the stream answers a request that was received, none is
\* answered twice, and a notification never is.
THEOREM ServerServes == Spec => ServiceImplemented
<1>1. Init => Service!Init
  BY ServiceStarts
<1>2. IInv /\ [Next]_vars =>
         [Service!Next]_<<(Calls \cup Malformed) \ unread,
            {output[n].of : n \in {n \in DOMAIN output : output[n].part = "payload"}}>>
  BY ServiceSteps DEF Payloads
<1> QED BY <1>1, <1>2, Inductive, PTL DEF Spec, ServiceImplemented, Service!Spec
=============================================================================
