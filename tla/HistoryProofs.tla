--------------------------- MODULE HistoryProofs ----------------------------
(***************************************************************************)
(* Theorems about History, for every MaxDepth and every set of states:     *)
(* its types, the bound on both stacks together, and that it implements    *)
(* Timeline.                                                               *)
(***************************************************************************)
EXTENDS History, SequenceTheorems, TLAPS

USE MaxDepthAssumption, StartAssumption

-----------------------------------------------------------------------------
(* What the methods of HistoryStack do to its two sequences *)

\* checkpoint (history.ts:41) returns a stack of states, at most MaxDepth of
\* them if there were at most MaxDepth before, and nothing to redo.
LEMMA CheckpointStack ==
    ASSUME NEW Elems, NEW h \in Stacks(Elems), NEW s \in Elems
    PROVE  /\ Checkpoint(h, s) \in Stacks(Elems)
           /\ Checkpoint(h, s).future = <<>>
           /\ Len(h.past) <= MaxDepth => Len(Checkpoint(h, s).past) <= MaxDepth
<1> DEFINE pushed == Append(h.past, s)
<1>1. pushed \in Seq(Elems) /\ Len(pushed) = Len(h.past) + 1 /\ pushed # <<>>
  <2>1. h.past \in Seq(Elems) /\ Len(h.past) \in Nat
    BY LenProperties DEF Stacks
  <2>2. pushed \in Seq(Elems) /\ Len(pushed) = Len(h.past) + 1
    BY <2>1, AppendProperties
  <2> QED BY <2>1, <2>2, EmptySeq
<1>2. Tail(pushed) \in Seq(Elems) /\ Len(Tail(pushed)) = Len(pushed) - 1
  BY <1>1, HeadTailProperties
<1>3. <<>> \in Seq(Elems)
  OBVIOUS
<1>4. Len(h.past) \in Nat
  BY DEF Stacks
<1> QED
  BY <1>1, <1>2, <1>3, <1>4 DEF Checkpoint, Stacks

\* undo (history.ts:54) moves one state from the past to the caller and the
\* caller's state to the future.
LEMMA UndoMovesOne ==
    ASSUME NEW Elems, NEW h \in Stacks(Elems), NEW s \in Elems, CanUndo(h)
    PROVE  /\ UndoStack(h, s) \in Stacks(Elems)
           /\ UndoResult(h) \in Elems
           /\ Len(UndoStack(h, s).past) = Len(h.past) - 1
           /\ Len(UndoStack(h, s).future) = Len(h.future) + 1
<1>1. h.past \in Seq(Elems) /\ h.future \in Seq(Elems) /\ Len(h.past) \in Nat \ {0}
  BY EmptySeq DEF Stacks, CanUndo
<1>2. \A i \in 1 .. Len(h.past) - 1 : h.past[i] \in Elems
  BY <1>1, ElementOfSeq
<1>3. /\ SubSeq(h.past, 1, Len(h.past) - 1) \in Seq(Elems)
      /\ Len(SubSeq(h.past, 1, Len(h.past) - 1)) = Len(h.past) - 1
  <2>1. Len(h.past) - 1 \in Int /\ 1 \in Int
    BY <1>1
  <2>2. Len(SubSeq(h.past, 1, Len(h.past) - 1))
          = IF 1 <= Len(h.past) - 1 THEN Len(h.past) - 1 - 1 + 1 ELSE 0
    BY <1>2, <2>1, SubSeqProperties
  <2> QED BY <1>1, <1>2, <2>1, <2>2, SubSeqProperties
<1>4. <<s>> \o h.future \in Seq(Elems) /\ Len(<<s>> \o h.future) = Len(h.future) + 1
  <2>1. <<s>> \in Seq(Elems) /\ Len(<<s>>) = 1
    OBVIOUS
  <2> QED BY <1>1, <2>1, ConcatProperties, LenProperties
<1>5. h.past[Len(h.past)] \in Elems
  BY <1>1, ElementOfSeq
<1> QED
  BY <1>3, <1>4, <1>5 DEF UndoStack, UndoResult, Stacks

\* redo (history.ts:65) moves one state from the future to the caller and the
\* caller's state to the past.
LEMMA RedoMovesOne ==
    ASSUME NEW Elems, NEW h \in Stacks(Elems), NEW s \in Elems, CanRedo(h)
    PROVE  /\ RedoStack(h, s) \in Stacks(Elems)
           /\ RedoResult(h) \in Elems
           /\ Len(RedoStack(h, s).past) = Len(h.past) + 1
           /\ Len(RedoStack(h, s).future) = Len(h.future) - 1
<1>1. h.past \in Seq(Elems) /\ h.future \in Seq(Elems) /\ h.future # <<>>
  BY DEF Stacks, CanRedo
<1>2. /\ Head(h.future) \in Elems
      /\ Tail(h.future) \in Seq(Elems)
      /\ Len(Tail(h.future)) = Len(h.future) - 1
  BY <1>1, HeadTailProperties
<1>3. Append(h.past, s) \in Seq(Elems) /\ Len(Append(h.past, s)) = Len(h.past) + 1
  BY <1>1
<1> QED
  BY <1>2, <1>3 DEF RedoStack, RedoResult, Stacks

-----------------------------------------------------------------------------
\* Type correctness: the document and everything on the stacks is a state.
THEOREM HistoryTypes == Spec => []TypeOK
<1>1. Init => TypeOK
  BY DEF Init, TypeOK, EmptyStack, Stacks
<1>2. TypeOK /\ [Next]_vars => TypeOK'
  <2> SUFFICES ASSUME TypeOK, [Next]_vars PROVE TypeOK'
    OBVIOUS
  <2> USE DEF TypeOK
  <2>1. CASE Snapshot
    BY <2>1, CheckpointStack DEF Snapshot
  <2>2. CASE Mutate
    BY <2>2 DEF Mutate
  <2>3. CASE Undo
    BY <2>3, UndoMovesOne DEF Undo
  <2>4. CASE Redo
    BY <2>4, RedoMovesOne DEF Redo
  <2>5. CASE Clear
    BY <2>5 DEF Clear, EmptyStack, Stacks
  <2>6. CASE UNCHANGED vars
    BY <2>6 DEF vars
  <2> QED
    BY <2>1, <2>2, <2>3, <2>4, <2>5, <2>6 DEF Next
<1> QED
  BY <1>1, <1>2, PTL DEF Spec

\* The two stacks together never hold more than MaxDepth states.  The bound on
\* past alone is not inductive: redo pushes without a test, and only the states
\* it takes from future keep past short.
THEOREM HistoryDepthBounded == Spec => []DepthBounded
<1>1. Init => DepthBounded
  BY DEF Init, DepthBounded, EmptyStack
<1>2. TypeOK /\ DepthBounded /\ [Next]_vars => DepthBounded'
  <2> SUFFICES ASSUME TypeOK, DepthBounded, [Next]_vars PROVE DepthBounded'
    OBVIOUS
  <2>0. history \in Stacks(States) /\ current \in States
    BY DEF TypeOK
  <2>1. CASE Snapshot
    <3>1. Len(history.past) <= MaxDepth
      BY <2>0 DEF DepthBounded, Stacks
    <3>2. history' = Checkpoint(history, current)
      BY <2>1 DEF Snapshot
    <3>3. /\ history' \in Stacks(States)
          /\ history'.future = <<>>
          /\ Len(history'.past) <= MaxDepth
      BY <2>0, <3>1, <3>2, CheckpointStack
    <3>4. Len(history'.past) \in Nat
      BY <3>3 DEF Stacks
    <3> QED BY <3>3, <3>4 DEF DepthBounded
  <2>2. CASE Mutate
    BY <2>2 DEF Mutate, DepthBounded
  <2>3. CASE Undo
    <3>1. CanUndo(history) /\ history' = UndoStack(history, current)
      BY <2>3 DEF Undo
    <3>2. /\ Len(UndoStack(history, current).past) = Len(history.past) - 1
          /\ Len(UndoStack(history, current).future) = Len(history.future) + 1
      BY <2>0, <3>1, UndoMovesOne
    <3>3. history' \in Stacks(States)
      BY <2>0, <3>1, UndoMovesOne
    <3> QED BY <2>0, <3>1, <3>2, <3>3 DEF DepthBounded, Stacks
  <2>4. CASE Redo
    <3>1. CanRedo(history) /\ history' = RedoStack(history, current)
      BY <2>4 DEF Redo
    <3>2. /\ Len(RedoStack(history, current).past) = Len(history.past) + 1
          /\ Len(RedoStack(history, current).future) = Len(history.future) - 1
      BY <2>0, <3>1, RedoMovesOne
    <3>3. history' \in Stacks(States)
      BY <2>0, <3>1, RedoMovesOne
    <3> QED BY <2>0, <3>1, <3>2, <3>3 DEF DepthBounded, Stacks
  <2>5. CASE Clear
    BY <2>5 DEF Clear, EmptyStack, DepthBounded
  <2>6. CASE UNCHANGED vars
    BY <2>6 DEF vars, DepthBounded
  <2> QED
    BY <2>1, <2>2, <2>3, <2>4, <2>5, <2>6 DEF Next
<1> QED
  BY <1>1, <1>2, HistoryTypes, PTL DEF Spec

-----------------------------------------------------------------------------
(***************************************************************************)
(* The refinement.  Line is past \o <<current>> \o future; each method is   *)
(* compared with the timeline's step element by element.                   *)
(***************************************************************************)

\* The elements of a line, by position.
LEMMA LineElements ==
    ASSUME NEW T0, NEW p \in Seq(T0), NEW c \in T0, NEW f \in Seq(T0)
    PROVE  /\ p \o <<c>> \o f \in Seq(T0)
           /\ Len(p \o <<c>> \o f) = Len(p) + 1 + Len(f)
           /\ \A i \in 1 .. Len(p) + 1 + Len(f) :
                (p \o <<c>> \o f)[i] = IF i <= Len(p) THEN p[i]
                                       ELSE IF i = Len(p) + 1 THEN c
                                       ELSE f[i - Len(p) - 1]
<1>1. <<c>> \in Seq(T0) /\ Len(<<c>>) = 1 /\ <<c>>[1] = c
  OBVIOUS
<1>2. /\ p \o <<c>> \in Seq(T0)
      /\ Len(p \o <<c>>) = Len(p) + 1
      /\ \A i \in 1 .. Len(p) + 1 :
            (p \o <<c>>)[i] = IF i <= Len(p) THEN p[i] ELSE <<c>>[i - Len(p)]
  BY <1>1, ConcatProperties
<1>3. /\ (p \o <<c>>) \o f \in Seq(T0)
      /\ Len((p \o <<c>>) \o f) = Len(p) + 1 + Len(f)
      /\ \A i \in 1 .. Len(p) + 1 + Len(f) :
            ((p \o <<c>>) \o f)[i] = IF i <= Len(p) + 1 THEN (p \o <<c>>)[i]
                                     ELSE f[i - (Len(p) + 1)]
  BY <1>2, ConcatProperties
<1>4. Len(p) \in Nat /\ Len(f) \in Nat
  OBVIOUS
<1> QED
  BY <1>1, <1>2, <1>3, <1>4

\* Appending is concatenating one element.
LEMMA ConcatOne ==
    ASSUME NEW T0, NEW s \in Seq(T0), NEW e \in T0
    PROVE  s \o <<e>> = Append(s, e) /\ (s \o <<e>>) \o <<>> = Append(s, e)
<1>1. <<e>> \in Seq(T0) /\ Len(<<e>>) = 1 /\ <<e>>[1] = e
  OBVIOUS
<1>2. /\ Append(s, e) \in Seq(T0)
      /\ Len(Append(s, e)) = Len(s) + 1
      /\ \A i \in 1 .. Len(s) + 1 : Append(s, e)[i] = IF i <= Len(s) THEN s[i] ELSE e
  OBVIOUS
<1>3. /\ s \o <<e>> \in Seq(T0)
      /\ Len(s \o <<e>>) = Len(s) + 1
      /\ \A i \in 1 .. Len(s) + 1 : (s \o <<e>>)[i] = IF i <= Len(s) THEN s[i] ELSE <<e>>[i - Len(s)]
  BY <1>1, ConcatProperties
<1>4. \A i \in 1 .. Len(s) + 1 : (s \o <<e>>)[i] = Append(s, e)[i]
  BY <1>1, <1>2, <1>3
<1>5. s \o <<e>> = Append(s, e)
  BY <1>2, <1>3, <1>4, SeqEqual
<1> QED
  BY <1>2, <1>5, ConcatEmptySeq

\* Dropping the first element and appending one commute.
LEMMA TailAppend ==
    ASSUME NEW T0, NEW s \in Seq(T0), s # <<>>, NEW e \in T0
    PROVE  Tail(Append(s, e)) = Append(Tail(s), e)
<1> DEFINE a == Append(s, e)
<1>1. /\ a \in Seq(T0) /\ a # <<>> /\ Len(a) = Len(s) + 1
      /\ \A i \in 1 .. Len(s) + 1 : a[i] = IF i <= Len(s) THEN s[i] ELSE e
  OBVIOUS
<1>2. /\ Tail(s) \in Seq(T0) /\ Len(Tail(s)) = Len(s) - 1
      /\ \A i \in 1 .. Len(Tail(s)) : Tail(s)[i] = s[i + 1]
  BY HeadTailProperties
<1>3. Len(s) \in Nat \ {0}
  BY EmptySeq
<1> DEFINE t == Tail(s)
           b == Append(t, e)
<1>4. /\ b \in Seq(T0) /\ Len(b) = Len(s)
      /\ \A i \in 1 .. Len(s) : b[i] = IF i <= Len(s) - 1 THEN t[i] ELSE e
  <2>1. t \in Seq(T0) /\ Len(t) = Len(s) - 1
    BY <1>2
  <2> HIDE DEF t
  <2> QED BY <1>3, <2>1
<1> HIDE DEF a
<1>5. /\ Tail(a) \in Seq(T0) /\ Len(Tail(a)) = Len(s)
      /\ \A i \in 1 .. Len(s) : Tail(a)[i] = a[i + 1]
  <2>1. /\ Tail(a) \in Seq(T0) /\ Len(Tail(a)) = Len(a) - 1
        /\ \A i \in 1 .. Len(Tail(a)) : Tail(a)[i] = a[i + 1]
    BY <1>1, HeadTailProperties
  <2> QED BY <1>1, <1>3, <2>1
<1> HIDE DEF b, t
<1>6. \A i \in 1 .. Len(s) : Tail(a)[i] = b[i]
  BY <1>1, <1>2, <1>3, <1>4, <1>5 DEF t
<1>7. Tail(a) = b
  BY <1>4, <1>5, <1>6, SeqEqual
<1> QED
  BY <1>7 DEF a, b, t

\* Cutting a line after the cursor leaves the past and the current state.
LEMMA CutLine ==
    ASSUME NEW T0, NEW p \in Seq(T0), NEW c \in T0, NEW f \in Seq(T0)
    PROVE  SubSeq(p \o <<c>> \o f, 1, Len(p) + 1) = Append(p, c)
<1> DEFINE line == p \o <<c>> \o f
           cut == SubSeq(line, 1, Len(p) + 1)
           pushed == Append(p, c)
<1>1. /\ line \in Seq(T0)
      /\ Len(line) = Len(p) + 1 + Len(f)
      /\ \A i \in 1 .. Len(p) + 1 + Len(f) :
            line[i] = IF i <= Len(p) THEN p[i] ELSE IF i = Len(p) + 1 THEN c ELSE f[i - Len(p) - 1]
  BY LineElements
<1> HIDE DEF line
<1>2. Len(p) \in Nat /\ Len(f) \in Nat
  OBVIOUS
<1>3. \A i \in 1 .. Len(p) + 1 : line[i] = IF i <= Len(p) THEN p[i] ELSE c
  BY <1>1, <1>2
<1>4. \A i \in 1 .. Len(p) + 1 : line[i] \in T0
  BY <1>1, <1>2, ElementOfSeq
<1>5. /\ cut \in Seq(T0)
      /\ Len(cut) = IF 1 <= Len(p) + 1 THEN Len(p) + 1 - 1 + 1 ELSE 0
      /\ \A i \in 1 .. Len(p) + 1 - 1 + 1 : cut[i] = line[1 + i - 1]
  <2>1. 1 \in Int /\ Len(p) + 1 \in Int
    BY <1>2
  <2> QED BY <1>4, <2>1, SubSeqProperties
<1>6. /\ pushed \in Seq(T0)
      /\ Len(pushed) = Len(p) + 1
      /\ \A i \in 1 .. Len(p) + 1 : pushed[i] = IF i <= Len(p) THEN p[i] ELSE c
  OBVIOUS
<1> HIDE DEF cut, pushed
<1>7. Len(cut) = Len(p) + 1 /\ \A i \in 1 .. Len(p) + 1 : cut[i] = line[i]
  BY <1>2, <1>5
<1>8. cut = pushed
  <2>1. Len(cut) = Len(pushed) /\ \A i \in 1 .. Len(cut) : cut[i] = pushed[i]
    BY <1>2, <1>3, <1>6, <1>7
  <2> QED BY <1>5, <1>6, <2>1, SeqEqual
<1> QED
  BY <1>8 DEF line, cut, pushed

\* Recording the current state forks the line at the cursor; d is what the
\* handler makes of the document.
LEMMA CheckpointForks ==
    ASSUME NEW T0, NEW p \in Seq(T0), NEW c \in T0, NEW f \in Seq(T0), NEW d \in T0
    PROVE  LET line == p \o <<c>> \o f
               kept == Append(SubSeq(line, 1, Len(p) + 1), d)
               pushed == Append(p, c)
           IN  /\ kept = pushed \o <<d>> \o <<>>
               /\ Tail(kept) = Tail(pushed) \o <<d>> \o <<>>
               /\ Len(pushed) = Len(p) + 1
               /\ Len(Tail(pushed)) = Len(p)
<1> DEFINE line == p \o <<c>> \o f
           kept == Append(SubSeq(line, 1, Len(p) + 1), d)
           pushed == Append(p, c)
<1>1. Len(p) \in Nat /\ Len(f) \in Nat
  OBVIOUS
<1>2. kept = Append(pushed, d)
  <2> HIDE DEF line, pushed
  <2>1. SubSeq(line, 1, Len(p) + 1) = pushed
    BY CutLine DEF line, pushed
  <2> QED BY <2>1
<1>3. pushed \in Seq(T0) /\ Len(pushed) = Len(p) + 1 /\ pushed # <<>>
  OBVIOUS
<1> HIDE DEF kept, pushed
<1>4. /\ pushed \in Seq(T0) /\ Len(pushed) = Len(p) + 1 /\ pushed # <<>>
      /\ Tail(pushed) \in Seq(T0) /\ Len(Tail(pushed)) = Len(p)
  BY <1>1, <1>3, HeadTailProperties
<1>5. Tail(kept) = Append(Tail(pushed), d)
  BY <1>2, <1>4, TailAppend
<1>6. pushed \o <<d>> \o <<>> = Append(pushed, d)
  BY <1>4, ConcatOne
<1>7. Tail(pushed) \o <<d>> \o <<>> = Append(Tail(pushed), d)
  BY <1>4, ConcatOne
<1> QED
  BY <1>2, <1>4, <1>5, <1>6, <1>7 DEF line, kept, pushed

\* Undo and redo leave the line as it is: the states only change stacks.
LEMMA ShiftLine ==
    ASSUME NEW T0, NEW p \in Seq(T0), NEW c \in T0, NEW d \in T0, NEW f \in Seq(T0)
    PROVE  Append(p, c) \o <<d>> \o f = p \o <<c>> \o (<<d>> \o f)
<1>1. <<c>> \in Seq(T0) /\ <<d>> \in Seq(T0)
  OBVIOUS
<1>2. <<d>> \o f \in Seq(T0) /\ p \o <<c>> \in Seq(T0)
  BY <1>1, ConcatProperties
<1>3. (p \o <<c>>) \o (<<d>> \o f) = ((p \o <<c>>) \o <<d>>) \o f
  BY <1>1, <1>2, ConcatAssociative, SMTT(40)
<1> QED
  BY <1>3, ConcatOne

\* The last state of a non-empty past, put back, gives the past.
LEMMA SplitLast ==
    ASSUME NEW T0, NEW p \in Seq(T0), p # <<>>
    PROVE  p = Append(SubSeq(p, 1, Len(p) - 1), p[Len(p)])
<1>1. Len(p) \in Nat \ {0}
  BY EmptySeq
<1>2. SubSeq(p, 1, Len(p)) = SubSeq(p, 1, Len(p) - 1) \o <<p[Len(p)]>>
  <2>1. 1 \in 1 .. Len(p) /\ Len(p) \in 1 .. Len(p)
    BY <1>1
  <2> QED BY <2>1, SubSeqRecursiveSecond
<1>3. SubSeq(p, 1, Len(p)) = p
  BY SubSeqFull
<1>4. SubSeq(p, 1, Len(p) - 1) \in Seq(T0) /\ p[Len(p)] \in T0
  <2>1. \A i \in 1 .. Len(p) - 1 : p[i] \in T0
    BY <1>1, ElementOfSeq
  <2>2. 1 \in Int /\ Len(p) - 1 \in Int
    BY <1>1
  <2>3. SubSeq(p, 1, Len(p) - 1) \in Seq(T0)
    BY <2>1, <2>2, SubSeqProperties
  <2> QED BY <1>1, <2>3, ElementOfSeq
<1> QED
  BY <1>2, <1>3, <1>4, ConcatOne

\* History implements Timeline: whatever sequence of records, mutations, undos
\* and redos the editor makes, the two stacks of history.ts are one line of
\* versions with a cursor on the document.
THEOREM HistoryIsTimeline == Spec => IsTimeline
<1> DEFINE past == history.past
           future == history.future
<1>1. Init => T!TInit
  BY DEF Init, EmptyStack, T!TInit, Line
<1>2. TypeOK /\ [Next]_vars => [T!TNext]_(T!tvars)
  <2> SUFFICES ASSUME TypeOK, [Next]_vars PROVE [T!TNext]_(T!tvars)
    OBVIOUS
  <2>0. /\ current \in States /\ history \in Stacks(States)
        /\ past \in Seq(States) /\ future \in Seq(States)
        /\ Len(past) \in Nat /\ Len(future) \in Nat
    BY DEF TypeOK, Stacks
  <2> HIDE DEF past, future
  <2>1. /\ Line \in Seq(States)
        /\ Len(Line) = Len(past) + 1 + Len(future)
        /\ Line[Len(past) + 1] = current
    BY <2>0, LineElements DEF Line, past, future
  <2>2. CASE Snapshot
    <3> DEFINE pushed == Append(past, current)
               d == current'
               line == Append(SubSeq(Line, 1, Len(past) + 1), d)
    <3>1. /\ d \in States
          /\ history'.past = IF Len(pushed) > MaxDepth THEN Tail(pushed) ELSE pushed
          /\ history'.future = <<>>
      BY <2>2 DEF Snapshot, Checkpoint, past, future
    <3>2. /\ line = pushed \o <<d>> \o <<>>
          /\ Tail(line) = Tail(pushed) \o <<d>> \o <<>>
          /\ Len(pushed) = Len(past) + 1
          /\ Len(Tail(pushed)) = Len(past)
      BY <2>0, <3>1, CheckpointForks DEF Line, past, future
    <3>3. T!Fork
      <4>0. Line' = history'.past \o <<d>> \o <<>>
        BY <3>1 DEF Line
      <4> HIDE DEF pushed, line
      <4>1. CASE Len(past) + 1 > MaxDepth
        <5>1. history'.past = Tail(pushed) /\ Len(history'.past) = Len(past)
          BY <3>1, <3>2, <4>1
        <5>2. Line' = Tail(line)
          BY <3>2, <4>0, <5>1
        <5> QED BY <3>1, <4>1, <5>1, <5>2 DEF T!Fork, line, past, future
      <4>2. CASE ~(Len(past) + 1 > MaxDepth)
        <5>1. history'.past = pushed /\ Len(history'.past) = Len(past) + 1
          BY <3>1, <3>2, <4>2
        <5>2. Line' = line
          BY <3>2, <4>0, <5>1
        <5> QED BY <3>1, <4>2, <5>1, <5>2 DEF T!Fork, line, past, future
      <4> QED BY <4>1, <4>2
    <3> QED BY <3>3 DEF T!TNext
  <2>3. CASE Mutate
    <3>1. PICK s \in States : current' = s
      BY <2>3 DEF Mutate
    <3>2. history' = history
      BY <2>3 DEF Mutate
    <3>3. Line' = past \o <<s>> \o future
      BY <3>1, <3>2 DEF Line, past, future
    <3>4. past \o <<s>> \o future = [Line EXCEPT ![Len(past) + 1] = s]
      <4> DEFINE new == past \o <<s>> \o future
                 changed == [Line EXCEPT ![Len(past) + 1] = s]
      <4>1. /\ new \in Seq(States)
            /\ Len(new) = Len(past) + 1 + Len(future)
            /\ \A i \in 1 .. Len(past) + 1 + Len(future) :
                  new[i] = IF i <= Len(past) THEN past[i]
                           ELSE IF i = Len(past) + 1 THEN s ELSE future[i - Len(past) - 1]
        BY <2>0, LineElements
      <4>2. \A i \in 1 .. Len(past) + 1 + Len(future) :
                  Line[i] = IF i <= Len(past) THEN past[i]
                            ELSE IF i = Len(past) + 1 THEN current ELSE future[i - Len(past) - 1]
        BY <2>0, LineElements DEF Line, past, future
      <4>3. Len(past) + 1 \in 1 .. Len(Line)
        BY <2>0, <2>1
      <4>4. /\ changed \in Seq(States)
            /\ Len(changed) = Len(Line)
            /\ \A j \in 1 .. Len(Line) : changed[j] = IF j = Len(past) + 1 THEN s ELSE Line[j]
        BY <2>1, <4>3, ExceptSeq
      <4> HIDE DEF new, changed
      <4>5. ASSUME NEW i \in 1 .. Len(new) PROVE new[i] = changed[i]
        <5>1. i \in 1 .. Len(past) + 1 + Len(future) /\ i \in 1 .. Len(Line)
          BY <2>1, <4>1
        <5>2. CASE i = Len(past) + 1
          BY <2>0, <4>1, <4>4, <5>1, <5>2
        <5>3. CASE i # Len(past) + 1
          BY <4>1, <4>2, <4>4, <5>1, <5>3
        <5> QED BY <5>2, <5>3
      <4>6. Len(new) = Len(changed)
        BY <2>1, <4>1, <4>4
      <4>7. new = changed
        BY <4>1, <4>4, <4>5, <4>6, SeqEqual
      <4> QED BY <4>7 DEF new, changed
    <3> QED BY <3>2, <3>3, <3>4 DEF T!Edit, T!TNext, past, future
  <2>4. CASE Undo
    <3> DEFINE rest == SubSeq(past, 1, Len(past) - 1)
               top == past[Len(past)]
    <3>1. /\ past # <<>>
          /\ current' = top
          /\ history'.past = rest
          /\ history'.future = <<current>> \o future
      BY <2>4 DEF Undo, CanUndo, UndoResult, UndoStack, past, future
    <3>2. past = Append(rest, top)
      BY <2>0, <3>1, SplitLast
    <3>3. /\ history' \in Stacks(States) /\ current' \in States
          /\ Len(history'.past) = Len(past) - 1
      BY <2>0, <2>4, UndoMovesOne DEF Undo, past, future
    <3>4. rest \in Seq(States) /\ top \in States
      BY <3>1, <3>3 DEF Stacks, past, future
    <3> HIDE DEF rest, top
    <3>5. Append(rest, top) \o <<current>> \o future
              = rest \o <<top>> \o (<<current>> \o future)
      BY <2>0, <3>4, ShiftLine, SMTT(40)
    <3>6. Line' = Line
      BY <3>1, <3>2, <3>5 DEF Line, past, future
    <3>7. Len(past) + 1 > 1
      BY <2>0, <3>1, EmptySeq
    <3>8. Len(history'.past) + 1 = Len(past) + 1 - 1
      BY <2>0, <3>3
    <3> QED BY <3>6, <3>7, <3>8 DEF T!MoveBack, T!TNext, past, future
  <2>5. CASE Redo
    <3> DEFINE hd == Head(future)
               tl == Tail(future)
    <3>1. /\ future # <<>>
          /\ current' = hd
          /\ history'.past = Append(past, current)
          /\ history'.future = tl
      BY <2>5 DEF Redo, CanRedo, RedoResult, RedoStack, past, future
    <3>2. hd \in States /\ tl \in Seq(States)
      BY <2>0, <3>1, HeadTailProperties
    <3>2a. future = <<hd>> \o tl
      BY <2>0, <3>1
    <3>3. Len(history'.past) = Len(past) + 1
      BY <2>0, <3>1
    <3> HIDE DEF hd, tl
    <3>4. Append(past, current) \o <<hd>> \o tl = past \o <<current>> \o (<<hd>> \o tl)
      BY <2>0, <3>2, ShiftLine, SMTT(40)
    <3>5. Line' = Line
      BY <3>1, <3>2a, <3>4 DEF Line, past, future
    <3>6. Len(past) + 1 < Len(Line)
      <4>1. Len(future) \in Nat \ {0}
        BY <2>0, <3>1, EmptySeq
      <4> QED BY <2>0, <2>1, <4>1
    <3> QED BY <3>3, <3>5, <3>6 DEF T!MoveForward, T!TNext, past, future
  <2>6. CASE Clear
    <3>1. Line' = <<Start>> /\ Len(history'.past) + 1 = 1
      BY <2>6 DEF Clear, EmptyStack, Line, past, future
    <3> QED BY <3>1 DEF T!Reset, T!TNext
  <2>7. CASE UNCHANGED vars
    BY <2>7 DEF vars, T!tvars, Line
  <2> QED
    BY <2>2, <2>3, <2>4, <2>5, <2>6, <2>7 DEF Next
<1> QED
  BY <1>1, <1>2, HistoryTypes, PTL DEF Spec, IsTimeline, T!TSpec
=============================================================================
