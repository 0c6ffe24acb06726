------------------------------- MODULE History ------------------------------
(***************************************************************************)
(* A document driven through one HistoryStack, the way PDFEditor does it   *)
(* (src/src/main.ts): snapshotAnnotations records the state, a mutation    *)
(* changes it, undo and redo exchange it with the stacks, loadPDF clears   *)
(* both.  A handler may record and mutate at once (adding), record and     *)
(* leave the document alone (a press that drags nothing) and mutate many   *)
(* times after one record (a drag).                                        *)
(*                                                                         *)
(* Implements Timeline: the past, the current state and the future, laid   *)
(* end to end, are the versions, and the cursor is on the current one.     *)
(***************************************************************************)
EXTENDS HistoryStack

CONSTANTS States,   \* the document states (annotation arrays, abstracted)
          Start     \* the state of a freshly opened document

ASSUME StartAssumption == Start \in States

VARIABLES current,  \* the caller's document state
          history   \* the HistoryStack

vars == <<current, history>>

TypeOK == /\ current \in States
          /\ history \in Stacks(States)

Init == /\ current = Start
        /\ history = EmptyStack

Snapshot == /\ current' \in States
            /\ history' = Checkpoint(history, current)

Mutate == /\ current' \in States
          /\ UNCHANGED history

Undo == /\ CanUndo(history)
        /\ current' = UndoResult(history)
        /\ history' = UndoStack(history, current)

Redo == /\ CanRedo(history)
        /\ current' = RedoResult(history)
        /\ history' = RedoStack(history, current)

Clear == /\ current' = Start
         /\ history' = EmptyStack

Next == Snapshot \/ Mutate \/ Undo \/ Redo \/ Clear

Spec == Init /\ [][Next]_vars

-----------------------------------------------------------------------------
(* Properties *)

\* What can be undone and what can be redone together never exceed MaxDepth,
\* although redo pushes onto past without looking at maxDepth (history.ts:65).
DepthBounded == Len(history.past) + Len(history.future) <= MaxDepth

\* The refinement mapping.
Line == history.past \o <<current>> \o history.future

T == INSTANCE Timeline WITH versions <- Line,
                            cursor   <- Len(history.past) + 1,
                            Capacity <- MaxDepth

\* The two stacks behave as one line of versions with a cursor: undo and redo
\* lose nothing and return exactly the recorded states, in order, and only a
\* new record discards the versions that were undone.
IsTimeline == T!TSpec
=============================================================================
