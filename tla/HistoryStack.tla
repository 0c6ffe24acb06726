---------------------------- MODULE HistoryStack ----------------------------
(***************************************************************************)
(* The undo/redo container of src/src/utils/history.ts.                    *)
(*                                                                         *)
(* A stack is a record of two sequences of document states: past, oldest   *)
(* first, and future, next redo first.  The class mutates the two arrays   *)
(* in place; here each method is an operator from the stack (and the state *)
(* handed in by the caller) to the new stack.  structuredClone makes every *)
(* stored state independent of the live document, which is what storing a  *)
(* TLA+ value does.                                                        *)
(***************************************************************************)
EXTENDS Naturals, Sequences

CONSTANT MaxDepth   \* maxDepth of the constructor; DEFAULT_MAX_DEPTH is 50

ASSUME MaxDepthAssumption == MaxDepth \in Nat

Stacks(T) == [past : Seq(T), future : Seq(T)]

EmptyStack == [past |-> <<>>, future |-> <<>>]

CanUndo(h) == h.past # <<>>
CanRedo(h) == h.future # <<>>

\* checkpoint: remember `current`, drop the oldest state beyond MaxDepth,
\* discard the branch that could have been redone.
Checkpoint(h, current) ==
    LET pushed == Append(h.past, current)
    IN  [past   |-> IF Len(pushed) > MaxDepth THEN Tail(pushed) ELSE pushed,
         future |-> <<>>]

\* undo: `current` becomes the next redo, the newest past state is handed back.
UndoResult(h) == h.past[Len(h.past)]
UndoStack(h, current) ==
    [past   |-> SubSeq(h.past, 1, Len(h.past) - 1),
     future |-> <<current>> \o h.future]

\* A redo that forgets to remember what it replaces.
RedoStackForgets(h, current) ==
    [past   |-> h.past,
     future |-> Tail(h.future)]

\* redo: `current` is remembered again, the first future state is handed back.
RedoResult(h) == Head(h.future)
RedoStack(h, current) ==
    [past   |-> Append(h.past, current),
     future |-> Tail(h.future)]
=============================================================================
