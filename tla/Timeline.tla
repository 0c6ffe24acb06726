------------------------------ MODULE Timeline ------------------------------
(***************************************************************************)
(* What an undo history promises, without the two stacks of history.ts:    *)
(* the versions of a document form a line and a cursor points at the one   *)
(* on screen.  Undo and redo move the cursor and change no version.        *)
(* Recording an edit forgets the versions after the cursor and starts a    *)
(* new version there, for the edit to happen in.  At most Capacity         *)
(* versions before the cursor are kept.                                    *)
(***************************************************************************)
EXTENDS Naturals, Sequences

CONSTANTS States,     \* what a version can be
          Start,      \* the version shown at first
          Capacity    \* how many versions can be undone at most

VARIABLES versions, cursor

tvars == <<versions, cursor>>

TInit == /\ versions = <<Start>>
         /\ cursor = 1

\* A new version after the one on screen; the oldest goes when there are
\* more than Capacity before the cursor.
Fork == \E s \in States :
    LET line == Append(SubSeq(versions, 1, cursor), s)
    IN  IF cursor > Capacity
        THEN versions' = Tail(line) /\ cursor' = cursor
        ELSE versions' = line /\ cursor' = cursor + 1

\* The document on screen changes; every other version stays what it was.
Edit == /\ \E s \in States : versions' = [versions EXCEPT ![cursor] = s]
        /\ cursor' = cursor

MoveBack    == cursor > 1 /\ cursor' = cursor - 1 /\ versions' = versions
MoveForward == cursor < Len(versions) /\ cursor' = cursor + 1 /\ versions' = versions

\* Another document is opened: one version, nothing to undo.
Reset == \E s \in States : versions' = <<s>> /\ cursor' = 1

TNext == Fork \/ Edit \/ MoveBack \/ MoveForward \/ Reset

TSpec == TInit /\ [][TNext]_tvars
=============================================================================
