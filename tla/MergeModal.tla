----------------------------- MODULE MergeModal -----------------------------
(* The merge dialog, src/src/components/MergeModal.ts: a list of files that  *)
(* the user fills and reorders, checks of files that answer later, and       *)
(* merges that read the list file by file while all of that goes on.  The    *)
(* button is not disabled during a merge.  An opening is known by its number *)
(* and stands for the callback it was given.                                 *)
EXTENDS Integers, SequencesExt

CONSTANTS
    Files,          \* chosen or dropped by the user, each at most once
    MaxOpenings,
    MaxMerges,      \* merges started
    MaxWork         \* files chosen and merges started

ASSUME MergeAssumption == {MaxOpenings, MaxMerges, MaxWork} \subseteq Nat

VARIABLES
    openings,   \* times the dialog was opened
    onMerge,    \* opening whose callback is set, 0 for null
    files,      \* this.files
    unchosen,   \* files nobody has chosen yet
    checking,   \* files whose guard is at work
    merges,     \* calls of merge, by number
    delivered   \* calls of a callback

mergeVars == <<openings, onMerge, files, unchosen, checking, merges, delivered>>

\* A merge iterates over the array it found, live as long as that array is
\* this.files, and has taken some of its items.  Told besides: the list when
\* the button was pressed, and whether a file of it has been moved since.
Lists == {s \in Seq(Files) : IsInjective(s)}
Merge == [phase : {"reading", "writing", "over"}, live : BOOLEAN, moved : BOOLEAN,
          array : Lists, listed : Lists, taken : Seq(Files)]

MergeTypeOK ==
    /\ openings \in 0 .. MaxOpenings /\ onMerge \in 0 .. openings
    /\ files \in Lists
    /\ unchosen \in SUBSET Files /\ checking \in SUBSET Files
    /\ merges \in Seq(Merge) /\ Len(merges) <= MaxMerges
    /\ delivered \in SUBSET [to : 1 .. MaxOpenings, merge : DOMAIN merges]

MergeInit ==
    /\ openings = 0 /\ onMerge = 0
    /\ files = <<>> /\ unchosen = Files /\ checking = {}
    /\ merges = <<>> /\ delivered = {}

-----------------------------------------------------------------------------
(* The array *)

\* this.files = <another array>: merges go on over the old one.
Detached == [k \in DOMAIN merges |->
                IF merges[k].live THEN [merges[k] EXCEPT !.live = FALSE, !.array = files]
                ELSE merges[k]]
Replaced == merges' = Detached

\* Moving changes the array a merge may be iterating over.
Reordered ==
    merges' = [k \in DOMAIN merges |->
                  IF merges[k].live THEN [merges[k] EXCEPT !.moved = TRUE] ELSE merges[k]]

ArrayOf(m) == IF m.live THEN files ELSE m.array

MayWork == Cardinality(Files \ unchosen) + Len(merges) < MaxWork

-----------------------------------------------------------------------------
(* The user *)

\* open, by the toolbar, the menu or an agent.
Open ==
    /\ onMerge = 0 /\ openings < MaxOpenings
    /\ openings' = openings + 1 /\ onMerge' = openings + 1
    /\ files' = <<>> /\ Replaced
    /\ UNCHANGED <<unchosen, checking, delivered>>

\* handleFiles, one of its files: the guard reads it.
Choose(f) ==
    /\ onMerge # 0 /\ f \in unchosen /\ MayWork
    /\ unchosen' = unchosen \ {f} /\ checking' = checking \cup {f}
    /\ UNCHANGED <<openings, onMerge, files, merges, delivered>>

\* The guard answers, whatever has become of the dialog; push extends the
\* array a merge may be iterating over.
GuardAnswers(f, ok) ==
    /\ f \in checking
    /\ checking' = checking \ {f}
    /\ files' = IF ok THEN Append(files, f) ELSE files
    /\ UNCHANGED <<openings, onMerge, unchosen, merges, delivered>>

\* Variant: the item is put in its new place and not taken from the old one.
MoveFileCopies(from, to) ==
    /\ onMerge # 0 /\ from \in DOMAIN files /\ to \in DOMAIN files
    /\ files' = InsertAt(files, to, files[from]) /\ Reordered
    /\ UNCHANGED <<openings, onMerge, unchosen, checking, delivered>>

\* The arrows: up or down by one.
MoveFile(from, to) ==
    /\ onMerge # 0 /\ from \in DOMAIN files /\ to \in DOMAIN files
    /\ files' = InsertAt(RemoveAt(files, from), to, files[from]) /\ Reordered
    /\ UNCHANGED <<openings, onMerge, unchosen, checking, delivered>>

\* Variant: the item is spliced out of the array.
RemoveFileSplices(i) ==
    /\ onMerge # 0 /\ i \in DOMAIN files
    /\ files' = RemoveAt(files, i)
    /\ UNCHANGED <<openings, onMerge, unchosen, checking, merges, delivered>>

RemoveFile(i) ==
    /\ onMerge # 0 /\ i \in DOMAIN files
    /\ files' = RemoveAt(files, i) /\ Replaced
    /\ UNCHANGED <<openings, onMerge, unchosen, checking, delivered>>

Closed == onMerge' = 0 /\ files' = <<>>

Close ==
    /\ onMerge # 0
    /\ Closed /\ Replaced
    /\ UNCHANGED <<openings, unchosen, checking, delivered>>

-----------------------------------------------------------------------------
(* merge *)

\* The first item is taken before anything is awaited.
StartMerge ==
    /\ onMerge # 0 /\ Len(files) >= 2 /\ Len(merges) < MaxMerges /\ MayWork
    /\ merges' = Append(merges, [phase |-> "reading", live |-> TRUE, array |-> <<>>,
                                 taken |-> <<files[1]>>, listed |-> files, moved |-> FALSE])
    /\ UNCHANGED <<openings, onMerge, files, unchosen, checking, delivered>>

\* The bytes of an item arrive and the iterator looks for the next.
NextItem(m) == Len(m.taken) + 1
ReadFile(k) ==
    LET m == merges[k] IN
    /\ m.phase = "reading"
    /\ merges' = [merges EXCEPT ![k] =
                     IF NextItem(m) <= Len(ArrayOf(m))
                     THEN [m EXCEPT !.taken = Append(m.taken, ArrayOf(m)[NextItem(m)])]
                     ELSE [m EXCEPT !.phase = "writing", !.live = FALSE, !.array = <<>>]]
    /\ UNCHANGED <<openings, onMerge, files, unchosen, checking, delivered>>

Finished == [phase |-> "over", live |-> FALSE, array |-> <<>>, taken |-> <<>>,
         listed |-> <<>>, moved |-> FALSE]

HandDocument(k) ==
    delivered' = IF onMerge = 0 THEN delivered
                 ELSE delivered \cup {[to |-> onMerge, merge |-> k]}

\* pdf-lib has written the document: this.onMerge?.(buffer), then close.
CallBack(k) ==
    /\ merges[k].phase = "writing"
    /\ HandDocument(k) /\ Closed
    /\ merges' = [Detached EXCEPT ![k] = Finished]
    /\ UNCHANGED <<openings, unchosen, checking>>

\* A file cannot be read, or pdf-lib rejects one.
MergeFails(k) ==
    /\ merges[k].phase # "over"
    /\ merges' = [merges EXCEPT ![k] = Finished]
    /\ UNCHANGED <<openings, onMerge, files, unchosen, checking, delivered>>

MergeNext ==
    \/ Open \/ Close \/ StartMerge
    \/ \E f \in Files : Choose(f) \/ \E ok \in BOOLEAN : GuardAnswers(f, ok)
    \/ \E i \in DOMAIN files : \/ RemoveFile(i)
                               \/ \E step \in {-1, 1} : MoveFile(i, i + step)
    \/ \E k \in DOMAIN merges : ReadFile(k) \/ CallBack(k) \/ MergeFails(k)

-----------------------------------------------------------------------------
(* Properties *)

\* However many merges are under way, and whatever is closed and opened again
\* meanwhile, no opening of the dialog loads more than one merged document.
DeliversOnce == \A d, e \in delivered : d.to = e.to => d = e

\* "Add PDF files to merge them into a single document" (MergeModal.ts:29):
\* the document has every file that was listed when the button was pressed,
\* once and in this order, then those added during the merge; removing files
\* or closing the dialog does not disturb it.  Moving files does.
MergedAsListed ==
    \A k \in DOMAIN merges :
        merges[k].phase = "writing" /\ ~merges[k].moved =>
            IsPrefix(merges[k].listed, merges[k].taken) /\ IsInjective(merges[k].taken)
=============================================================================
