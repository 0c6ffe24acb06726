------------------------------- MODULE Editor -------------------------------
(***************************************************************************)
(* The PDF editor: class PDFEditor of src/src/main.ts with the handlers it *)
(* delegates to in src/src/editor/, the document service src/src/utils/    *)
(* pdf.ts and the crash-recovery vault src/src/utils/session-vault.ts.     *)
(*                                                                         *)
(* One browser thread runs every handler to its first await, so an action  *)
(* is the code between two awaits or callbacks.  What is open between them *)
(* is state: documents being loaded, the text and signature dialogs,       *)
(* images being decoded, a pointer gesture, the autosave timer and the     *)
(* writes queued in IndexedDB.                                             *)
(*                                                                         *)
(* Aliasing.  JavaScript closures keep references to the annotation array  *)
(* and to annotation objects; this.annotations is sometimes mutated and    *)
(* sometimes replaced.  A captured reference carries a flag `live`: it     *)
(* still is, or still points into, this.annotations.  Replacing the array  *)
(* clears the flag of the references that now point elsewhere.             *)
(***************************************************************************)
EXTENDS HistoryStack, FiniteSets

CONSTANTS
    Docs,        \* the documents that can be opened, each by one load
    NumPages,    \* NumPages[d] is the page count of document d
    Ids,         \* annotation ids; crypto.randomUUID never repeats one
    Kind,        \* Kind[i] is the annotation type created under id i
    Versions,    \* what position, size, colour and text of one can be
    Version0,    \* what a new annotation has
    NoDoc, NoSession, NoTimer, NoCallback, Nothing,
    PopupText,   \* preferPopupTextEditor(): text is edited in a dialog
    Touch,       \* pointers are fingers: a second one may come down
    MaxLoads,    \* bound: loads in progress at the same time
    MaxWrites,   \* bound: vault writes in progress at the same time
    MaxFaults,   \* bound: loads and vault writes that fail
    MaxCrashes,  \* bound: reloads of the page
    MaxEdits     \* bound: changes of the content of existing annotations

Kinds == {"text", "image", "signature", "checkbox", "date", "highlight"}

ASSUME ConstantsAssumption ==
    /\ NumPages \in [Docs -> Nat \ {0}]
    /\ Kind \in [Ids -> Kinds]
    /\ Version0 \in Versions
    /\ NoDoc \notin Docs
    /\ Nothing \notin Ids
    /\ PopupText \in BOOLEAN /\ Touch \in BOOLEAN
    /\ MaxLoads \in Nat /\ MaxWrites \in Nat /\ MaxFaults \in Nat
    /\ MaxCrashes \in Nat /\ MaxEdits \in Nat

VARIABLES
    pdfData,      \* PDFEditor.pdfData and PDFService.originalData
    pdfDoc,       \* PDFService.pdfDoc, what the page shows; sets totalPages
    currentPage,
    loads,        \* loadPDF calls that have not returned
    openedAlone,  \* history variable: when pdfData was set no other document
                  \* was being parsed, and parsing it has not failed
    scheduled,    \* scheduleAutosave was called since pdfData was set
    annotations,  \* PDFEditor.annotations
    history,      \* PDFEditor.history
    selected,     \* PDFEditor.selectedAnnotation
    tool,         \* activeTool: "select" (or none) or one that places
    gesture,      \* isDragging, isResizingImage, isDrawingHighlight
    dialog,       \* the callback TextEditor and SignaturePad hold
    decoding,     \* images whose onload will add an annotation
    timer,        \* autosaveTimer and what its closure captured
    writes,       \* transactions queued in IndexedDB
    vault,        \* the stored session; survives a reload
    offered,      \* the session the recovery bar offers
    usedIds, usedDocs,          \* handed out already
    faults, crashes, edits      \* counters for the bounds

docVars  == <<pdfData, pdfDoc, currentPage, loads, openedAlone, usedDocs>>
uiVars   == <<tool, gesture>>
backVars == <<writes, vault, offered, faults, crashes>>
vars == <<docVars, scheduled, annotations, history, selected, uiVars, dialog,
          decoding, timer, backVars, usedIds, edits>>

(* doc: the document the user was working on when asking for the annotation *)
(* (pdfData at the click); a history variable, not a field of the code's.   *)
Annotation == [id : Ids, page : Nat \ {0}, doc : Docs \cup {NoDoc}, ver : Versions]
Session    == [doc : Docs, annots : SUBSET Annotation]
Callback   == [op : {"add", "edit"}, id : Ids, page : Nat \ {0},
               doc : Docs \cup {NoDoc}, live : BOOLEAN]
Load       == [doc : Docs, phase : {"parse", "draw"}, session : Session \cup {NoSession}]
\* The timer's closure: the pdf, and the array, by reference while it is
\* this.annotations and by its content once it is not.
Capture    == [doc : Docs \cup {NoDoc}, live : BOOLEAN, annots : SUBSET Annotation]
Dialogs    == {"text", "pad"}
NoDialog   == [s \in Dialogs |-> NoCallback]

\* null is no object.
ASSUME NullAssumption ==
    NoCallback \notin Callback /\ NoSession \notin Session /\ NoTimer \notin Capture

TypeOK ==
    /\ pdfData \in Docs \cup {NoDoc}
    /\ pdfDoc \in Docs \cup {NoDoc}
    /\ currentPage \in Nat \ {0}
    /\ loads \in SUBSET Load
    /\ openedAlone \in BOOLEAN
    /\ scheduled \in BOOLEAN
    /\ annotations \in SUBSET Annotation
    /\ history \in Stacks(SUBSET Annotation)
    /\ selected \in [id : Ids, live : BOOLEAN] \cup {Nothing}
    /\ tool \in {"select", "place"}
    /\ gesture \in {"none", "drag", "resize", "draw"}
    /\ dialog \in [Dialogs -> Callback \cup {NoCallback}]
    /\ decoding \in SUBSET Callback
    /\ timer \in Capture \cup {NoTimer}
    /\ writes \in Seq(Session \cup {NoSession})
    /\ vault \in Session \cup {NoSession}
    /\ offered \in Session \cup {NoSession}
    /\ usedIds \in SUBSET Ids
    /\ usedDocs \in SUBSET Docs
    /\ faults \in Nat /\ crashes \in Nat /\ edits \in Nat

Init ==
    /\ pdfData = NoDoc /\ pdfDoc = NoDoc /\ currentPage = 1
    /\ loads = {} /\ openedAlone = TRUE /\ scheduled = FALSE
    /\ annotations = {} /\ history = EmptyStack /\ selected = Nothing
    /\ tool = "select" /\ gesture = "none"
    /\ dialog = NoDialog /\ decoding = {}
    /\ timer = NoTimer /\ writes = <<>>
    /\ vault = NoSession /\ offered = NoSession
    /\ usedIds = {} /\ usedDocs = {}
    /\ faults = 0 /\ crashes = 0 /\ edits = 0

-----------------------------------------------------------------------------
(* Helpers shared by the handlers *)

IdsOf(set) == {a.id : a \in set}

\* annotation.x = ..., annotation.content = ...: the object with this id.
Changed(set, i, v) == {IF a.id = i THEN [a EXCEPT !.ver = v] ELSE a : a \in set}

\* this.annotations = <another array>: references to the old one are stale,
\* and the timer keeps the old array with what it held.
Staled(c) == IF c = NoCallback THEN c ELSE [c EXCEPT !.live = FALSE]
Frozen(t) == IF t # NoTimer /\ t.live
             THEN [t EXCEPT !.live = FALSE, !.annots = annotations] ELSE t

\* Variant: the array is cloned before the handler has changed it.
ScheduleEarly(doc) ==
    /\ timer' = [doc |-> doc, live |-> FALSE, annots |-> annotations]
    /\ scheduled' = TRUE

\* scheduleAutosave (actions.ts): the previous timer is cleared, the new one
\* captures pdfData and the array.
ScheduleAutosave(doc) ==
    /\ timer' = [doc |-> doc, live |-> TRUE, annots |-> {}]
    /\ scheduled' = TRUE

\* snapshotAnnotations (main.ts)
SnapshotAnnotations == history' = Checkpoint(history, annotations)

\* An overlay covers page and toolbar while a dialog is open; the keyboard
\* and the agent panel stay usable.
PointerFree == dialog = NoDialog /\ gesture = "none" /\ pdfDoc # NoDoc

OnPage(a) == a.page = currentPage

-----------------------------------------------------------------------------
(* Opening documents *)

AllParsed == \A l \in loads : l.phase = "draw"

\* loadPDF up to its first await; reading the file or building the blank or
\* merged document came before and touched nothing.
BeginLoad(d, session) ==
    /\ Cardinality(loads) < MaxLoads
    /\ pdfData' = d
    /\ annotations' = {}
    /\ selected' = Nothing
    /\ history' = EmptyStack
    /\ scheduled' = FALSE
    /\ openedAlone' = AllParsed
    /\ loads' = loads \cup {[doc |-> d, phase |-> "parse", session |-> session]}
    /\ dialog' = [s \in Dialogs |-> Staled(dialog[s])]
    /\ decoding' = {Staled(c) : c \in decoding}
    /\ timer' = Frozen(timer)
    /\ UNCHANGED <<pdfDoc, currentPage, uiVars, usedIds, edits>>

OpenDocument(d) ==
    /\ d \notin usedDocs
    /\ usedDocs' = usedDocs \cup {d}
    /\ BeginLoad(d, NoSession)
    /\ UNCHANGED backVars

\* getDocument resolved: the page count and page 1 belong to it.
ParseDone(l) ==
    /\ l \in loads /\ l.phase = "parse"
    /\ pdfDoc' = l.doc
    /\ currentPage' = 1
    /\ loads' = (loads \ {l}) \cup {[l EXCEPT !.phase = "draw"]}
    /\ UNCHANGED <<pdfData, openedAlone, usedDocs, scheduled, annotations, history, selected, uiVars,
                   dialog, decoding, timer, backVars, usedIds, edits>>

\* getDocument, or drawing the page or a thumbnail, rejected: loadPDF throws.
LoadFails(l) ==
    /\ l \in loads
    /\ loads' = loads \ {l}
    /\ openedAlone' = (openedAlone /\ l.phase = "draw")
    /\ faults < MaxFaults /\ faults' = faults + 1
    /\ UNCHANGED <<pdfData, pdfDoc, currentPage, usedDocs, scheduled, annotations, history,
                   selected, uiVars, dialog, decoding, timer, writes, vault, offered,
                   crashes, usedIds, edits>>

\* Variant: loadPDF does not await the parser.
LoadDoneEarly(l) ==
    /\ l \in loads /\ l.session = NoSession
    /\ loads' = loads \ {l}
    /\ ScheduleAutosave(pdfData)
    /\ UNCHANGED <<pdfData, pdfDoc, currentPage, openedAlone, usedDocs, annotations, history, selected,
                   uiVars, dialog, decoding, backVars, usedIds, edits>>

\* Page and thumbnails drawn: the rest of loadPDF.
LoadDone(l) ==
    /\ l \in loads /\ l.phase = "draw" /\ l.session = NoSession
    /\ loads' = loads \ {l}
    /\ ScheduleAutosave(pdfData)
    /\ UNCHANGED <<pdfData, pdfDoc, currentPage, openedAlone, usedDocs, annotations, history, selected,
                   uiVars, dialog, decoding, backVars, usedIds, edits>>

\* The same for a restored session; then onRestore replaces the annotations
\* by the session's.  The timer that loadPDF set captured the array before.
RestoreDone(l) ==
    /\ l \in loads /\ l.phase = "draw" /\ l.session # NoSession
    /\ loads' = loads \ {l}
    /\ timer' = [doc |-> pdfData, live |-> FALSE, annots |-> annotations]
    /\ scheduled' = TRUE
    /\ annotations' = l.session.annots
    /\ selected' = IF selected = Nothing THEN Nothing ELSE [selected EXCEPT !.live = FALSE]
    /\ dialog' = [s \in Dialogs |-> Staled(dialog[s])]
    /\ decoding' = {Staled(c) : c \in decoding}
    /\ UNCHANGED <<pdfData, pdfDoc, currentPage, openedAlone, usedDocs, history, uiVars, backVars,
                   usedIds, edits>>

PagesOf(d) == IF d = NoDoc THEN {} ELSE 1 .. NumPages[d]

GoToPage(p) ==
    /\ p \in PagesOf(pdfDoc) /\ p # currentPage
    /\ currentPage' = p
    /\ UNCHANGED <<pdfData, pdfDoc, loads, openedAlone, usedDocs, scheduled, annotations, history,
                   selected, uiVars, dialog, decoding, timer, backVars, usedIds, edits>>

-----------------------------------------------------------------------------
(* Adding annotations *)

Asked(i) == [op |-> "add", id |-> i, page |-> currentPage, doc |-> pdfData, live |-> TRUE]

\* Variants: push onto whatever this.annotations is by now; push first and
\* record afterwards.
CommitAnywhere(c) ==
    /\ SnapshotAnnotations
    /\ annotations' = annotations \cup
                      {[id |-> c.id, page |-> c.page, doc |-> c.doc, ver |-> Version0]}
    /\ ScheduleAutosave(pdfData)
CommitThenRecord(c) ==
    /\ annotations' = IF c.live
                      THEN annotations \cup
                           {[id |-> c.id, page |-> c.page, doc |-> c.doc, ver |-> Version0]}
                      ELSE annotations
    /\ history' = Checkpoint(history, annotations')
    /\ ScheduleAutosave(pdfData)

\* commitAnnotation: a checkpoint of this.annotations, a push onto the array
\* that was this.annotations when the annotation was asked for.
Commit(c) ==
    /\ SnapshotAnnotations
    /\ annotations' = IF c.live
                      THEN annotations \cup
                           {[id |-> c.id, page |-> c.page, doc |-> c.doc, ver |-> Version0]}
                      ELSE annotations
    /\ ScheduleAutosave(pdfData)

\* A click with a placing tool, by the pointer on the page or by the agent's
\* canvas_click command, which asks for nothing but the tool.
Place(i, kinds) ==
    /\ tool = "place"
    /\ i \notin usedIds /\ Kind[i] \in kinds
    /\ usedIds' = usedIds \cup {i}

\* Checkbox and date are added at once.
AddAtOnce(i) ==
    /\ Place(i, {"checkbox", "date"})
    /\ Commit(Asked(i))
    /\ UNCHANGED <<docVars, selected, uiVars, dialog, decoding, backVars, edits>>

\* Text and signature ask a dialog, which keeps one callback: opening it
\* again forgets the earlier one.
DialogOf(k) == IF k = "text" THEN "text" ELSE "pad"
AskDialog(i) ==
    /\ Place(i, {"text", "signature"})
    /\ dialog' = [dialog EXCEPT ![DialogOf(Kind[i])] = Asked(i)]
    /\ UNCHANGED <<docVars, scheduled, annotations, history, selected, uiVars, decoding,
                   timer, backVars, edits>>

\* An image is read and decoded after the file was picked.
PickImage(i) ==
    /\ Place(i, {"image"})
    /\ decoding' = decoding \cup {Asked(i)}
    /\ UNCHANGED <<docVars, scheduled, annotations, history, selected, uiVars, dialog,
                   timer, backVars, edits>>

\* image.onload of an image or of a signature
ImageDecoded(c) ==
    /\ c \in decoding
    /\ decoding' = decoding \ {c}
    /\ Commit(c)
    /\ UNCHANGED <<docVars, selected, uiVars, dialog, backVars, usedIds, edits>>

\* The picker was dismissed or the data is no image: nothing is called.
ImageDropped(c) ==
    /\ c \in decoding
    /\ decoding' = decoding \ {c}
    /\ UNCHANGED <<docVars, scheduled, annotations, history, selected, uiVars, dialog,
                   timer, backVars, usedIds, edits>>

\* TextEditor.save with the callback of addTextAnnotation
SubmitNewText ==
    /\ dialog["text"] # NoCallback /\ dialog["text"].op = "add"
    /\ Commit(dialog["text"])
    /\ dialog' = [dialog EXCEPT !["text"] = NoCallback]
    /\ UNCHANGED <<docVars, selected, uiVars, decoding, backVars, usedIds, edits>>

\* TextEditor.save with the callback of openTextPopupEditor: it changes the
\* object it found when it was opened.
SubmitTextEdit(v) ==
    /\ dialog["text"] # NoCallback /\ dialog["text"].op = "edit"
    /\ edits < MaxEdits /\ edits' = edits + 1
    /\ SnapshotAnnotations
    /\ annotations' = IF dialog["text"].live
                      THEN Changed(annotations, dialog["text"].id, v) ELSE annotations
    /\ ScheduleAutosave(pdfData)
    /\ dialog' = [dialog EXCEPT !["text"] = NoCallback]
    /\ UNCHANGED <<docVars, selected, uiVars, decoding, backVars, usedIds>>

\* The signature pad hands its picture to an Image that has to load.
SubmitSignature ==
    /\ dialog["pad"] # NoCallback
    /\ decoding' = decoding \cup {dialog["pad"]}
    /\ dialog' = [dialog EXCEPT !["pad"] = NoCallback]
    /\ UNCHANGED <<docVars, scheduled, annotations, history, selected, uiVars, timer,
                   backVars, usedIds, edits>>

CancelDialog(s) ==
    /\ dialog[s] # NoCallback
    /\ dialog' = [dialog EXCEPT ![s] = NoCallback]
    /\ UNCHANGED <<docVars, scheduled, annotations, history, selected, uiVars, decoding,
                   timer, backVars, usedIds, edits>>

-----------------------------------------------------------------------------
(* Selecting and changing annotations *)

\* setActiveTool: a placing tool drops the selection.
SetTool(t) ==
    /\ t # tool
    /\ tool' = t
    /\ selected' = IF t = "place" THEN Nothing ELSE selected
    /\ UNCHANGED <<docVars, scheduled, annotations, history, gesture, dialog, decoding,
                   timer, backVars, usedIds, edits>>

\* A click away from every annotation
Deselect ==
    /\ PointerFree /\ tool = "select" /\ selected # Nothing
    /\ selected' = Nothing
    /\ UNCHANGED <<docVars, scheduled, annotations, history, uiVars, dialog, decoding,
                   timer, backVars, usedIds, edits>>

\* pointerdown on an annotation: selected, recorded, and dragged from now on,
\* but a text on a desktop is only selected.
PressAnnotation(a) ==
    /\ PointerFree /\ tool = "select"
    /\ a \in annotations /\ OnPage(a)
    /\ selected' = [id |-> a.id, live |-> TRUE]
    /\ IF Kind[a.id] = "text" /\ ~PopupText
       THEN UNCHANGED <<history, gesture>>
       ELSE SnapshotAnnotations /\ gesture' = "drag"
    /\ UNCHANGED <<docVars, scheduled, annotations, tool, dialog, decoding, timer,
                   backVars, usedIds, edits>>

\* pointerdown on a resize handle of the selected image
PressHandle ==
    /\ PointerFree /\ tool = "select"
    /\ selected # Nothing /\ Kind[selected.id] = "image"
    /\ \E a \in annotations : a.id = selected.id /\ OnPage(a)
    /\ SnapshotAnnotations
    /\ gesture' = "resize"
    /\ UNCHANGED <<docVars, scheduled, annotations, selected, tool, dialog, decoding,
                   timer, backVars, usedIds, edits>>

\* pointermove changes the selected object in place, without any record.
MovePointer(v) ==
    /\ gesture \in {"drag", "resize"}
    /\ selected # Nothing
    /\ gesture = "resize" => Kind[selected.id] = "image"
    /\ edits < MaxEdits /\ edits' = edits + 1
    /\ annotations' = IF selected.live THEN Changed(annotations, selected.id, v)
                      ELSE annotations
    /\ timer' = IF ~selected.live /\ timer # NoTimer /\ ~timer.live
                THEN [timer EXCEPT !.annots = Changed(timer.annots, selected.id, v)]
                ELSE timer
    /\ UNCHANGED <<docVars, scheduled, history, selected, uiVars, dialog, decoding,
                   backVars, usedIds>>

ReleasePointer ==
    /\ gesture \in {"drag", "resize"}
    /\ gesture' = "none"
    /\ ScheduleAutosave(pdfData)
    /\ UNCHANGED <<docVars, annotations, history, selected, tool, dialog, decoding,
                   backVars, usedIds, edits>>

\* A second finger: clearActiveInteractionState drops the gesture.
SecondFinger ==
    /\ Touch /\ gesture # "none"
    /\ gesture' = "none"
    /\ UNCHANGED <<docVars, scheduled, annotations, history, selected, tool, dialog,
                   decoding, timer, backVars, usedIds, edits>>

\* Drawing a highlight: nothing is changed before the pointer is released,
\* and nothing at all when the rectangle is too small.
PressHighlight ==
    /\ PointerFree /\ tool = "place"
    /\ gesture' = "draw"
    /\ UNCHANGED <<docVars, scheduled, annotations, history, selected, tool, dialog,
                   decoding, timer, backVars, usedIds, edits>>

ReleaseHighlight(i) ==
    /\ gesture = "draw" /\ gesture' = "none"
    /\ i \notin usedIds /\ Kind[i] = "highlight"
    /\ usedIds' = usedIds \cup {i}
    /\ Commit(Asked(i))
    /\ UNCHANGED <<docVars, selected, tool, dialog, decoding, backVars, edits>>

ReleaseTooSmall ==
    /\ gesture = "draw" /\ gesture' = "none"
    /\ UNCHANGED <<docVars, scheduled, annotations, history, selected, tool, dialog,
                   decoding, timer, backVars, usedIds, edits>>

\* A click on a text opens its editor dialog (selectAnnotationAt).
EditText(a) ==
    /\ PointerFree /\ tool = "select" /\ PopupText
    /\ a \in annotations /\ OnPage(a) /\ Kind[a.id] = "text"
    /\ selected' = [id |-> a.id, live |-> TRUE]
    /\ dialog' = [dialog EXCEPT !["text"] =
                    [op |-> "edit", id |-> a.id, page |-> a.page, doc |-> a.doc, live |-> TRUE]]
    /\ UNCHANGED <<docVars, scheduled, annotations, history, uiVars, decoding, timer,
                   backVars, usedIds, edits>>

\* A click on a checkbox toggles it.
ToggleCheckbox(a, v) ==
    /\ PointerFree
    /\ a \in annotations /\ OnPage(a) /\ Kind[a.id] = "checkbox" /\ v # a.ver
    /\ edits < MaxEdits /\ edits' = edits + 1
    /\ SnapshotAnnotations
    /\ annotations' = Changed(annotations, a.id, v)
    /\ ScheduleAutosave(pdfData)
    /\ UNCHANGED <<docVars, selected, uiVars, dialog, decoding, backVars, usedIds>>

\* The properties bar changes the selected object.
Restyle(v, kinds) ==
    /\ PointerFree
    /\ selected # Nothing /\ Kind[selected.id] \in kinds
    /\ edits < MaxEdits /\ edits' = edits + 1
    /\ annotations' = IF selected.live THEN Changed(annotations, selected.id, v)
                      ELSE annotations
    /\ ScheduleAutosave(pdfData)
    /\ UNCHANGED <<docVars, selected, uiVars, dialog, decoding, backVars, usedIds>>

ApplyColor(v) == Restyle(v, {"highlight", "text", "date"}) /\ SnapshotAnnotations

ApplyImageSize(v) == Restyle(v, {"image"}) /\ SnapshotAnnotations

\* The opacity slider records nothing.
SetOpacity(v) == Restyle(v, {"highlight"}) /\ UNCHANGED history

\* deleteSelectedAnnotation: filter makes a new array of the same objects, so
\* the arrays captured by pending additions are stale, the objects are not.
DeleteSelected ==
    /\ selected # Nothing
    /\ SnapshotAnnotations
    /\ annotations' = {a \in annotations : a.id # selected.id}
    /\ selected' = Nothing
    /\ dialog' = [s \in Dialogs |-> IF dialog[s] # NoCallback /\ dialog[s].op = "add"
                                    THEN Staled(dialog[s]) ELSE dialog[s]]
    /\ decoding' = {Staled(c) : c \in decoding}
    /\ ScheduleAutosave(pdfData)
    /\ UNCHANGED <<docVars, uiVars, backVars, usedIds, edits>>

\* Variant: the selection is kept, now an object of the replaced array.
ExchangeSelected(result, stack) ==
    /\ annotations' = result
    /\ history' = stack
    /\ selected' = IF selected = Nothing THEN Nothing ELSE [selected EXCEPT !.live = FALSE]
    /\ dialog' = [s \in Dialogs |-> Staled(dialog[s])]
    /\ decoding' = {Staled(c) : c \in decoding}
    /\ ScheduleAutosave(pdfData)
    /\ UNCHANGED <<docVars, uiVars, backVars, usedIds, edits>>

\* undo and redo put clones in place of the array and of all its objects.
Exchange(result, stack) ==
    /\ annotations' = result
    /\ history' = stack
    /\ selected' = Nothing
    /\ dialog' = [s \in Dialogs |-> Staled(dialog[s])]
    /\ decoding' = {Staled(c) : c \in decoding}
    /\ ScheduleAutosave(pdfData)
    /\ UNCHANGED <<docVars, uiVars, backVars, usedIds, edits>>

\* Variant: the state an undo replaces cannot be redone.
UndoForgets ==
    CanUndo(history) /\ Exchange(UndoResult(history),
                                 [UndoStack(history, annotations) EXCEPT !.future = <<>>])

Undo == CanUndo(history) /\ Exchange(UndoResult(history), UndoStack(history, annotations))
Redo == CanRedo(history) /\ Exchange(RedoResult(history), RedoStack(history, annotations))

-----------------------------------------------------------------------------
(* Autosave, crash and recovery *)

\* Variant: the closure reads this.pdfData when the timer fires.
AutosaveFiresNow ==
    /\ timer # NoTimer
    /\ Len(writes) < MaxWrites
    /\ timer' = NoTimer
    /\ writes' = IF timer.doc = NoDoc THEN writes
                 ELSE Append(writes, [doc    |-> pdfData,
                                      annots |-> IF timer.live THEN annotations
                                                 ELSE timer.annots])
    /\ UNCHANGED <<docVars, scheduled, annotations, history, selected, uiVars, dialog,
                   decoding, vault, offered, faults, crashes, usedIds, edits>>

\* Variant: nothing is saved while another transaction is queued.
AutosaveSkips ==
    /\ timer # NoTimer
    /\ Len(writes) < MaxWrites
    /\ timer' = NoTimer
    /\ writes' = IF timer.doc = NoDoc \/ writes # <<>> THEN writes
                 ELSE Append(writes, [doc    |-> timer.doc,
                                      annots |-> IF timer.live THEN annotations
                                                 ELSE timer.annots])
    /\ UNCHANGED <<docVars, scheduled, annotations, history, selected, uiVars, dialog,
                   decoding, vault, offered, faults, crashes, usedIds, edits>>

\* Two seconds without another scheduleAutosave: the vault is written, if a
\* document was open when the timer was set.  The clone is taken now.
AutosaveFires ==
    /\ timer # NoTimer
    /\ Len(writes) < MaxWrites
    /\ timer' = NoTimer
    /\ writes' = IF timer.doc = NoDoc THEN writes
                 ELSE Append(writes, [doc    |-> timer.doc,
                                      annots |-> IF timer.live THEN annotations
                                                 ELSE timer.annots])
    /\ UNCHANGED <<docVars, scheduled, annotations, history, selected, uiVars, dialog,
                   decoding, vault, offered, faults, crashes, usedIds, edits>>

\* IndexedDB runs the queued transactions in order.
WriteDone ==
    /\ writes # <<>>
    /\ vault' = Head(writes)
    /\ writes' = Tail(writes)
    /\ UNCHANGED <<docVars, scheduled, annotations, history, selected, uiVars, dialog,
                   decoding, timer, offered, faults, crashes, usedIds, edits>>

\* A failed transaction is swallowed silently.
WriteFails ==
    /\ writes # <<>> /\ faults < MaxFaults
    /\ faults' = faults + 1
    /\ writes' = Tail(writes)
    /\ UNCHANGED <<docVars, scheduled, annotations, history, selected, uiVars, dialog,
                   decoding, timer, vault, offered, crashes, usedIds, edits>>

\* The page is reloaded: everything but the vault is gone.  The new page reads
\* the vault and offers the session, or clears it when it is too old.
Reload(tooOld) ==
    /\ crashes < MaxCrashes /\ crashes' = crashes + 1
    /\ vault' = IF tooOld THEN NoSession ELSE vault
    /\ offered' = vault'
    /\ pdfData' = NoDoc /\ pdfDoc' = NoDoc /\ currentPage' = 1
    /\ loads' = {} /\ openedAlone' = TRUE /\ scheduled' = FALSE
    /\ annotations' = {} /\ history' = EmptyStack /\ selected' = Nothing
    /\ tool' = "select" /\ gesture' = "none"
    /\ dialog' = NoDialog /\ decoding' = {}
    /\ timer' = NoTimer /\ writes' = <<>>
    /\ UNCHANGED <<usedIds, usedDocs, faults, edits>>

Restore ==
    /\ offered # NoSession
    /\ offered' = NoSession
    /\ BeginLoad(offered.doc, offered)
    /\ UNCHANGED <<usedDocs, writes, vault, faults, crashes>>

\* Dismiss clears the vault, whatever is in it by now.
Dismiss ==
    /\ offered # NoSession
    /\ Len(writes) < MaxWrites
    /\ offered' = NoSession
    /\ writes' = Append(writes, NoSession)
    /\ UNCHANGED <<docVars, scheduled, annotations, history, selected, uiVars, dialog,
                   decoding, timer, vault, faults, crashes, usedIds, edits>>

-----------------------------------------------------------------------------
LoadStep == \E l \in loads : ParseDone(l) \/ LoadFails(l) \/ LoadDone(l) \/ RestoreDone(l)

Adding ==
    \/ \E i \in Ids : AddAtOnce(i) \/ AskDialog(i) \/ PickImage(i) \/ ReleaseHighlight(i)
    \/ \E c \in decoding : ImageDecoded(c) \/ ImageDropped(c)
    \/ \E s \in Dialogs : CancelDialog(s)
    \/ SubmitNewText \/ SubmitSignature \/ PressHighlight \/ ReleaseTooSmall

Changing ==
    \/ \E a \in annotations : PressAnnotation(a) \/ EditText(a)
    \/ \E a \in annotations, v \in Versions : ToggleCheckbox(a, v)
    \/ \E v \in Versions : MovePointer(v) \/ ApplyColor(v) \/ ApplyImageSize(v)
                           \/ SetOpacity(v) \/ SubmitTextEdit(v)
    \/ \E t \in {"select", "place"} : SetTool(t)
    \/ Deselect \/ PressHandle \/ ReleasePointer \/ SecondFinger
    \/ DeleteSelected \/ Undo \/ Redo

Saving == AutosaveFires \/ WriteDone \/ WriteFails

Next ==
    \/ \E d \in Docs : OpenDocument(d)
    \/ LoadStep
    \/ \E p \in PagesOf(pdfDoc) : GoToPage(p)
    \/ Adding
    \/ Changing
    \/ Saving
    \/ \E tooOld \in BOOLEAN : Reload(tooOld)
    \/ Restore \/ Dismiss

Spec == Init /\ [][Next]_vars

\* What the browser does by itself, once the user leaves it alone: it parses
\* and draws documents, fires timers and commits transactions.
Settles(l) == ParseDone(l) \/ LoadDone(l) \/ RestoreDone(l)

BrowserRuns ==
    /\ \A d \in Docs, phase \in {"parse", "draw"} :
          WF_vars(\E l \in loads : l.doc = d /\ l.phase = phase /\ Settles(l))
    /\ WF_vars(AutosaveFires)
    /\ WF_vars(WriteDone)

FairSpec == Spec /\ BrowserRuns

-----------------------------------------------------------------------------
(* Properties *)

\* The document states undo and redo can bring back.
Recorded(h) == {h.past[n] : n \in DOMAIN h.past} \cup {h.future[n] : n \in DOMAIN h.future}

\* No annotation of one document ever shows up in another: neither in the
\* array nor in what undo or redo would put there, although a dialog or an
\* image may answer long after another document was opened.
OneDocument ==
    \A set \in {annotations} \cup Recorded(history) : \A a \in set : a.doc = pdfData

\* The same of what is kept for recovery, on its way there or offered: the
\* annotations saved with a document were made on that document.
Unmixed(session) == session # NoSession => \A a \in session.annots : a.doc = session.doc
VaultUnmixed ==
    /\ Unmixed(vault) /\ Unmixed(offered)
    /\ \A n \in DOMAIN writes : Unmixed(writes[n])

\* The selection is an annotation of the document: what the properties bar and
\* the pointer change through it is what is shown and saved.
SelectionCurrent ==
    selected # Nothing => selected.live /\ selected.id \in IdsOf(annotations)

\* After a load has completed, when no pointer gesture is going on, the state
\* of the document is in the vault, or on its way, or the timer will take it.
Current == [doc |-> pdfData, annots |-> annotations]
LastSave == IF writes = <<>> THEN vault ELSE writes[Len(writes)]
WillSave == /\ timer # NoTimer
            /\ timer.doc = pdfData
            /\ timer.live \/ timer.annots = annotations
Moving == gesture \in {"drag", "resize"}
AutosaveArmed ==
    scheduled /\ pdfData # NoDoc /\ ~Moving => LastSave = Current \/ WillSave

\* A document opened while no other is being parsed, and parsed without failing,
\* is what the page shows, and it is the document that saving and exporting
\* write: whatever overlapped or failed before, while older documents are still
\* being drawn, and if drawing fails.  (Opened while another one is being
\* parsed, the page may end up with that one; after a file that does not parse
\* it keeps the one before.)
ShowsWhatItSaves == openedAlone /\ AllParsed => pdfDoc = pdfData

\* The undo history is what History says, whatever handler runs: each of them
\* records, undoes, redoes or clears, or leaves the history alone.
H == INSTANCE History WITH States <- SUBSET Annotation, Start <- {}, current <- annotations
EditorIsHistory == H!Spec

\* "Before any mutation, record a checkpoint" (history.ts:7): a step that
\* changes the annotations of an open document, or starts a gesture that will,
\* leaves the state before it within reach of undo or redo.  All handlers obey
\* but one: the opacity slider (event-bindings.ts:215) records nothing.
Opens == loads' # loads \/ crashes' # crashes
Slides == \E v \in Versions : SetOpacity(v)
Recoverable ==
    [][~Opens /\ ~Slides /\ ~Moving /\ (annotations' # annotations \/ Moving')
       => annotations \in Recorded(history')]_vars

\* When the user leaves the editor alone, the vault ends up holding the
\* document as it is on screen.
UserIsQuiet == <>[][UNCHANGED <<pdfData, annotations, gesture, offered>>]_vars
EventuallySaved ==
    UserIsQuiet => <>[](scheduled /\ pdfData # NoDoc /\ ~Moving => vault = Current)

\* The recovery bar is gone, and with it the session found at start-up: restored,
\* dismissed, or there was none.
Answered == offered = NoSession /\ \A l \in loads : l.session = NoSession

\* The same when the page may be reloaded and the session found is restored or
\* dismissed.  When the user has paused, nothing of another document is left in
\* the vault; and a change that waits for the timer, with no restore or
\* dismissal to come, is in it, however saves and clears were queued and
\* although the dismissed session's clear may still be among them.  (What was
\* saved before a dismissal is cleared by it, and a restore is saved only with
\* the next change.)
LastChangeIsSaved ==
    UserIsQuiet =>
        /\ <>[](scheduled /\ pdfData # NoDoc => vault = NoSession \/ vault.doc = pdfData)
        /\ <>(WillSave /\ ([]Answered \/ [](offered # NoSession)))
              => <>[](scheduled /\ pdfData # NoDoc /\ ~Moving => vault = Current)

\* commitAnnotation reports "Text added", "Image added" or "Signature added"
\* (annotation-actions.ts): what was asked for is then in the document.
PendingIds == IdsOf(decoding) \cup {dialog[s].id : s \in {s \in Dialogs :
                                  dialog[s] # NoCallback /\ dialog[s].op = "add"}}
AddedIsThere ==
    [][\A i \in PendingIds \ PendingIds' :
         ~Opens /\ history' # history => i \in IdsOf(annotations')]_vars
=============================================================================
